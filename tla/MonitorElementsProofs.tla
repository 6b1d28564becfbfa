------------------------ MODULE MonitorElementsProofs ------------------------
(***************************************************************************)
(* Theorems about MonitorElements, and about the storage files that are    *)
(* read into it, for any elements, directories, names, tests and files.    *)
(*                                                                         *)
(* ElementsInv says of the elements that callers left alone that they have *)
(* the path of their directory and that their places and names differ.     *)
(*                                                                         *)
(* Laid says how the calls of parseStorage() are laid out: which one       *)
(* begins each element that the file wants, and which ones configure it.   *)
(* FileInv says how far the walk is: the elements begun are the new ones   *)
(* in the storage, and each is configured by those of its calls that were  *)
(* made.  Neither depends on the lengths of the lists of a file; that the  *)
(* lists put together by FlattenSeq are laid out is proved by induction,   *)
(* from the order of the natural numbers being well-founded.               *)
(***************************************************************************)
EXTENDS StorageFile, FiniteSetTheorems, SequenceTheorems, WellFoundedInduction, TLAPS

\* A set of numbers that is not empty has a least one.
LEMMA LeastExists ==
  ASSUME NEW S \in SUBSET Nat, S # {}
  PROVE  Min(S) \in S /\ \A y \in S : Min(S) <= y
<1> DEFINE R == OpToRel(<, Nat)
<1>1. IsWellFoundedOn(R, Nat)
  BY NatLessThanWellFounded
<1> HIDE DEF R
<1>2. PICK x \in S : \A y \in S : <<y, x>> \notin R
  BY <1>1, WFMin, Zenon
<1>3. \A y \in S : ~(y < x)
  BY <1>2 DEF R, OpToRel
<1>4. \A y \in S : x <= y
  BY <1>3
<1> QED BY <1>4 DEF Min

\* What a member of the storage always is.
ElementsOK ==
  /\ stored \in Seq(handles) /\ handles \subseteq Elements
  /\ DOMAIN dirOf = Elements
  /\ name \in [Elements -> ObjNames \union {Unset}]
  /\ path \in [Elements -> Paths \union {Unset}]
  /\ attached \in [Elements -> SUBSET Tests]

\* Of the elements that callers left alone, none is hidden behind another.
UntouchedOK ==
  \A e \in InStorage \ touched :
    /\ path[e] = dirOf[e]
    /\ \A f \in InStorage \ touched :
         (dirOf[f] = dirOf[e] /\ name[f] = name[e]) => f = e

ElementsInv == ElementsOK /\ UntouchedOK

LEMMA StoredElements ==
  ASSUME ElementsOK
  PROVE  /\ InStorage \subseteq handles
         /\ InStorage = {stored[i] : i \in DOMAIN stored}
         /\ DOMAIN stored = 1 .. Len(stored) /\ Len(stored) \in Nat
BY LenProperties DEF ElementsOK, InStorage, Range

\* Find() gives a stored element of the name, if there is one.
LEMMA FoundIsStored ==
  ASSUME ElementsOK, NEW p, NEW n
  PROVE  \/ /\ Find(p, n) \in InStorage
            /\ dirOf[Find(p, n)] = p /\ name[Find(p, n)] = n
         \/ /\ Find(p, n) = NoElement
            /\ \A e \in InStorage : ~(dirOf[e] = p /\ name[e] = n)
<1> DEFINE found == {e \in InStorage : dirOf[e] = p /\ name[e] = n}
           hits == {i \in DOMAIN stored : dirOf[stored[i]] = p /\ name[stored[i]] = n}
<1>1. found = {stored[i] : i \in hits}
  BY StoredElements
<1>2. hits \in SUBSET Nat
  BY StoredElements
<1>3. Find(p, n) = IF hits = {} THEN NoElement ELSE stored[Min(hits)]
  BY DEF Find
<1>4. CASE hits = {}
  <2>1. found = {} /\ Find(p, n) = NoElement
    <3> HIDE DEF hits, found
    <3> QED BY <1>1, <1>3, <1>4
  <2> QED BY <2>1
<1>5. CASE hits # {}
  <2>1. Find(p, n) \in found
    <3> HIDE DEF hits, found
    <3>1. Min(hits) \in hits
      BY <1>2, <1>5, LeastExists
    <3> QED BY <1>1, <1>3, <1>5, <3>1
  <2> QED BY <2>1
<1> QED BY <1>4, <1>5

LEMMA KeptElements ==
  ASSUME ElementsOK, NEW S, Keeps(S)
  PROVE  stored' \in Seq(handles) /\ InStorage' \subseteq InStorage \intersect S
<1> DEFINE kept == {i \in DOMAIN stored : stored[i] \in S}
<1>1. PICK from \in [1 .. Cardinality(kept) -> kept] :
        stored' = [i \in DOMAIN from |-> stored[from[i]]]
  BY DEF Keeps
<1>2. Cardinality(kept) \in Nat
  <2>1. IsFiniteSet(1 .. Len(stored)) /\ kept \subseteq 1 .. Len(stored)
    BY StoredElements, FS_Interval
  <2> QED BY <2>1, FS_Subset, FS_CardinalityType
<1>3. \A i \in kept : stored[i] \in InStorage \intersect S
  BY StoredElements
<1> HIDE DEF kept
<1>4. \A i \in 1 .. Cardinality(kept) : stored[from[i]] \in InStorage \intersect S
  BY <1>3
<1>5. stored' = [i \in 1 .. Cardinality(kept) |-> stored[from[i]]]
  BY <1>1
<1>6. stored' \in Seq(handles)
  BY <1>2, <1>4, <1>5, StoredElements, IsASeq
<1>7. InStorage' = {stored'[i] : i \in DOMAIN stored'}
  BY DEF InStorage, Range
<1> QED BY <1>4, <1>5, <1>6, <1>7

LEMMA ElementsStart == Init => ElementsInv
<1> SUFFICES ASSUME Init PROVE ElementsInv
  OBVIOUS
<1>1. ElementsOK
  BY EmptySeq DEF Init, ElementsOK
<1>2. InStorage = {}
  BY <1>1, StoredElements, EmptySeq DEF Init
<1> QED BY <1>1, <1>2 DEF ElementsInv, UntouchedOK

\* What is still stored keeps its place, name and path, or was touched.
LEMMA FewerElements ==
  ASSUME ElementsInv, ElementsOK', InStorage' \subseteq InStorage, UNCHANGED dirOf,
         \A e \in InStorage' \ touched' :
           e \notin touched /\ name'[e] = name[e] /\ path'[e] = path[e]
  PROVE  ElementsInv'
BY DEF ElementsInv, UntouchedOK

LEMMA BooksOne ==
  ASSUME ElementsInv, NEW e \in Elements, NEW p \in Paths, NEW n \in ObjNames,
         Book(e, p, n)
  PROVE  ElementsInv'
<1>1. /\ ElementsOK /\ e \notin handles /\ InStorage \subseteq handles
  BY StoredElements DEF ElementsInv, Book, Create
<1>2. /\ handles' = handles \union {e} /\ name' = [name EXCEPT ![e] = n]
      /\ attached' = [attached EXCEPT ![e] = {}] /\ touched' = touched \ {e}
  BY DEF Book, Create
<1>3. CASE IsBooked(p, n)
  <2>1. /\ path' = [path EXCEPT ![e] = Unset] /\ UNCHANGED <<stored, dirOf>>
    BY <1>3 DEF Book, AddToStorage, storage
  <2>2. InStorage' = InStorage
    BY <2>1 DEF InStorage
  <2>3. ElementsOK'
    <3>1. stored \in Seq(handles')
      BY <1>1, <1>2, SeqMonotonic DEF ElementsOK
    <3> QED BY <1>1, <1>2, <2>1, <3>1 DEF ElementsOK
  <2> QED BY <1>1, <1>2, <2>1, <2>2, <2>3, FewerElements DEF ElementsOK
<1>4. CASE ~IsBooked(p, n)
  <2>1. /\ path' = [path EXCEPT ![e] = p] /\ dirOf' = [dirOf EXCEPT ![e] = p]
        /\ stored' = Append(stored, e)
    BY <1>4 DEF Book, AddToStorage
  <2>2. stored' \in Seq(handles') /\ InStorage' = InStorage \union {e}
    <3>1. stored \in Seq(handles') /\ e \in handles'
      BY <1>1, <1>2, SeqMonotonic DEF ElementsOK
    <3>2. /\ stored' \in Seq(handles') /\ Len(stored') = Len(stored) + 1
          /\ \A i \in 1 .. Len(stored) : stored'[i] = stored[i]
          /\ stored'[Len(stored) + 1] = e
      BY <2>1, <3>1, AppendProperties
    <3>3. DOMAIN stored' = 1 .. Len(stored) + 1
      BY <3>2, LenProperties
    <3>4. InStorage' = {stored'[i] : i \in 1 .. Len(stored) + 1}
      BY <3>3 DEF InStorage, Range
    <3>5. /\ InStorage = {stored[i] : i \in 1 .. Len(stored)} /\ Len(stored) \in Nat
      BY <1>1, StoredElements
    <3>6. 1 .. Len(stored) + 1 = (1 .. Len(stored)) \union {Len(stored) + 1}
      BY <3>5
    <3> QED BY <3>2, <3>4, <3>5, <3>6
  <2>3. ElementsOK'
    BY <1>1, <1>2, <2>1, <2>2 DEF ElementsOK
  <2>4. \A f \in InStorage : ~(dirOf[f] = p /\ name[f] = n)
    <3>1. \A f \in InStorage : f # NoElement
      BY <1>1, ElementsAssumption DEF ElementsOK
    <3> QED BY <1>1, <1>4, <3>1, FoundIsStored DEF IsBooked
  <2>5. /\ name'[e] = n /\ dirOf'[e] = p /\ path'[e] = p
        /\ \A f \in InStorage : f # e /\ name'[f] = name[f] /\ dirOf'[f] = dirOf[f]
                                /\ path'[f] = path[f]
    BY <1>1, <1>2, <2>1 DEF ElementsOK
  <2> QED BY <1>2, <2>2, <2>3, <2>4, <2>5 DEF ElementsInv, UntouchedOK
<1> QED BY <1>3, <1>4

LEMMA TestsAreChanged ==
  ASSUME ElementsInv, NEW p, NEW n, NEW t \in Tests,
         AddQualityTest(p, n, t) \/ RemoveQualityTest(p, n, t)
  PROVE  ElementsInv'
<1>1. ElementsOK
  BY DEF ElementsInv
<1>2. /\ UNCHANGED <<stored, dirOf, handles, name, path, touched>>
      /\ \/ UNCHANGED attached
         \/ attached' = [attached EXCEPT ![Find(p, n)] = @ \union {t}]
         \/ attached' = [attached EXCEPT ![Find(p, n)] = @ \ {t}]
  BY DEF AddQualityTest, RemoveQualityTest, storage
<1>3. ElementsOK'
  BY <1>1, <1>2 DEF ElementsOK
<1>4. InStorage' = InStorage
  BY <1>2 DEF InStorage
<1> QED BY <1>2, <1>3, <1>4, FewerElements

LEMMA ElementsStay ==
  ASSUME ElementsInv, UNCHANGED <<storage, element>>
  PROVE  ElementsInv'
<1>1. ElementsOK'
  BY DEF ElementsInv, ElementsOK, storage, element
<1>2. InStorage' = InStorage
  BY DEF InStorage, storage
<1> QED BY <1>1, <1>2, FewerElements DEF storage, element

LEMMA ElementsStep == ElementsInv /\ [Next]_vars => ElementsInv'
<1> SUFFICES ASSUME ElementsInv, [Next]_vars PROVE ElementsInv'
  OBVIOUS
<1>1. ElementsOK /\ InStorage \subseteq handles
  BY StoredElements DEF ElementsInv
<1>2. ASSUME UNCHANGED <<stored, dirOf>>, ElementsOK',
             \A e \in InStorage \ touched' :
               e \notin touched /\ name'[e] = name[e] /\ path'[e] = path[e]
      PROVE  ElementsInv'
  <2>1. InStorage' = InStorage
    BY <1>2 DEF InStorage
  <2> QED BY <1>2, <2>1, FewerElements
<1>3. CASE UNCHANGED <<stored, dirOf, element>>
  <2>1. ElementsOK'
    BY <1>1, <1>3 DEF element, ElementsOK
  <2> QED BY <1>2, <1>3, <2>1 DEF element
<1>4. ASSUME NEW S, Keeps(S), UNCHANGED <<dirOf, element>> PROVE ElementsInv'
  <2>1. stored' \in Seq(handles) /\ InStorage' \subseteq InStorage
    BY <1>1, <1>4, KeptElements
  <2>2. ElementsOK'
    BY <1>1, <1>4, <2>1 DEF element, ElementsOK
  <2> QED BY <1>4, <2>1, <2>2, FewerElements DEF element
<1>5. ASSUME NEW p \in Paths, NEW n, RemoveMonitorElement(p, n) PROVE ElementsInv'
  BY <1>3, <1>4, <1>5 DEF RemoveMonitorElement
<1>6. ASSUME NEW p \in Paths, Mkdir(p) \/ Rmdir(p) PROVE ElementsInv'
  BY <1>3, <1>4, <1>6 DEF Mkdir, Rmdir
<1>7. ASSUME NEW e \in Elements, NEW n \in ObjNames, SetName(e, n) \/ SetObject(e, n)
      PROVE  ElementsInv'
  <2>1. /\ name' = [name EXCEPT ![e] = n] /\ touched' = touched \union {e}
        /\ UNCHANGED <<stored, dirOf, handles, path, attached>>
    BY <1>7 DEF SetName, SetObject, storage
  <2>2. ElementsOK'
    BY <1>1, <2>1 DEF ElementsOK
  <2> QED BY <1>1, <1>2, <2>1, <2>2 DEF ElementsOK
<1>8. ASSUME NEW e \in Elements, Drop(e) PROVE ElementsInv'
  <2>1. /\ e \notin InStorage /\ handles' = handles \ {e}
        /\ UNCHANGED <<stored, dirOf, name, path, attached, touched>>
    BY <1>8 DEF Drop, storage
  <2>2. stored \in Seq(handles')
    <3>1. \A i \in 1 .. Len(stored) : stored[i] \in handles'
      BY <1>1, <2>1, StoredElements
    <3>2. stored \in Seq(handles) /\ Len(stored) \in Nat
          /\ stored = [i \in 1 .. Len(stored) |-> stored[i]]
      BY <1>1, StoredElements DEF ElementsOK
    <3> QED BY <3>1, <3>2, IsASeq
  <2>3. ElementsOK'
    BY <1>1, <2>1, <2>2 DEF ElementsOK
  <2> QED BY <1>2, <2>1, <2>3
<1>9. CASE ResetMonitorElements
  <2>1. /\ name' = [e \in Elements |-> IF e \in InStorage THEN Unset ELSE name[e]]
        /\ path' = [e \in Elements |-> IF e \in InStorage THEN Unset ELSE path[e]]
        /\ attached' = [e \in Elements |-> IF e \in InStorage THEN {} ELSE attached[e]]
        /\ touched' = touched \union InStorage /\ UNCHANGED <<stored, dirOf, handles>>
    BY <1>9 DEF ResetMonitorElements, storage
  <2> HIDE DEF InStorage
  <2>2. ElementsOK'
    BY <1>1, <2>1 DEF ElementsOK
  <2> QED BY <1>2, <2>1, <2>2
<1> QED
  BY <1>3, <1>5, <1>6, <1>7, <1>8, <1>9, TestsAreChanged, BooksOne
  DEF Next, vars, storage, NotBooked, RunQualityTests, RunElement, RunQualityTest

LEMMA UntouchedAreFound == ElementsInv => FoundByPathAndName
<1> SUFFICES ASSUME ElementsInv, InStorage \intersect touched = {}, NEW e \in InStorage
             PROVE  path[e] = dirOf[e] /\ Find(path[e], name[e]) = e
  BY DEF FoundByPathAndName
<1>1. ElementsOK /\ e \notin touched /\ path[e] = dirOf[e]
  BY DEF ElementsInv, UntouchedOK
<1> DEFINE f == Find(path[e], name[e])
<1>2. f \in InStorage /\ dirOf[f] = path[e] /\ name[f] = name[e]
  BY <1>1, FoundIsStored
<1> HIDE DEF f
<1>3. f = e
  BY <1>1, <1>2 DEF ElementsInv, UntouchedOK
<1> QED BY <1>1, <1>3 DEF f

(***************************************************************************)
(* For any elements, directories and names, and however callers keep using *)
(* handles: elements that are left alone are found under their own path    *)
(* and name (MonitorElementManager.cc:364-385, Directory.h:354-363).       *)
(***************************************************************************)
THEOREM ElementsStayFound == Spec => []FoundByPathAndName
BY UntouchedAreFound, ElementsStart, ElementsStep, PTL DEF Spec

\* The key of a report tells its element, among those left alone.
LEMMA KeysTellElements ==
  ASSUME ElementsInv, InStorage \intersect touched = {}, NEW e \in InStorage, NEW f \in InStorage,
         NEW t, NEW u, Key(e, t) = Key(f, u)
  PROVE  e = f
<1>1. path[e] = path[f] /\ name[e] = name[f]
  BY DEF Key
<1>2. dirOf[e] = path[e] /\ dirOf[f] = path[f]
  BY DEF ElementsInv, UntouchedOK
<1> QED BY <1>1, <1>2 DEF ElementsInv, UntouchedOK

LEMMA DueReports ==
  ASSUME NEW S, NEW r
  PROVE  r \in Due(S) <=> \E e \in S : \E t \in attached[e] : r = <<e, t>>
BY DEF Due

LEMMA SuccessfulRuns ==
  ASSUME ElementsInv, InStorage \intersect touched = {}, AddReports(Due(InStorage)),
         NEW r \in Due(InStorage)
  PROVE  reports'[Key(r[1], r[2])] = r[1]
<1> DEFINE R == Due(InStorage)
<1>1. PICK e \in InStorage : \E t \in attached[e] : r = <<e, t>>
  BY DueReports
<1>2. PICK t \in attached[e] : r = <<e, t>>
  BY <1>1
<1>3. ElementsOK /\ e \in Elements /\ t \in Tests
  BY StoredElements DEF ElementsInv, ElementsOK
<1> DEFINE k == Key(e, t)
<1>4. k \in Keys
  BY <1>3 DEF Key, Keys, ElementsOK
<1> HIDE DEF R
<1>5. PICK latest \in [{Key(q[1], q[2]) : q \in R} -> {q[1] : q \in R}] :
        /\ \A j \in DOMAIN latest : \E q \in R : q[1] = latest[j] /\ Key(q[1], q[2]) = j
        /\ reports' = [j \in Keys |-> IF j \in DOMAIN latest THEN latest[j] ELSE NoElement]
  BY DEF AddReports, R
<1>6. k \in DOMAIN latest
  <2>1. r \in R /\ k = Key(r[1], r[2])
    BY <1>2 DEF R
  <2> HIDE DEF k
  <2> QED BY <1>5, <2>1
<1>7. PICK q \in R : q[1] = latest[k] /\ Key(q[1], q[2]) = k
  BY <1>5, <1>6
<1>8. q[1] \in InStorage
  BY <1>7, DueReports DEF R
<1>9. q[1] = e
  BY <1>7, <1>8, KeysTellElements
<1>10. reports'[k] = latest[k]
  BY <1>4, <1>5, <1>6
<1> QED BY <1>2, <1>7, <1>9, <1>10

LEMMA RunsAreWhole ==
  ASSUME ElementsInv, RunQualityTests
  PROVE  /\ status' = "SUCCESS" /\ InStorage \intersect touched = {} =>
              \A r \in Due(InStorage) : reports'[Key(r[1], r[2])] = r[1]
         /\ \A e \in Elements : \/ \A t \in attached[e] : <<e, t>> \in added'
                                \/ \A t \in Tests : <<e, t>> \notin added'
<1>1. ASSUME NEW S, AddReports(Due(S)), NEW e \in Elements
      PROVE  \/ \A t \in attached[e] : <<e, t>> \in added'
             \/ \A t \in Tests : <<e, t>> \notin added'
  <2>1. \A t : <<e, t>> \in added' <=> e \in S /\ t \in attached[e]
    BY <1>1 DEF AddReports, Due
  <2> QED BY <2>1
<1>2. CASE AddReports(Due(InStorage)) /\ Return("SUCCESS")
  BY <1>1, <1>2, SuccessfulRuns
<1>3. ASSUME NEW e, NEW S, FailedRun(e, S)
      PROVE  AddReports(Due(S)) /\ status' # "SUCCESS"
  BY <1>3 DEF FailedRun, Return
<1> QED BY <1>1, <1>2, <1>3 DEF RunQualityTests

(***************************************************************************)
(* For any elements and tests, and wherever an exception ends the run: the *)
(* reports of a run that succeeds are each under a key of its own, and no  *)
(* element has part of its reports (MonitorElementManager.cc:285-302,      *)
(* MonitorElement.cc:416-431).                                             *)
(***************************************************************************)
THEOREM ReportsStayWhole == Spec => ReportsAreWhole
<1> DEFINE Whole ==
      RunQualityTests =>
        /\ status' = "SUCCESS" /\ InStorage \intersect touched = {} =>
             \A r \in Due(InStorage) : reports'[Key(r[1], r[2])] = r[1]
        /\ \A e \in Elements : \/ \A t \in attached[e] : <<e, t>> \in added'
                               \/ \A t \in Tests : <<e, t>> \notin added'
<1>1. ElementsInv /\ [Next]_vars => [Whole]_vars
  BY RunsAreWhole
<1>2. ReportsAreWhole <=> [][Whole]_vars
  BY PTL DEF ReportsAreWhole
<1> HIDE DEF Whole
<1> QED BY <1>1, <1>2, ElementsStart, ElementsStep, PTL DEF Spec
-----------------------------------------------------------------------------
(* Sequences.                                                              *)

\* S contains every number: its least exception would have a predecessor.
LEMMA Induction ==
  ASSUME NEW S, 0 \in S, \A n \in Nat : n \in S => n + 1 \in S
  PROVE  Nat \subseteq S
<1> DEFINE T == Nat \ S
<1> SUFFICES ASSUME T # {} PROVE FALSE
  OBVIOUS
<1>1. T \in SUBSET Nat
  OBVIOUS
<1> HIDE DEF T
<1>2. PICK n \in T : \A m \in T : n <= m
  BY <1>1, LeastExists
<1>3. n # 0 /\ n - 1 \in Nat /\ n - 1 \in S
  BY <1>2 DEF T
<1> QED BY <1>2, <1>3 DEF T

LEMMA SeqIs ==
  ASSUME NEW s, IsSeq(s)
  PROVE  /\ Len(s) \in Nat /\ DOMAIN s = 1 .. Len(s)
         /\ Range(s) = {s[i] : i \in 1 .. Len(s)}
         /\ s = [i \in 1 .. Len(s) |-> s[i]]
BY LenProperties DEF IsSeq, Range

LEMMA MadeSeq ==
  ASSUME NEW s, NEW n \in Nat, s = [i \in 1 .. n |-> s[i]]
  PROVE  IsSeq(s) /\ Len(s) = n
<1>1. Range(s) = {s[i] : i \in 1 .. n}
  BY DEF Range
<1>2. \A i \in 1 .. n : s[i] \in Range(s)
  BY <1>1
<1>3. s \in Seq(Range(s))
  BY <1>2, IsASeq
<1>4. Len(s) \in Nat /\ DOMAIN s = 1 .. Len(s) /\ DOMAIN s = 1 .. n
  BY <1>3, LenProperties
<1> QED BY <1>3, <1>4 DEF IsSeq

LEMMA ConcatSeq ==
  ASSUME NEW s, NEW t, IsSeq(s), IsSeq(t)
  PROVE  /\ IsSeq(s \o t) /\ Len(s \o t) = Len(s) + Len(t)
         /\ \A i \in 1 .. Len(s) : (s \o t)[i] = s[i]
         /\ \A i \in 1 .. Len(t) : (s \o t)[Len(s) + i] = t[i]
<1> DEFINE R == Range(s) \union Range(t)
<1>1. s \in Seq(R) /\ t \in Seq(R)
  BY SeqMonotonic DEF IsSeq
<1>2. /\ s \o t \in Seq(R) /\ Len(s \o t) = Len(s) + Len(t)
      /\ \A i \in 1 .. Len(s) + Len(t) : (s \o t)[i] =
           IF i <= Len(s) THEN s[i] ELSE t[i - Len(s)]
  BY <1>1, ConcatProperties
<1>3. Len(s) \in Nat /\ Len(t) \in Nat
  BY SeqIs
<1>4. s \o t = [i \in 1 .. Len(s) + Len(t) |-> (s \o t)[i]]
  <2> DEFINE u == s \o t
  <2>1. u \in [1 .. Len(u) -> R] /\ Len(u) = Len(s) + Len(t)
    BY <1>2, LenProperties
  <2> HIDE DEF u
  <2> QED BY <2>1 DEF u
<1>5. IsSeq(s \o t)
  BY <1>3, <1>4, MadeSeq
<1>6. \A i \in 1 .. Len(s) : i \in 1 .. Len(s) + Len(t) /\ i <= Len(s)
  BY <1>3
<1>7. \A i \in 1 .. Len(t) : /\ Len(s) + i \in 1 .. Len(s) + Len(t)
                             /\ ~(Len(s) + i <= Len(s)) /\ Len(s) + i - Len(s) = i
  BY <1>3
<1> QED BY <1>2, <1>5, <1>6, <1>7

LEMMA ConcatEmpty ==
  ASSUME NEW s, IsSeq(s)
  PROVE  s \o <<>> = s /\ <<>> \o s = s
BY ConcatEmptySeq DEF IsSeq

LEMMA NoSteps == IsSeq(<<>>) /\ Len(<<>>) = 0
BY EmptySeq DEF IsSeq

LEMMA OneStep ==
  ASSUME NEW s
  PROVE  IsSeq(<<s>>) /\ Len(<<s>>) = 1 /\ <<s>>[1] = s
BY DEF IsSeq, Range

(***************************************************************************)
(* FlattenSeq: the sequence of what it has after 1, 2 and so on of the     *)
(* sequences that it is given.                                             *)
(***************************************************************************)
IsFlat(f, ss, n) ==
  f = [i \in 1 .. n |-> IF i = 1 THEN ss[i] ELSE f[i - 1] \o ss[i]]

LEMMA FlatExists ==
  ASSUME NEW ss, NEW n \in Nat
  PROVE  \E f : IsFlat(f, ss, n)
<1> DEFINE S == {m \in Nat : \E f : IsFlat(f, ss, m)}
<1>1. 0 \in S
  <2> DEFINE f == [i \in 1 .. 0 |-> ss[i]]
  <2>1. IsFlat(f, ss, 0)
    BY DEF IsFlat
  <2> QED BY <2>1
<1>2. ASSUME NEW m \in Nat, m \in S PROVE m + 1 \in S
  <2>1. PICK f : IsFlat(f, ss, m)
    BY <1>2
  <2> DEFINE e == IF m = 0 THEN ss[1] ELSE f[m] \o ss[m + 1]
             g == [i \in 1 .. m + 1 |-> IF i <= m THEN f[i] ELSE e]
             h == [i \in 1 .. m + 1 |-> IF i = 1 THEN ss[i] ELSE g[i - 1] \o ss[i]]
  <2>2. \A i \in 1 .. m : f[i] = IF i = 1 THEN ss[i] ELSE f[i - 1] \o ss[i]
    BY <2>1 DEF IsFlat
  <2>3. ASSUME NEW i \in 1 .. m + 1 PROVE g[i] = h[i]
    <3>1. i > 1 => i - 1 \in 1 .. m + 1 /\ i - 1 <= m
      OBVIOUS
    <3>2. g[i] = IF i <= m THEN f[i] ELSE e
      OBVIOUS
    <3>3. h[i] = IF i = 1 THEN ss[i] ELSE g[i - 1] \o ss[i]
      OBVIOUS
    <3>4. i > 1 => g[i - 1] = f[i - 1]
      BY <3>1
    <3> HIDE DEF g, h
    <3>5. CASE i <= m
      <4>1. i \in 1 .. m /\ (i # 1 => i > 1)
        BY <3>5
      <4> QED BY <2>2, <3>2, <3>3, <3>4, <3>5, <4>1
    <3>6. CASE i = m + 1
      <4>1. ~(i <= m) /\ (i = 1 <=> m = 0) /\ (i # 1 => i > 1) /\ i - 1 = m
        BY <3>6
      <4> QED BY <3>2, <3>3, <3>4, <3>6, <4>1
    <3> QED BY <3>5, <3>6
  <2>4. g = h
    BY <2>3
  <2>5. IsFlat(g, ss, m + 1)
    BY <2>4, Zenon DEF IsFlat
  <2> QED BY <2>5
<1> HIDE DEF S
<1>3. n \in S
  BY <1>1, <1>2, Induction
<1> QED BY <1>3 DEF S

LEMMA Flattened ==
  ASSUME NEW ss, IsSeq(ss), Len(ss) # 0
  PROVE  \E f : IsFlat(f, ss, Len(ss)) /\ FlattenSeq(ss) = f[Len(ss)]
<1> DEFINE f == CHOOSE f : IsFlat(f, ss, Len(ss))
<1>1. IsFlat(f, ss, Len(ss))
  BY SeqIs, FlatExists, Zenon
<1>2. FlattenSeq(ss) = f[Len(ss)]
  BY Zenon DEF FlattenSeq, IsFlat
<1> QED BY <1>1, <1>2
-----------------------------------------------------------------------------
(***************************************************************************)
(* How the calls S of a walk are laid out for the elements W: at says      *)
(* which call begins each element, the calls that configure it come next,  *)
(* and the others are in N.                                                *)
(***************************************************************************)
Begins(s, w) ==
  /\ IsItem(w[1])
  /\ \/ s = [do |-> "book", of |-> w[1]] /\ w[2] = w[1].name
     \/ /\ s.do = "read" /\ s = [do |-> "read", of |-> w[1], file |-> s.file]
        /\ w[2] = RootFiles[s.file][<<PathOf(w[1]), w[1].name>>]

Size(w) == Len(Configures(w[1]))

Laid(N, S, W, at) ==
  /\ IsSeq(S) /\ IsSeq(W)
  /\ at \in [1 .. Len(W) -> 1 .. Len(S)]
  /\ \A w \in 1 .. Len(W) :
       /\ Begins(S[at[w]], W[w])
       /\ at[w] + Size(W[w]) <= Len(S)
       /\ \A j \in 1 .. Size(W[w]) : S[at[w] + j] = Configures(W[w][1])[j]
  /\ \A v, w \in 1 .. Len(W) : v < w => at[v] + Size(W[v]) < at[w]
  /\ \A k \in 1 .. Len(S) :
       S[k] \in N \/ \E w \in 1 .. Len(W) : k \in at[w] .. at[w] + Size(W[w])

LEMMA ConfiguresSeq ==
  ASSUME NEW i, IsItem(i)
  PROVE  /\ IsSeq(Configures(i))
         /\ \A j \in 1 .. Len(Configures(i)) :
              \/ /\ i.reference # None /\ j = 1
                 /\ Configures(i)[j] = [do |-> "reference", of |-> i.reference]
              \/ /\ i.reference = None \/ j # 1
                 /\ \E t \in 1 .. Len(i.tests) :
                      Configures(i)[j] = [do |-> "test", of |-> i.tests[t]]
         /\ i.reference # None => Len(Configures(i)) >= 1
         /\ {Configures(i)[j].of : j \in
               {k \in 1 .. Len(Configures(i)) : Configures(i)[k].do = "test"}} = Range(i.tests)
<1> DEFINE A == IF i.reference = None THEN <<>> ELSE << [do |-> "reference", of |-> i.reference] >>
           T == [t \in DOMAIN i.tests |-> [do |-> "test", of |-> i.tests[t]]]
           C == Configures(i)
<1>1. /\ DOMAIN i.tests = 1 .. Len(i.tests) /\ Len(i.tests) \in Nat
      /\ Range(i.tests) = {i.tests[t] : t \in 1 .. Len(i.tests)}
  BY SeqIs DEF IsItem
<1>2. IsSeq(T) /\ Len(T) = Len(i.tests)
  <2>1. T = [t \in 1 .. Len(i.tests) |-> T[t]]
    BY <1>1
  <2> HIDE DEF T
  <2> QED BY <1>1, <2>1, MadeSeq
<1>3. \A t \in 1 .. Len(i.tests) : T[t] = [do |-> "test", of |-> i.tests[t]]
  BY <1>1
<1>4. /\ IsSeq(A) /\ Len(A) = IF i.reference = None THEN 0 ELSE 1
      /\ i.reference # None => A[1] = [do |-> "reference", of |-> i.reference]
  BY NoSteps, OneStep
<1>5. C = A \o T
  BY DEF Configures
<1> HIDE DEF A, T, C
<1>6. /\ IsSeq(C) /\ Len(C) = Len(A) + Len(i.tests)
      /\ \A j \in 1 .. Len(A) : C[j] = A[j]
      /\ \A t \in 1 .. Len(i.tests) : C[Len(A) + t] = T[t]
  <2>1. /\ IsSeq(A \o T) /\ Len(A \o T) = Len(A) + Len(T)
        /\ \A j \in 1 .. Len(A) : (A \o T)[j] = A[j]
        /\ \A t \in 1 .. Len(T) : (A \o T)[Len(A) + t] = T[t]
    <3>1. IsSeq(A) /\ IsSeq(T)
      BY <1>2, <1>4
    <3> QED BY <3>1, ConcatSeq
  <2> QED BY <1>2, <1>5, <2>1, Zenon
<1> DEFINE a == Len(A)
           n == Len(i.tests)
<1>10. /\ n \in Nat /\ Len(C) = a + n
       /\ (i.reference = None /\ a = 0) \/ (i.reference # None /\ a = 1)
  BY <1>1, <1>4, <1>6
<1>7. ASSUME NEW j \in 1 .. Len(C)
      PROVE  \/ /\ i.reference # None /\ j = 1
                /\ C[j] = [do |-> "reference", of |-> i.reference]
             \/ /\ i.reference = None \/ j # 1
                /\ \E t \in 1 .. Len(i.tests) : C[j] = [do |-> "test", of |-> i.tests[t]]
  <2>1. CASE i.reference # None /\ j = 1
    BY <1>4, <1>6, <2>1
  <2>2. CASE i.reference = None \/ j # 1
    <3>1. j - Len(A) \in 1 .. Len(i.tests) /\ Len(A) + (j - Len(A)) = j
      <4> HIDE DEF a, n
      <4>1. j \in 1 .. a + n /\ (a = 0 \/ (a = 1 /\ j # 1))
        BY <1>10, <2>2
      <4>2. j - a \in 1 .. n /\ a + (j - a) = j
        BY <1>10, <4>1
      <4> QED BY <4>2 DEF a, n
    <3>2. C[j] = [do |-> "test", of |-> i.tests[j - Len(A)]]
      BY <1>3, <1>6, <3>1
    <3> QED BY <2>2, <3>1, <3>2
  <2> QED BY <2>1, <2>2
<1>8. {C[j].of : j \in {k \in 1 .. Len(C) : C[k].do = "test"}} = Range(i.tests)
  <2>1. ASSUME NEW j \in 1 .. Len(C), C[j].do = "test" PROVE C[j].of \in Range(i.tests)
    <3>1. PICK t \in 1 .. Len(i.tests) : C[j] = [do |-> "test", of |-> i.tests[t]]
      BY <1>7, <2>1
    <3> QED BY <1>1, <3>1
  <2>2. ASSUME NEW t \in 1 .. Len(i.tests)
        PROVE  \E j \in 1 .. Len(C) : C[j].do = "test" /\ C[j].of = i.tests[t]
    <3>1. Len(A) + t \in 1 .. Len(C)
      <4> HIDE DEF a, n
      <4>1. a + t \in 1 .. a + n
        <5>1. t \in 1 .. n
          BY DEF n
        <5> QED BY <1>10, <5>1
      <4> QED BY <1>10, <4>1 DEF a, n
    <3>2. C[Len(A) + t] = [do |-> "test", of |-> i.tests[t]]
      BY <1>3, <1>6
    <3> QED BY <3>1, <3>2
  <2>3. \A y \in Range(i.tests) : \E t \in 1 .. Len(i.tests) : y = i.tests[t]
    BY <1>1
  <2> QED BY <2>1, <2>2, <2>3
<1>9. i.reference # None => Len(C) >= 1
  BY <1>1, <1>4, <1>6
<1> QED BY <1>6, <1>7, <1>8, <1>9 DEF C

LEMMA SizeIsNat ==
  ASSUME NEW N, NEW S, NEW W, NEW at, Laid(N, S, W, at)
  PROVE  /\ \A w \in 1 .. Len(W) : Size(W[w]) \in Nat
         /\ Len(S) \in Nat /\ Len(W) \in Nat
BY ConfiguresSeq, SeqIs DEF Laid, Begins, Size

LEMMA LaidNothing ==
  ASSUME NEW N, NEW S, IsSeq(S), \A k \in 1 .. Len(S) : S[k] \in N
  PROVE  Laid(N, S, <<>>, [w \in 1 .. 0 |-> w])
BY NoSteps, SeqIs DEF Laid

LEMMA LaidConcat ==
  ASSUME NEW N, NEW S, NEW V, NEW at, Laid(N, S, V, at),
         NEW T, NEW W, NEW bt, Laid(N, T, W, bt)
  PROVE  Laid(N, S \o T, V \o W,
              [w \in 1 .. Len(V) + Len(W) |->
                 IF w <= Len(V) THEN at[w] ELSE Len(S) + bt[w - Len(V)]])
<1> DEFINE ct == [w \in 1 .. Len(V) + Len(W) |->
                    IF w <= Len(V) THEN at[w] ELSE Len(S) + bt[w - Len(V)]]
           U == S \o T
           X == V \o W
<1>1. /\ IsSeq(S) /\ IsSeq(T) /\ IsSeq(V) /\ IsSeq(W)
      /\ Len(S) \in Nat /\ Len(T) \in Nat /\ Len(V) \in Nat /\ Len(W) \in Nat
  BY SizeIsNat DEF Laid
<1>2. /\ IsSeq(U) /\ Len(U) = Len(S) + Len(T)
      /\ \A k \in 1 .. Len(S) : U[k] = S[k]
      /\ \A k \in 1 .. Len(T) : U[Len(S) + k] = T[k]
  BY <1>1, ConcatSeq
<1>3. /\ IsSeq(X) /\ Len(X) = Len(V) + Len(W)
      /\ \A w \in 1 .. Len(V) : X[w] = V[w]
      /\ \A w \in 1 .. Len(W) : X[Len(V) + w] = W[w]
  BY <1>1, ConcatSeq
<1>4. \A w \in 1 .. Len(V) : at[w] \in 1 .. Len(S)
  BY DEF Laid
<1>5. \A w \in 1 .. Len(W) : bt[w] \in 1 .. Len(T)
  BY DEF Laid
<1>6. \A w \in 1 .. Len(V) : w \in 1 .. Len(X) /\ ct[w] = at[w]
  BY <1>1, <1>3
<1>7. \A w \in 1 .. Len(W) : Len(V) + w \in 1 .. Len(X) /\ ct[Len(V) + w] = Len(S) + bt[w]
  <2>1. \A w \in 1 .. Len(W) : /\ Len(V) + w \in 1 .. Len(V) + Len(W)
                               /\ ~(Len(V) + w <= Len(V)) /\ Len(V) + w - Len(V) = w
    BY <1>1
  <2> QED BY <1>3, <2>1
<1>8. \A w \in 1 .. Len(X) :
        w \in 1 .. Len(V) \/ (w - Len(V) \in 1 .. Len(W) /\ w = Len(V) + (w - Len(V)))
  BY <1>1, <1>3
<1>9. ct \in [1 .. Len(X) -> 1 .. Len(U)]
  <2>1. DOMAIN ct = 1 .. Len(X) /\ ct = [w \in 1 .. Len(X) |-> ct[w]]
    BY <1>3
  <2>2. \A w \in 1 .. Len(V) : ct[w] \in 1 .. Len(U)
    BY <1>1, <1>2, <1>4, <1>6
  <2>3. \A w \in 1 .. Len(W) : ct[Len(V) + w] \in 1 .. Len(U)
    BY <1>1, <1>2, <1>5, <1>7
  <2> HIDE DEF ct, U, X
  <2>4. \A w \in 1 .. Len(X) : ct[w] \in 1 .. Len(U)
    BY <1>8, <2>2, <2>3
  <2> QED BY <2>1, <2>4
<1> HIDE DEF ct, U, X
<1>10. \A w \in 1 .. Len(V) : Size(V[w]) \in Nat
  BY SizeIsNat
<1>11. \A w \in 1 .. Len(W) : Size(W[w]) \in Nat
  BY SizeIsNat
<1>12. ASSUME NEW w \in 1 .. Len(X)
       PROVE  /\ Begins(U[ct[w]], X[w])
              /\ ct[w] + Size(X[w]) <= Len(U)
              /\ \A j \in 1 .. Size(X[w]) : U[ct[w] + j] = Configures(X[w][1])[j]
  <2>1. CASE w \in 1 .. Len(V)
    <3>1. /\ Begins(S[at[w]], V[w]) /\ at[w] + Size(V[w]) <= Len(S)
          /\ \A j \in 1 .. Size(V[w]) : S[at[w] + j] = Configures(V[w][1])[j]
      BY <2>1 DEF Laid
    <3>2. ct[w] = at[w] /\ X[w] = V[w] /\ at[w] \in 1 .. Len(S) /\ Size(V[w]) \in Nat
      BY <1>3, <1>4, <1>6, <1>10, <2>1
    <3>3. \A j \in 1 .. Size(V[w]) : at[w] + j \in 1 .. Len(S)
      BY <1>1, <3>1, <3>2
    <3>4. at[w] + Size(V[w]) <= Len(U)
      BY <1>1, <1>2, <3>1, <3>2
    <3>5. U[at[w]] = S[at[w]] /\ \A j \in 1 .. Size(V[w]) : U[at[w] + j] = S[at[w] + j]
      BY <1>2, <3>2, <3>3
    <3> QED BY <3>1, <3>2, <3>4, <3>5, Zenon
  <2>2. CASE w - Len(V) \in 1 .. Len(W) /\ w = Len(V) + (w - Len(V))
    <3> DEFINE v == w - Len(V)
    <3>1. /\ Begins(T[bt[v]], W[v]) /\ bt[v] + Size(W[v]) <= Len(T)
          /\ \A j \in 1 .. Size(W[v]) : T[bt[v] + j] = Configures(W[v][1])[j]
      BY <2>2 DEF Laid
    <3>2. /\ ct[w] = Len(S) + bt[v] /\ X[w] = W[v] /\ bt[v] \in 1 .. Len(T)
          /\ Size(W[v]) \in Nat /\ v \in 1 .. Len(W)
      BY <1>3, <1>5, <1>7, <1>11, <2>2
    <3> HIDE DEF v
    <3>3. \A j \in 1 .. Size(W[v]) :
            bt[v] + j \in 1 .. Len(T) /\ (Len(S) + bt[v]) + j = Len(S) + (bt[v] + j)
      <4>1. PICK b, z, t, l : b = bt[v] /\ z = Size(W[v]) /\ t = Len(T) /\ l = Len(S)
        OBVIOUS
      <4>2. b \in Nat /\ b >= 1 /\ z \in Nat /\ t \in Nat /\ l \in Nat /\ b + z <= t
        BY <1>1, <3>1, <3>2, <4>1
      <4>3. \A j \in 1 .. z : b + j \in 1 .. t /\ (l + b) + j = l + (b + j)
        BY <4>2
      <4> QED BY <4>1, <4>3
    <3>4. (Len(S) + bt[v]) + Size(W[v]) <= Len(U)
      BY <1>1, <1>2, <3>1, <3>2
    <3>5. U[ct[w]] = T[bt[v]]
      BY <1>2, <3>2
    <3>6. \A j \in 1 .. Size(W[v]) : U[ct[w] + j] = T[bt[v] + j]
      BY <1>2, <3>2, <3>3
    <3>7. Begins(U[ct[w]], X[w])
      BY <3>1, <3>2, <3>5
    <3>8. ct[w] + Size(X[w]) <= Len(U)
      BY <3>2, <3>4
    <3>9. \A j \in 1 .. Size(X[w]) : U[ct[w] + j] = Configures(X[w][1])[j]
      BY <3>1, <3>2, <3>6, Zenon
    <3> QED BY <3>7, <3>8, <3>9
  <2> QED BY <1>8, <2>1, <2>2
<1>13. ASSUME NEW v \in 1 .. Len(X), NEW w \in 1 .. Len(X), v < w
       PROVE  ct[v] + Size(X[v]) < ct[w]
  <2>1. CASE w \in 1 .. Len(V)
    <3>1. v \in 1 .. Len(V)
      BY <1>1, <1>13, <2>1
    <3> QED BY <1>3, <1>6, <1>13, <2>1, <3>1 DEF Laid
  <2>2. CASE v \in 1 .. Len(V) /\ w - Len(V) \in 1 .. Len(W) /\ w = Len(V) + (w - Len(V))
    <3> DEFINE y == w - Len(V)
    <3>1. /\ ct[v] = at[v] /\ X[v] = V[v] /\ at[v] + Size(V[v]) <= Len(S)
          /\ at[v] \in 1 .. Len(S) /\ Size(V[v]) \in Nat
      BY <1>3, <1>4, <1>6, <1>10, <2>2 DEF Laid
    <3>2. ct[w] = Len(S) + bt[y] /\ bt[y] \in 1 .. Len(T)
      BY <1>5, <1>7, <2>2
    <3> HIDE DEF y
    <3> QED BY <1>1, <3>1, <3>2
  <2>3. CASE /\ v - Len(V) \in 1 .. Len(W) /\ v = Len(V) + (v - Len(V))
             /\ w - Len(V) \in 1 .. Len(W) /\ w = Len(V) + (w - Len(V))
    <3> DEFINE x == v - Len(V)
               y == w - Len(V)
    <3>1. /\ ct[v] = Len(S) + bt[x] /\ X[v] = W[x] /\ bt[x] \in 1 .. Len(T)
          /\ Size(W[x]) \in Nat
      BY <1>3, <1>5, <1>7, <1>11, <2>3
    <3>2. ct[w] = Len(S) + bt[y] /\ bt[y] \in 1 .. Len(T)
      BY <1>5, <1>7, <2>3
    <3>3. x < y
      BY <1>1, <1>13, <2>3
    <3>4. bt[x] + Size(W[x]) < bt[y]
      BY <2>3, <3>3 DEF Laid
    <3> HIDE DEF x, y
    <3> QED BY <1>1, <3>1, <3>2, <3>4
  <2>4. ~(v \in 1 .. Len(V)) => ~(w \in 1 .. Len(V))
    BY <1>1, <1>13
  <2> QED BY <1>8, <2>1, <2>2, <2>3, <2>4
<1>14. ASSUME NEW k \in 1 .. Len(U)
       PROVE  U[k] \in N \/ \E w \in 1 .. Len(X) : k \in ct[w] .. ct[w] + Size(X[w])
  <2>1. CASE k \in 1 .. Len(S)
    <3>1. S[k] \in N \/ \E w \in 1 .. Len(V) : k \in at[w] .. at[w] + Size(V[w])
      BY <2>1 DEF Laid
    <3> QED BY <1>2, <1>3, <1>6, <2>1, <3>1
  <2>2. CASE k - Len(S) \in 1 .. Len(T)
    <3> DEFINE l == k - Len(S)
    <3>1. T[l] \in N \/ \E w \in 1 .. Len(W) : l \in bt[w] .. bt[w] + Size(W[w])
      BY <2>2 DEF Laid
    <3>2. U[k] = T[l]
      <4>1. k = Len(S) + l
        BY <1>1, <1>2
      <4> HIDE DEF l
      <4> QED BY <1>2, <2>2, <4>1 DEF l
    <3>3. ASSUME NEW w \in 1 .. Len(W), l \in bt[w] .. bt[w] + Size(W[w])
          PROVE  \E y \in 1 .. Len(X) : k \in ct[y] .. ct[y] + Size(X[y])
      <4>1. /\ ct[Len(V) + w] = Len(S) + bt[w] /\ X[Len(V) + w] = W[w]
            /\ bt[w] \in 1 .. Len(T) /\ Size(W[w]) \in Nat /\ Len(V) + w \in 1 .. Len(X)
        BY <1>3, <1>5, <1>7, <1>11
      <4>2. k \in (Len(S) + bt[w]) .. (Len(S) + bt[w]) + Size(W[w])
        BY <1>1, <1>2, <3>3, <4>1
      <4> QED BY <4>1, <4>2
    <3> QED BY <3>1, <3>2, <3>3
  <2>3. k \in 1 .. Len(S) \/ k - Len(S) \in 1 .. Len(T)
    BY <1>1, <1>2
  <2> QED BY <2>1, <2>2, <2>3
<1> QED BY <1>2, <1>3, <1>9, <1>12, <1>13, <1>14 DEF Laid, ct, U, X

LEMMA LaidJoin ==
  ASSUME NEW N, NEW S, NEW V, \E at : Laid(N, S, V, at),
         NEW T, NEW W, \E at : Laid(N, T, W, at)
  PROVE  \E at : Laid(N, S \o T, V \o W, at)
<1>1. PICK at : Laid(N, S, V, at)
  OBVIOUS
<1>2. PICK bt : Laid(N, T, W, bt)
  OBVIOUS
<1> DEFINE ct == [w \in 1 .. Len(V) + Len(W) |->
                    IF w <= Len(V) THEN at[w] ELSE Len(S) + bt[w - Len(V)]]
<1>3. Laid(N, S \o T, V \o W, ct)
  BY <1>1, <1>2, LaidConcat
<1> HIDE DEF ct
<1> QED BY <1>3

LEMMA LaidWeaker ==
  ASSUME NEW N, NEW M, N \subseteq M, NEW S, NEW W, NEW at, Laid(N, S, W, at)
  PROVE  Laid(M, S, W, at)
BY DEF Laid

LEMMA LaidOne ==
  ASSUME NEW N, NEW s, NEW i, NEW n, Begins(s, <<i, n>>)
  PROVE  Laid(N, <<s>> \o Configures(i), << <<i, n>> >>, [w \in 1 .. 1 |-> 1])
<1> DEFINE S == <<s>> \o Configures(i)
           W == << <<i, n>> >>
           at == [w \in 1 .. 1 |-> 1]
<1>1. IsItem(i) /\ IsSeq(Configures(i)) /\ Len(Configures(i)) \in Nat
  BY ConfiguresSeq, SeqIs DEF Begins
<1>2. IsSeq(<<s>>) /\ Len(<<s>>) = 1 /\ <<s>>[1] = s
  BY OneStep
<1>3. /\ IsSeq(S) /\ Len(S) = 1 + Len(Configures(i)) /\ S[1] = s
      /\ \A j \in 1 .. Len(Configures(i)) : S[1 + j] = Configures(i)[j]
  BY <1>1, <1>2, ConcatSeq
<1>4. IsSeq(W) /\ Len(W) = 1 /\ W[1] = <<i, n>>
  BY OneStep
<1>5. W[1][1] = i
  BY <1>4
<1> HIDE DEF S, W
<1>6. at \in [1 .. Len(W) -> 1 .. Len(S)] /\ at[1] = 1
  BY <1>1, <1>3, <1>4
<1> HIDE DEF at
<1>7. \A w \in 1 .. Len(W) : w = 1
  BY <1>4
<1>8. \A k \in 1 .. Len(S) : k \in at[1] .. at[1] + Size(W[1])
  BY <1>1, <1>3, <1>5, <1>6 DEF Size
<1>9. /\ Begins(S[at[1]], W[1]) /\ at[1] + Size(W[1]) <= Len(S)
      /\ \A j \in 1 .. Size(W[1]) : S[at[1] + j] = Configures(W[1][1])[j]
  BY <1>1, <1>3, <1>4, <1>5, <1>6 DEF Size
<1>10. \A v, w \in 1 .. Len(W) : ~(v < w)
  BY <1>7
<1>11. 1 \in 1 .. Len(W)
  BY <1>4
<1>12. Laid(N, S, W, at)
  BY <1>3, <1>4, <1>6, <1>7, <1>8, <1>9, <1>10, <1>11 DEF Laid
<1> QED BY <1>12 DEF S, W, at

LEMMA FlatOfNone ==
  ASSUME NEW ss, IsSeq(ss), Len(ss) = 0
  PROVE  FlattenSeq(ss) = <<>>
<1>1. ss = <<>>
  BY EmptySeq DEF IsSeq
<1> QED BY <1>1, NoSteps DEF FlattenSeq

\* Flattening sequences that are laid out one by one.
LEMMA LaidFlat ==
  ASSUME NEW N, NEW ss, NEW ws, IsSeq(ss), IsSeq(ws), Len(ss) = Len(ws),
         \A k \in 1 .. Len(ss) : \E at : Laid(N, ss[k], ws[k], at)
  PROVE  \E at : Laid(N, FlattenSeq(ss), FlattenSeq(ws), at)
<1>1. CASE Len(ss) = 0
  <2>1. FlattenSeq(ss) = <<>> /\ FlattenSeq(ws) = <<>>
    BY <1>1, FlatOfNone
  <2>2. Laid(N, <<>>, <<>>, [w \in 1 .. 0 |-> w])
    BY NoSteps, LaidNothing
  <2> QED BY <2>1, <2>2
<1>2. CASE Len(ss) # 0
  <2>1. Len(ss) \in Nat
    BY SeqIs
  <2>2. PICK f : IsFlat(f, ss, Len(ss)) /\ FlattenSeq(ss) = f[Len(ss)]
    BY <1>2, Flattened
  <2>3. PICK g : IsFlat(g, ws, Len(ss)) /\ FlattenSeq(ws) = g[Len(ss)]
    BY <1>2, Flattened
  <2> DEFINE T == {m \in Nat : m \in 1 .. Len(ss) => \E at : Laid(N, f[m], g[m], at)}
  <2>4. 0 \in T
    OBVIOUS
  <2>5. ASSUME NEW m \in Nat, m \in T PROVE m + 1 \in T
    <3> SUFFICES ASSUME m + 1 \in 1 .. Len(ss) PROVE \E at : Laid(N, f[m + 1], g[m + 1], at)
      OBVIOUS
    <3>1. PICK bt : Laid(N, ss[m + 1], ws[m + 1], bt)
      OBVIOUS
    <3>2. CASE m = 0
      <4>1. f[m + 1] = ss[m + 1] /\ g[m + 1] = ws[m + 1]
        BY <2>2, <2>3, <3>2 DEF IsFlat
      <4> QED BY <3>1, <4>1
    <3>3. CASE m # 0
      <4>1. m \in 1 .. Len(ss) /\ m + 1 # 1 /\ (m + 1) - 1 = m
        BY <2>1, <3>3
      <4>2. f[m + 1] = f[m] \o ss[m + 1] /\ g[m + 1] = g[m] \o ws[m + 1]
        BY <2>2, <2>3, <4>1 DEF IsFlat
      <4>3. PICK at : Laid(N, f[m], g[m], at)
        BY <2>5, <4>1
      <4> QED BY <3>1, <4>2, <4>3, LaidJoin
    <3> QED BY <3>2, <3>3
  <2> HIDE DEF T
  <2>6. Len(ss) \in T
    BY <2>1, <2>4, <2>5, Induction
  <2> QED BY <1>2, <2>1, <2>2, <2>3, <2>6 DEF T
<1> QED BY <1>1, <1>2

LEMMA SeqOver ==
  ASSUME NEW s, IsSeq(s), NEW e, e = [k \in DOMAIN s |-> e[k]]
  PROVE  IsSeq(e) /\ Len(e) = Len(s)
BY SeqIs, MadeSeq

Attributes(x) ==
  {[do |-> "attribute", of |-> i.file] :
     i \in {j \in Range(x.elements) : j.tag \in {"file", "fileElement"}}}

ElementCalls(x) == FlattenSeq([k \in DOMAIN x.elements |-> ElementSteps(x.elements[k])])

LEMMA ReadsLaid ==
  ASSUME NEW N, NEW f, NEW i, IsItem(i)
  PROVE  \E at : Laid(N, Reads(f, i), Named(f, i), at)
<1> DEFINE s == [do |-> "read", of |-> i, file |-> f]
           n == RootFiles[f][<<PathOf(i), i.name>>]
           w == <<i, n>>
<1>1. w[1] = i /\ w[2] = n /\ s.file = f /\ s.do = "read"
  OBVIOUS
<1> HIDE DEF w
<1>2. Begins(s, w)
  BY <1>1 DEF Begins
<1>3. Laid(N, <<s>> \o Configures(i), <<w>>, [v \in 1 .. 1 |-> 1])
  BY <1>2, LaidOne DEF w
<1> QED BY <1>3 DEF Reads, Named, w

LEMMA ElementLaid ==
  ASSUME NEW x \in StorageFiles, NEW i \in Range(x.elements)
  PROVE  \E at : Laid(Attributes(x), ElementSteps(i), WantedOf(i), at)
<1> DEFINE N == Attributes(x)
           a == << [do |-> "attribute", of |-> i.file] >>
<1>1. ASSUME i.tag \in {"file", "fileElement"}
      PROVE  \E at : Laid(N, a, <<>>, at)
  <2>1. IsSeq(a) /\ Len(a) = 1 /\ a[1] = [do |-> "attribute", of |-> i.file]
    BY OneStep
  <2>2. [do |-> "attribute", of |-> i.file] \in N
    BY <1>1 DEF Attributes
  <2> HIDE DEF N, a
  <2>3. \A k \in 1 .. Len(a) : a[k] \in N
    BY <2>1, <2>2
  <2>4. Laid(N, a, <<>>, [w \in 1 .. 0 |-> w])
    BY <2>1, <2>3, LaidNothing
  <2> QED BY <2>4
<1> HIDE DEF N, a
<1>2. CASE i.tag = "bookElement"
  <2> DEFINE s == [do |-> "book", of |-> i]
             w == <<i, i.name>>
  <2>1. w[1] = i /\ w[2] = i.name /\ IsItem(i)
    BY <1>2, StorageFilesAssumption
  <2> HIDE DEF w
  <2>2. Begins(s, w)
    BY <2>1 DEF Begins
  <2>3. Laid(N, <<s>> \o Configures(i), <<w>>, [v \in 1 .. 1 |-> 1])
    BY <2>2, LaidOne DEF w
  <2>4. ElementSteps(i) = <<s>> \o Configures(i) /\ WantedOf(i) = <<w>>
    BY <1>2 DEF ElementSteps, WantedOf, w
  <2> QED BY <2>3, <2>4 DEF N
<1>3. CASE i.tag = "fileElement"
  <2>1. \E at : Laid(N, Reads(i.file, i), Named(i.file, i), at)
    BY <1>3, ReadsLaid, StorageFilesAssumption
  <2>2. ElementSteps(i) = a \o Reads(i.file, i) /\ WantedOf(i) = Named(i.file, i)
    BY <1>3 DEF ElementSteps, WantedOf, a
  <2>3. <<>> \o Named(i.file, i) = Named(i.file, i)
    BY <2>1, ConcatEmpty DEF Laid
  <2>4. \E at : Laid(N, a \o Reads(i.file, i), <<>> \o Named(i.file, i), at)
    BY <1>1, <1>3, <2>1, LaidJoin
  <2> QED BY <2>2, <2>3, <2>4 DEF N
<1>4. CASE i.tag = "file"
  <2> DEFINE ss == [k \in DOMAIN i.elements |-> Reads(i.file, i.elements[k])]
             ws == [k \in DOMAIN i.elements |-> Named(i.file, i.elements[k])]
  <2>1. IsSeq(i.elements) /\ \A j \in Range(i.elements) : IsItem(j)
    BY <1>4, StorageFilesAssumption
  <2>2. IsSeq(ss) /\ IsSeq(ws) /\ Len(ss) = Len(ws) /\ DOMAIN i.elements = 1 .. Len(ss)
    <3>1. ss = [k \in DOMAIN i.elements |-> ss[k]] /\ ws = [k \in DOMAIN i.elements |-> ws[k]]
      OBVIOUS
    <3> HIDE DEF ss, ws
    <3> QED BY <2>1, <3>1, SeqOver, SeqIs
  <2>3. \A k \in DOMAIN i.elements : \E at : Laid(N, ss[k], ws[k], at)
    BY <2>1, ReadsLaid DEF Range
  <2>4. ElementSteps(i) = a \o FlattenSeq(ss) /\ WantedOf(i) = FlattenSeq(ws)
    BY <1>4 DEF ElementSteps, WantedOf, a
  <2> HIDE DEF ss, ws
  <2>5. \E at : Laid(N, FlattenSeq(ss), FlattenSeq(ws), at)
    BY <2>2, <2>3, LaidFlat
  <2>6. <<>> \o FlattenSeq(ws) = FlattenSeq(ws)
    BY <2>5, ConcatEmpty DEF Laid
  <2>7. \E at : Laid(N, a \o FlattenSeq(ss), <<>> \o FlattenSeq(ws), at)
    BY <1>1, <1>4, <2>5, LaidJoin
  <2> QED BY <2>4, <2>6, <2>7 DEF N
<1>5. CASE i.tag \notin {"bookElement", "fileElement", "file"}
  <2>1. ElementSteps(i) = <<>> /\ WantedOf(i) = <<>>
    BY <1>5 DEF ElementSteps, WantedOf
  <2> QED BY <2>1, NoSteps, LaidNothing
<1> QED BY <1>2, <1>3, <1>4, <1>5

LEMMA ElementsLaid ==
  ASSUME NEW x \in StorageFiles
  PROVE  \E at : Laid(Attributes(x), ElementCalls(x), Wanted(x), at)
<1> DEFINE ss == [k \in DOMAIN x.elements |-> ElementSteps(x.elements[k])]
           ws == [k \in DOMAIN x.elements |-> WantedOf(x.elements[k])]
<1>1. IsSeq(x.elements)
  BY StorageFilesAssumption
<1>2. IsSeq(ss) /\ IsSeq(ws) /\ Len(ss) = Len(ws) /\ DOMAIN x.elements = 1 .. Len(ss)
  <2>1. ss = [k \in DOMAIN x.elements |-> ss[k]] /\ ws = [k \in DOMAIN x.elements |-> ws[k]]
    OBVIOUS
  <2> HIDE DEF ss, ws
  <2> QED BY <1>1, <2>1, SeqOver, SeqIs
<1>3. \A k \in DOMAIN x.elements : \E at : Laid(Attributes(x), ss[k], ws[k], at)
  BY ElementLaid DEF Range
<1>4. ElementCalls(x) = FlattenSeq(ss) /\ Wanted(x) = FlattenSeq(ws)
  BY DEF ElementCalls, Wanted
<1> HIDE DEF ss, ws
<1> QED BY <1>2, <1>3, <1>4, LaidFlat

\* A call is in N, begins an element, or is one of those that configure it.
LEMMA CallsAre ==
  ASSUME NEW N, NEW S, NEW W, NEW at, Laid(N, S, W, at), NEW k \in 1 .. Len(S)
  PROVE  \/ S[k] \in N
         \/ \E w \in 1 .. Len(W) : at[w] = k /\ Begins(S[k], W[w])
         \/ \E w \in 1 .. Len(W) : \E j \in 1 .. Size(W[w]) :
              k = at[w] + j /\ S[k] = Configures(W[w][1])[j]
<1> SUFFICES ASSUME S[k] \notin N PROVE
         \/ \E w \in 1 .. Len(W) : at[w] = k /\ Begins(S[k], W[w])
         \/ \E w \in 1 .. Len(W) : \E j \in 1 .. Size(W[w]) :
              k = at[w] + j /\ S[k] = Configures(W[w][1])[j]
  OBVIOUS
<1>1. PICK w \in 1 .. Len(W) : k \in at[w] .. at[w] + Size(W[w])
  BY DEF Laid
<1>2. /\ Begins(S[at[w]], W[w]) /\ at[w] \in 1 .. Len(S)
      /\ \A j \in 1 .. Size(W[w]) : S[at[w] + j] = Configures(W[w][1])[j]
  BY DEF Laid
<1>3. Len(S) \in Nat /\ Size(W[w]) \in Nat
  BY SizeIsNat
<1>4. CASE k = at[w]
  BY <1>2, <1>4
<1>5. CASE k # at[w]
  <2> DEFINE j == k - at[w]
  <2>1. j \in 1 .. Size(W[w]) /\ k = at[w] + j
    BY <1>1, <1>2, <1>3, <1>5
  <2> HIDE DEF j
  <2> QED BY <1>2, <2>1
<1> QED BY <1>4, <1>5

LEMMA ConfiguringCalls ==
  ASSUME NEW N, NEW S, NEW W, NEW at, Laid(N, S, W, at), NEW w \in 1 .. Len(W),
         NEW j \in 1 .. Size(W[w])
  PROVE  Configures(W[w][1])[j].do \in {"reference", "test"}
<1>1. IsItem(W[w][1])
  BY DEF Laid, Begins
<1>2. PICK i : i = W[w][1]
  OBVIOUS
<1>3. IsItem(i) /\ j \in 1 .. Len(Configures(i))
  BY <1>1, <1>2 DEF Size
<1>4. \/ Configures(i)[j] = [do |-> "reference", of |-> i.reference]
      \/ \E t \in 1 .. Len(i.tests) : Configures(i)[j] = [do |-> "test", of |-> i.tests[t]]
  BY <1>3, ConfiguresSeq
<1>5. CASE Configures(i)[j] = [do |-> "reference", of |-> i.reference]
  BY <1>2, <1>5
<1>6. CASE \E t \in 1 .. Len(i.tests) : Configures(i)[j] = [do |-> "test", of |-> i.tests[t]]
  BY <1>2, <1>6
<1> QED BY <1>4, <1>5, <1>6

Setup(x) ==
  {[do |-> "style", of |-> x.style]}
  \union {[do |-> "file", of |-> r] : r \in Range(x.references)}
  \union {[do |-> "create", of |-> t] : t \in Range(x.tests)}
  \union Attributes(x)

LEMMA StepsLaid ==
  ASSUME NEW x \in StorageFiles
  PROVE  /\ \E at : Laid(Setup(x), Steps(x), Wanted(x), at)
         /\ IsSeq(Steps(x)) /\ Len(Steps(x)) >= 1
         /\ Steps(x)[1] = [do |-> "style", of |-> x.style]
         /\ \A k \in 2 .. Len(Steps(x)) : Steps(x)[k].do # "style"
<1> DEFINE N == Setup(x)
           A == << [do |-> "style", of |-> x.style] >>
           B == [k \in DOMAIN x.references |-> [do |-> "file", of |-> x.references[k]]]
           C == [k \in DOMAIN x.tests |-> [do |-> "create", of |-> x.tests[k]]]
           E == ElementCalls(x)
           W == Wanted(x)
<1>1. IsSeq(x.references) /\ IsSeq(x.tests)
  BY StorageFilesAssumption
<1>2. IsSeq(A) /\ Len(A) = 1 /\ A[1] = [do |-> "style", of |-> x.style]
  BY OneStep
<1>3. /\ IsSeq(B) /\ Len(B) = Len(x.references)
      /\ \A k \in 1 .. Len(B) : B[k] \in N /\ B[k].do # "style"
  <2>1. B = [k \in DOMAIN x.references |-> B[k]]
    OBVIOUS
  <2>2. \A k \in DOMAIN x.references : B[k] \in N /\ B[k].do # "style"
    BY DEF Setup, Range
  <2>3. DOMAIN x.references = 1 .. Len(x.references)
    BY <1>1, SeqIs
  <2> HIDE DEF B, N
  <2>4. IsSeq(B) /\ Len(B) = Len(x.references)
    BY <1>1, <2>1, SeqOver
  <2> QED BY <2>2, <2>3, <2>4
<1>4. /\ IsSeq(C) /\ Len(C) = Len(x.tests)
      /\ \A k \in 1 .. Len(C) : C[k] \in N /\ C[k].do # "style"
  <2>1. C = [k \in DOMAIN x.tests |-> C[k]]
    OBVIOUS
  <2>2. \A k \in DOMAIN x.tests : C[k] \in N /\ C[k].do # "style"
    BY DEF Setup, Range
  <2>3. DOMAIN x.tests = 1 .. Len(x.tests)
    BY <1>1, SeqIs
  <2> HIDE DEF C, N
  <2>4. IsSeq(C) /\ Len(C) = Len(x.tests)
    BY <1>1, <2>1, SeqOver
  <2> QED BY <2>2, <2>3, <2>4
<1>5. PICK et : Laid(Attributes(x), E, W, et)
  BY ElementsLaid
<1>6. IsSeq(E) /\ \A k \in 1 .. Len(E) : E[k].do # "style"
  <2>1. ASSUME NEW k \in 1 .. Len(E) PROVE E[k].do # "style"
    <3>1. CASE E[k] \in Attributes(x)
      BY <3>1 DEF Attributes
    <3>2. ASSUME NEW w \in 1 .. Len(W), Begins(E[k], W[w]) PROVE E[k].do # "style"
      BY <3>2 DEF Begins
    <3>3. ASSUME NEW w \in 1 .. Len(W), NEW j \in 1 .. Size(W[w]),
                 E[k] = Configures(W[w][1])[j]
          PROVE  E[k].do # "style"
      <4>1. E[k].do \in {"reference", "test"}
        BY <1>5, <3>3, ConfiguringCalls
      <4> QED BY <4>1
    <3> HIDE DEF E, W
    <3> QED BY <1>5, <3>1, <3>2, <3>3, CallsAre
  <2> QED BY <1>5, <2>1 DEF Laid
<1>7. Steps(x) = ((A \o B) \o C) \o E
  <2> DEFINE P == <<A, B, C, E>>
  <2>1. Parts(x) = P
    BY DEF Parts, ElementCalls
  <2>2. /\ P = [i \in 1 .. 4 |-> P[i]]
        /\ P[1] = A /\ P[2] = B /\ P[3] = C /\ P[4] = E
    <3> HIDE DEF A, B, C, E
    <3> QED OBVIOUS
  <2> HIDE DEF P, A, B, C, E
  <2>3. IsSeq(P) /\ Len(P) = 4
    BY <2>2, MadeSeq
  <2>4. PICK f : IsFlat(f, P, 4) /\ FlattenSeq(P) = f[4]
    BY <2>3, Flattened
  <2>5. f[1] = P[1] /\ f[2] = f[1] \o P[2] /\ f[3] = f[2] \o P[3] /\ f[4] = f[3] \o P[4]
    <3>1. \A i \in 1 .. 4 : f[i] = IF i = 1 THEN P[i] ELSE f[i - 1] \o P[i]
      BY <2>4 DEF IsFlat
    <3>2. f[1] = P[1] /\ f[2] = f[2 - 1] \o P[2] /\ f[3] = f[3 - 1] \o P[3]
          /\ f[4] = f[4 - 1] \o P[4]
      <4>1. 1 \in 1 .. 4 /\ 2 \in 1 .. 4 /\ 3 \in 1 .. 4 /\ 4 \in 1 .. 4 /\ 2 # 1 /\ 3 # 1 /\ 4 # 1
        OBVIOUS
      <4> QED BY <3>1, <4>1, Zenon
    <3>3. 2 - 1 = 1 /\ 3 - 1 = 2 /\ 4 - 1 = 3
      OBVIOUS
    <3> QED BY <3>2, <3>3
  <2> QED BY <2>1, <2>2, <2>4, <2>5 DEF Steps
<1>8. \E at : Laid(N, A, <<>>, at)
  <2>1. \A k \in 1 .. Len(A) : A[k] \in N
    BY <1>2 DEF Setup
  <2>2. Laid(N, A, <<>>, [w \in 1 .. 0 |-> w])
    <3> HIDE DEF A, N
    <3> QED BY <1>2, <2>1, LaidNothing
  <2> QED BY <2>2
<1>9. \E at : Laid(N, B, <<>>, at)
  <2> HIDE DEF B, N
  <2>1. Laid(N, B, <<>>, [w \in 1 .. 0 |-> w])
    BY <1>3, LaidNothing
  <2> QED BY <2>1
<1>10. \E at : Laid(N, C, <<>>, at)
  <2> HIDE DEF C, N
  <2>1. Laid(N, C, <<>>, [w \in 1 .. 0 |-> w])
    BY <1>4, LaidNothing
  <2> QED BY <2>1
<1>11. \E at : Laid(N, E, W, at)
  <2>1. Attributes(x) \subseteq N
    BY DEF Setup
  <2> HIDE DEF E, W, N
  <2> QED BY <1>5, <2>1, LaidWeaker
<1>12. IsSeq(W)
  BY <1>5 DEF Laid
<1> HIDE DEF A, B, C, E, W, N
<1>13. <<>> \o <<>> = <<>> /\ <<>> \o W = W
  BY <1>12, NoSteps, ConcatEmpty
<1>14. \E at : Laid(N, ((A \o B) \o C) \o E, W, at)
  <2>1. \E at : Laid(N, A \o B, <<>> \o <<>>, at)
    BY <1>8, <1>9, LaidJoin
  <2>2. \E at : Laid(N, A \o B, <<>>, at)
    BY <1>13, <2>1
  <2>3. \E at : Laid(N, (A \o B) \o C, <<>> \o <<>>, at)
    BY <1>10, <2>2, LaidJoin
  <2>4. \E at : Laid(N, (A \o B) \o C, <<>>, at)
    BY <1>13, <2>3
  <2>5. \E at : Laid(N, ((A \o B) \o C) \o E, <<>> \o W, at)
    BY <1>11, <2>4, LaidJoin
  <2> QED BY <1>13, <2>5
<1>15. ASSUME NEW s, NEW t, IsSeq(s), IsSeq(t), Len(s) >= 1,
              s[1] = [do |-> "style", of |-> x.style],
              \A k \in 2 .. Len(s) : s[k].do # "style",
              \A k \in 1 .. Len(t) : t[k].do # "style"
       PROVE  /\ IsSeq(s \o t) /\ Len(s \o t) >= 1
              /\ (s \o t)[1] = [do |-> "style", of |-> x.style]
              /\ \A k \in 2 .. Len(s \o t) : (s \o t)[k].do # "style"
  <2> DEFINE u == s \o t
  <2>1. /\ IsSeq(u) /\ Len(u) = Len(s) + Len(t)
        /\ \A i \in 1 .. Len(s) : u[i] = s[i]
        /\ \A i \in 1 .. Len(t) : u[Len(s) + i] = t[i]
    BY <1>15, ConcatSeq
  <2>2. Len(s) \in Nat /\ Len(t) \in Nat
    BY <1>15, SeqIs
  <2> HIDE DEF u
  <2>3. ASSUME NEW k \in 2 .. Len(u) PROVE u[k].do # "style"
    <3>1. CASE k \in 2 .. Len(s)
      BY <1>15, <2>1, <3>1
    <3>2. CASE k - Len(s) \in 1 .. Len(t)
      <4>1. k = Len(s) + (k - Len(s))
        BY <2>2
      <4>2. u[k] = t[k - Len(s)]
        BY <2>1, <3>2, <4>1
      <4> QED BY <1>15, <3>2, <4>2
    <3> QED BY <2>1, <2>2, <3>1, <3>2
  <2>4. 1 \in 1 .. Len(s) /\ Len(u) >= 1
    BY <1>15, <2>1, <2>2
  <2> QED BY <1>15, <2>1, <2>3, <2>4 DEF u
<1>16. \A k \in 2 .. Len(A) : A[k].do # "style"
  BY <1>2
<1> DEFINE AB == A \o B
           ABC == AB \o C
           S == ABC \o E
<1>17. /\ IsSeq(AB) /\ Len(AB) >= 1 /\ AB[1] = [do |-> "style", of |-> x.style]
       /\ \A k \in 2 .. Len(AB) : AB[k].do # "style"
  <2>1. Len(A) >= 1
    BY <1>2
  <2> QED BY <1>2, <1>3, <1>15, <1>16, <2>1
<1> HIDE DEF AB
<1>18. /\ IsSeq(ABC) /\ Len(ABC) >= 1 /\ ABC[1] = [do |-> "style", of |-> x.style]
       /\ \A k \in 2 .. Len(ABC) : ABC[k].do # "style"
  BY <1>4, <1>15, <1>17
<1> HIDE DEF ABC
<1>19. /\ IsSeq(S) /\ Len(S) >= 1 /\ S[1] = [do |-> "style", of |-> x.style]
       /\ \A k \in 2 .. Len(S) : S[k].do # "style"
  BY <1>6, <1>15, <1>18
<1> QED BY <1>7, <1>14, <1>19 DEF ABC, AB, S, N, W
-----------------------------------------------------------------------------
(***************************************************************************)
(* parseStorage(): the walk has made k of its calls, and at says which of  *)
(* them begin the elements that the file wants.  Those begun are the new   *)
(* ones of the storage, each configured by those of its calls that were    *)
(* made.                                                                   *)
(***************************************************************************)
\* Of the calls that configure w, those made, when call a began it.
Applied(a, k, w) == IF k - a <= Size(w) THEN k - a ELSE Size(w)

Configured(e, w, j) ==
  /\ path[e] = PathOf(w[1]) /\ name[e] = w[2] /\ styleOf[e] = StylesOf(xml).object
  /\ attached[e] = {Configures(w[1])[l].of :
                      l \in {m \in 1 .. j : Configures(w[1])[m].do = "test"}}
  /\ IF j = 0 THEN reference[e] = None
     ELSE /\ reference[e] = Meant(w[1], w[2], xml)
          /\ w[1].reference # None => w[1].reference.id \in DOMAIN references

New == Len(stored) - Len(before)

Walked(at, k) ==
  /\ IsSeq(before) /\ New \in 0 .. Len(Wanted(xml))
  /\ \A i \in 1 .. Len(before) : stored[i] = before[i]
  /\ \A w \in 1 .. Len(Wanted(xml)) : at[w] <= k <=> w <= New
  /\ k > 0 => styles = StylesOf(xml)
  /\ \A w \in 1 .. New :
       Configured(stored[Len(before) + w], Wanted(xml)[w], Applied(at[w], k, Wanted(xml)[w]))

\* The element that was made last is the one to configure.
CurrentIsLast == New > 0 => current = stored[Len(stored)]

Reading(at, k) ==
  /\ xml \in StorageFiles /\ Laid(Setup(xml), Steps(xml), Wanted(xml), at)
  /\ Walked(at, k) /\ CurrentIsLast
  /\ todo = SubSeq(Steps(xml), k + 1, Len(Steps(xml)))

FileTypeOK ==
  /\ DOMAIN styleOf = Elements /\ DOMAIN reference = Elements
  /\ created \subseteq Tests

StoredOnce == \A i, j \in DOMAIN stored : stored[i] = stored[j] => i = j

\* Nobody else touches the elements that files make.
FilesOK == ElementsInv /\ touched = {} /\ FileTypeOK /\ StoredOnce

BeingRead ==
  \E at \in [1 .. Len(Wanted(xml)) -> 1 .. Len(Steps(xml))] :
    \E k \in 0 .. Len(Steps(xml)) - 1 : Reading(at, k)

Finished ==
  \E at \in [1 .. Len(Wanted(xml)) -> 1 .. Len(Steps(xml))] :
    \E k \in 0 .. Len(Steps(xml)) :
      /\ Laid(Setup(xml), Steps(xml), Wanted(xml), at) /\ Walked(at, k)
      /\ status = "SUCCESS" => k = Len(Steps(xml))

FileInv ==
  /\ FilesOK
  /\ call = "reading" => BeingRead
  /\ call = "done" => Finished

(***************************************************************************)
(* What the next call can be, when the first n elements were begun.  Of    *)
(* the elements other than the last all calls that configure were made.    *)
(***************************************************************************)
Unmoved(W, at, k, n) ==
  \A w \in 1 .. n : Applied(at[w], k + 1, W[w]) = Applied(at[w], k, W[w])

NeutralCall(N, s, W, at, k, n) ==
  s \in N /\ Unmoved(W, at, k, n) /\ \A w \in 1 .. Len(W) : at[w] # k + 1

BeginningCall(s, W, at, k, n) ==
  /\ n + 1 \in 1 .. Len(W) /\ Begins(s, W[n + 1]) /\ Unmoved(W, at, k, n)
  /\ Applied(at[n + 1], k + 1, W[n + 1]) = 0
  /\ \A w \in 1 .. Len(W) : at[w] = k + 1 <=> w = n + 1

ConfiguringCall(s, W, at, k, n, j) ==
  /\ n \in 1 .. Len(W) /\ s = Configures(W[n][1])[j + 1]
  /\ Unmoved(W, at, k, n - 1)
  /\ Applied(at[n], k, W[n]) = j /\ Applied(at[n], k + 1, W[n]) = j + 1
  /\ \A w \in 1 .. Len(W) : at[w] # k + 1

LEMMA AppliedAll ==
  ASSUME NEW a \in Nat, NEW k \in Nat, NEW w, Size(w) \in Nat, a + Size(w) <= k
  PROVE  Applied(a, k + 1, w) = Applied(a, k, w) /\ Applied(a, k, w) = Size(w)
<1> DEFINE z == Size(w)
<1>1. z \in Nat /\ a + z <= k
  OBVIOUS
<1> HIDE DEF z
<1>2. /\ (IF (k + 1) - a <= z THEN (k + 1) - a ELSE z) = z
      /\ (IF k - a <= z THEN k - a ELSE z) = z
  BY <1>1
<1> QED BY <1>2 DEF Applied, z

LEMMA CallOf ==
  ASSUME NEW N, NEW S, NEW W, NEW at, Laid(N, S, W, at),
         NEW n \in 0 .. Len(W), NEW k \in 0 .. Len(S) - 1,
         \A w \in 1 .. Len(W) : at[w] <= k <=> w <= n
  PROVE  \/ NeutralCall(N, S[k + 1], W, at, k, n)
         \/ BeginningCall(S[k + 1], W, at, k, n)
         \/ \E j \in 0 .. Size(W[n]) - 1 : ConfiguringCall(S[k + 1], W, at, k, n, j)
<1>1. /\ Len(S) \in Nat /\ Len(W) \in Nat /\ n \in Nat /\ k \in Nat
      /\ k + 1 \in 1 .. Len(S)
  BY SizeIsNat
<1>2. \A w \in 1 .. Len(W) : at[w] \in Nat /\ Size(W[w]) \in Nat
  <2>1. \A w \in 1 .. Len(W) : at[w] \in 1 .. Len(S)
    BY DEF Laid
  <2>2. \A w \in 1 .. Len(W) : Size(W[w]) \in Nat
    BY SizeIsNat
  <2> QED BY <2>1, <2>2
<1>3. \A v, w \in 1 .. Len(W) : v < w => at[v] + Size(W[v]) < at[w]
  BY DEF Laid
<1>4. \A v \in 1 .. n : v \in 1 .. Len(W) /\ at[v] <= k
  BY <1>1
<1>5. CASE \E w \in 1 .. Len(W) : at[w] = k + 1
  <2>1. PICK w \in 1 .. Len(W) : at[w] = k + 1
    BY <1>5
  <2>2. ~(w <= n)
    BY <1>1, <2>1
  <2>3. n + 1 \in 1 .. Len(W) /\ n + 1 <= w /\ ~(n + 1 <= n)
    BY <1>1, <2>2
  <2>4. ~(at[n + 1] <= k)
    BY <2>3
  <2>5. ~(n + 1 < w)
    <3> SUFFICES ASSUME n + 1 < w PROVE FALSE
      OBVIOUS
    <3>1. at[n + 1] + Size(W[n + 1]) < k + 1
      BY <1>3, <2>1, <2>3
    <3>2. at[n + 1] \in Nat /\ Size(W[n + 1]) \in Nat
      BY <1>2, <2>3
    <3> QED BY <1>1, <2>4, <3>1, <3>2
  <2>6. w = n + 1
    BY <1>1, <2>3, <2>5
  <2>7. ASSUME NEW v \in 1 .. n
        PROVE  Applied(at[v], k + 1, W[v]) = Applied(at[v], k, W[v])
    <3>1. v \in 1 .. Len(W) /\ v < w
      BY <1>1, <1>4, <2>6
    <3>2. at[v] + Size(W[v]) < k + 1 /\ at[v] \in Nat /\ Size(W[v]) \in Nat
      BY <1>2, <1>3, <2>1, <3>1
    <3>3. at[v] + Size(W[v]) <= k
      BY <1>1, <3>2
    <3> QED BY <1>1, <3>2, <3>3, AppliedAll
  <2>8. Applied(at[n + 1], k + 1, W[n + 1]) = 0
    <3>1. (k + 1) - at[n + 1] = 0
      BY <1>1, <2>1, <2>6
    <3>2. Size(W[n + 1]) \in Nat
      BY <1>2, <2>3
    <3> QED BY <3>1, <3>2 DEF Applied
  <2>9. \A v \in 1 .. Len(W) : at[v] = k + 1 <=> v = n + 1
    <3>1. ASSUME NEW v \in 1 .. Len(W), at[v] = k + 1, v # w PROVE FALSE
      <4>1. /\ at[v] \in Nat /\ at[w] \in Nat /\ Size(W[v]) \in Nat /\ Size(W[w]) \in Nat
            /\ at[v] = at[w]
        BY <1>2, <2>1, <3>1
      <4>2. v < w \/ w < v
        BY <3>1
      <4>3. at[v] + Size(W[v]) < at[w] \/ at[w] + Size(W[w]) < at[v]
        BY <1>3, <4>2
      <4> QED BY <4>1, <4>3
    <3> QED BY <2>1, <2>6, <3>1
  <2>10. Begins(S[k + 1], W[n + 1])
    BY <2>1, <2>6 DEF Laid
  <2> QED BY <2>3, <2>7, <2>8, <2>9, <2>10 DEF BeginningCall, Unmoved
<1>6. CASE \E w \in 1 .. Len(W) : k + 1 \in at[w] + 1 .. at[w] + Size(W[w])
  <2>1. PICK w \in 1 .. Len(W) : k + 1 \in at[w] + 1 .. at[w] + Size(W[w])
    BY <1>6
  <2>2. at[w] \in Nat /\ Size(W[w]) \in Nat
    BY <1>2
  <2>3. at[w] <= k /\ k < at[w] + Size(W[w])
    BY <1>1, <2>1, <2>2
  <2>4. w <= n
    BY <2>3
  <2>5. n \in 1 .. Len(W) /\ at[n] <= k
    BY <1>1, <1>4, <2>4
  <2>6. ~(w < n)
    <3> SUFFICES ASSUME w < n PROVE FALSE
      OBVIOUS
    <3>1. at[w] + Size(W[w]) < at[n] /\ at[n] \in Nat
      BY <1>2, <1>3, <2>5
    <3> QED BY <1>1, <2>2, <2>3, <2>5, <3>1
  <2>7. w = n
    BY <1>1, <2>4, <2>6
  <2> DEFINE j == k - at[n]
  <2>8. j \in 0 .. Size(W[n]) - 1 /\ j + 1 \in 1 .. Size(W[n]) /\ at[n] + (j + 1) = k + 1
    BY <1>1, <2>2, <2>3, <2>7
  <2>9. S[k + 1] = Configures(W[n][1])[j + 1]
    <3>1. \A l \in 1 .. Size(W[n]) : S[at[n] + l] = Configures(W[n][1])[l]
      BY <2>5 DEF Laid
    <3> HIDE DEF j
    <3>2. S[at[n] + (j + 1)] = Configures(W[n][1])[j + 1]
      BY <2>8, <3>1
    <3> QED BY <2>8, <3>2
  <2>10. ASSUME NEW v \in 1 .. n - 1
         PROVE  Applied(at[v], k + 1, W[v]) = Applied(at[v], k, W[v])
    <3>1. v \in 1 .. Len(W) /\ v < n
      BY <1>1
    <3>2. /\ at[v] + Size(W[v]) < at[n] /\ at[v] \in Nat /\ Size(W[v]) \in Nat
          /\ at[n] \in Nat
      BY <1>2, <1>3, <2>5, <3>1
    <3>3. at[v] + Size(W[v]) <= k
      BY <1>1, <2>5, <3>2
    <3> QED BY <1>1, <3>2, <3>3, AppliedAll
  <2>11. Applied(at[n], k, W[n]) = j /\ Applied(at[n], k + 1, W[n]) = j + 1
    <3>1. k - at[n] <= Size(W[n]) /\ (k + 1) - at[n] <= Size(W[n]) /\ (k + 1) - at[n] = j + 1
      BY <1>1, <2>2, <2>3, <2>7
    <3> QED BY <3>1 DEF Applied
  <2>12. ASSUME NEW v \in 1 .. Len(W), at[v] = k + 1 PROVE FALSE
    <3>1. ~(v <= n)
      BY <1>1, <2>12
    <3>2. n < v
      BY <1>1, <3>1
    <3>3. at[n] + Size(W[n]) < k + 1
      BY <1>3, <2>5, <2>12, <3>2
    <3> QED BY <1>1, <2>2, <2>3, <2>7, <3>3
  <2> HIDE DEF j
  <2>13. ConfiguringCall(S[k + 1], W, at, k, n, j)
    BY <2>5, <2>9, <2>10, <2>11, <2>12 DEF ConfiguringCall, Unmoved
  <2> QED BY <2>8, <2>13
<1>7. CASE /\ ~\E w \in 1 .. Len(W) : at[w] = k + 1
           /\ ~\E w \in 1 .. Len(W) : k + 1 \in at[w] + 1 .. at[w] + Size(W[w])
  <2>1. ASSUME NEW w \in 1 .. Len(W) PROVE ~(k + 1 \in at[w] .. at[w] + Size(W[w]))
    <3>1. at[w] \in Nat /\ Size(W[w]) \in Nat /\ at[w] # k + 1
          /\ ~(k + 1 \in at[w] + 1 .. at[w] + Size(W[w]))
      BY <1>2, <1>7
    <3> QED BY <1>1, <3>1
  <2>2. S[k + 1] \in N
    BY <1>1, <2>1 DEF Laid
  <2>3. ASSUME NEW v \in 1 .. n
        PROVE  Applied(at[v], k + 1, W[v]) = Applied(at[v], k, W[v])
    <3>1. v \in 1 .. Len(W) /\ at[v] <= k /\ at[v] \in Nat /\ Size(W[v]) \in Nat
      BY <1>2, <1>4
    <3>2. ~(k + 1 \in at[v] .. at[v] + Size(W[v]))
      BY <2>1, <3>1
    <3>3. at[v] + Size(W[v]) <= k
      BY <1>1, <3>1, <3>2
    <3> QED BY <1>1, <3>1, <3>3, AppliedAll
  <2> QED BY <1>7, <2>2, <2>3 DEF NeutralCall, Unmoved
<1> QED BY <1>5, <1>6, <1>7

LEMMA NewElements ==
  ASSUME ElementsInv, NEW at, NEW k, Walked(at, k)
  PROVE  /\ Len(before) \in Nat /\ New \in Nat /\ Len(stored) = Len(before) + New
         /\ DOMAIN stored = 1 .. Len(stored)
         /\ \A w \in 1 .. New :
              /\ Len(before) + w \in DOMAIN stored
              /\ stored[Len(before) + w] \in InStorage
<1>1. Len(before) \in Nat /\ New \in 0 .. Len(Wanted(xml))
  BY SeqIs DEF Walked
<1>2. /\ DOMAIN stored = 1 .. Len(stored) /\ Len(stored) \in Nat
      /\ InStorage = {stored[i] : i \in DOMAIN stored}
  BY StoredElements DEF ElementsInv
<1>3. New = Len(stored) - Len(before)
  BY DEF New
<1>4. New \in Nat /\ Len(stored) = Len(before) + New
  BY <1>1, <1>2, <1>3
<1>5. \A w \in 1 .. New : Len(before) + w \in 1 .. Len(stored)
  BY <1>1, <1>2, <1>4
<1> QED BY <1>1, <1>2, <1>4, <1>5

LEMMA WholeIsRead ==
  ASSUME ElementsInv, touched = {}, NEW at, NEW k \in 0 .. Len(Steps(xml)),
         Laid(Setup(xml), Steps(xml), Wanted(xml), at), Walked(at, k),
         status = "SUCCESS" => k = Len(Steps(xml))
  PROVE  StorageFilesAreReadInOrder
<1> DEFINE W == Wanted(xml)
           S == Steps(xml)
           b == Len(before)
           new == SubSeq(stored, b + 1, Len(stored))
           whole == IF status = "SUCCESS" THEN Len(new) ELSE Len(new) - 1
<1>1. /\ b \in Nat /\ New \in Nat /\ Len(stored) = b + New
      /\ DOMAIN stored = 1 .. Len(stored)
      /\ \A w \in 1 .. New : b + w \in DOMAIN stored /\ stored[b + w] \in InStorage
  BY NewElements
<1>2. New \in 0 .. Len(W) /\ Len(W) \in Nat /\ Len(S) \in Nat
  BY SizeIsNat DEF Walked
<1>3. Len(new) = New /\ DOMAIN new = 1 .. New /\ \A w \in 1 .. New : new[w] = stored[b + w]
  <2>1. \A i \in b + 1 .. Len(stored) : stored[i] \in InStorage
    BY <1>1, StoredElements DEF ElementsInv
  <2>2. /\ new \in Seq(InStorage)
        /\ Len(new) = IF b + 1 <= Len(stored) THEN Len(stored) - (b + 1) + 1 ELSE 0
        /\ \A i \in 1 .. Len(stored) - (b + 1) + 1 : new[i] = stored[b + 1 + i - 1]
    <3>1. b + 1 \in Int /\ Len(stored) \in Int
      BY <1>1
    <3> QED BY <2>1, <3>1, SubSeqProperties
  <2>3. DOMAIN new = 1 .. Len(new)
    BY <2>2, LenProperties
  <2>4. /\ (IF b + 1 <= Len(stored) THEN Len(stored) - (b + 1) + 1 ELSE 0) = New
        /\ Len(stored) - (b + 1) + 1 = New
        /\ \A i \in 1 .. New : b + 1 + i - 1 = b + i
    BY <1>1
  <2> HIDE DEF new
  <2> QED BY <2>2, <2>3, <2>4
<1>4. SubSeq(stored, 1, b) = before
  <2>1. before = [i \in 1 .. b |-> before[i]]
    BY SeqIs DEF Walked
  <2>2. \A i \in 1 .. b : stored[i] = before[i]
    BY DEF Walked
  <2>3. SubSeq(stored, 1, b) = [i \in 1 .. b |-> stored[i]]
    <3>1. \A i \in 1 .. b : i \in DOMAIN stored
      BY <1>1
    <3> QED BY <1>1, <3>1 DEF SubSeq
  <2> QED BY <2>1, <2>2, <2>3
<1>5. status = "SUCCESS" => Len(new) = Len(W)
  <2> SUFFICES ASSUME status = "SUCCESS" PROVE New = Len(W)
    BY <1>3
  <2>1. \A w \in 1 .. Len(W) : at[w] <= k
    BY <1>2 DEF Laid
  <2>2. \A w \in 1 .. Len(W) : w <= New
    BY <2>1 DEF Walked
  <2> QED BY <1>2, <2>2
<1>6. ASSUME NEW w \in 1 .. New
      PROVE  /\ w \in 1 .. Len(W) /\ at[w] \in Nat /\ at[w] <= k /\ k \in Nat
             /\ Size(W[w]) \in Nat /\ IsItem(W[w][1])
             /\ Configured(stored[b + w], W[w], Applied(at[w], k, W[w]))
  <2>1. w \in 1 .. Len(W)
    BY <1>2
  <2>2. at[w] \in Nat /\ Size(W[w]) \in Nat /\ IsItem(W[w][1])
    <3>1. at[w] \in 1 .. Len(S) /\ Begins(S[at[w]], W[w])
      BY <2>1 DEF Laid
    <3>2. Size(W[w]) \in Nat
      BY <2>1, SizeIsNat
    <3> QED BY <3>1, <3>2 DEF Begins
  <2> QED BY <1>1, <1>2, <2>1, <2>2 DEF Walked
<1>7. ASSUME NEW w \in 1 .. New
      PROVE  Begun(new[w], W[w][1], W[w][2], xml)
  <2> DEFINE e == stored[b + w]
             i == W[w][1]
             j == Applied(at[w], k, W[w])
  <2>1. Configured(e, W[w], j) /\ e \in InStorage /\ e \notin touched /\ new[w] = e
    BY <1>1, <1>3, <1>6
  <2>2. path[e] = PathOf(i) /\ name[e] = W[w][2] /\ styleOf[e] = StylesOf(xml).object
    BY <2>1 DEF Configured
  <2>3. Find(path[e], name[e]) = e
    <3> HIDE DEF e
    <3>1. /\ e \in InStorage \ touched /\ dirOf[e] = path[e] /\ ElementsOK
      BY <2>1 DEF ElementsInv, UntouchedOK
    <3>2. PICK f : f = Find(path[e], name[e])
      OBVIOUS
    <3>3. f \in InStorage \ touched /\ dirOf[f] = path[e] /\ name[f] = name[e]
      BY <3>1, <3>2, FoundIsStored
    <3> QED BY <3>1, <3>2, <3>3 DEF ElementsInv, UntouchedOK
  <2>4. attached[e] \subseteq Range(i.tests)
    <3>1. j \in Nat /\ j <= Len(Configures(i))
      BY <1>6 DEF Applied, Size
    <3>2. attached[e] = {Configures(i)[l].of : l \in {m \in 1 .. j : Configures(i)[m].do = "test"}}
      BY <2>1 DEF Configured
    <3>3. {Configures(i)[l].of : l \in
             {m \in 1 .. Len(Configures(i)) : Configures(i)[m].do = "test"}} = Range(i.tests)
      BY <1>6, ConfiguresSeq
    <3>4. Len(Configures(i)) \in Nat
      BY <1>6 DEF Size
    <3> HIDE DEF i, j
    <3>5. \A m \in 1 .. j : m \in 1 .. Len(Configures(i))
      BY <3>1, <3>4
    <3> QED BY <3>2, <3>3, <3>5
  <2> QED BY <2>1, <2>2, <2>3, <2>4 DEF Begun
<1>8. ASSUME NEW w \in 1 .. New, w <= whole
      PROVE  Furnished(new[w], W[w][1], W[w][2], xml)
  <2> DEFINE e == stored[b + w]
             i == W[w][1]
  <2>1. at[w] + Size(W[w]) <= k
    <3>1. CASE status = "SUCCESS"
      BY <1>6, <3>1 DEF Laid
    <3>2. CASE status # "SUCCESS"
      <4>1. w + 1 \in 1 .. New /\ w < w + 1
        <5>1. w <= Len(new) - 1
          BY <1>8, <3>2
        <5>2. w <= New - 1 /\ New \in Nat
          BY <1>1, <1>3, <5>1, Zenon
        <5> QED BY <5>2
      <4>2. w + 1 \in 1 .. Len(W) /\ at[w + 1] \in Nat /\ at[w + 1] <= k
        BY <1>6, <4>1
      <4>3. at[w] + Size(W[w]) < at[w + 1]
        BY <1>6, <4>1, <4>2 DEF Laid
      <4> QED BY <1>6, <4>2, <4>3
    <3> QED BY <3>1, <3>2
  <2>2. Applied(at[w], k, W[w]) = Size(W[w])
    BY <1>6, <2>1, AppliedAll
  <2>3. Configured(e, W[w], Size(W[w])) /\ IsItem(i) /\ Size(W[w]) \in Nat
    BY <1>6, <2>2
  <2>4. attached[e] = Range(i.tests)
    <3>1. attached[e] = {Configures(i)[l].of : l \in
             {m \in 1 .. Len(Configures(i)) : Configures(i)[m].do = "test"}}
      BY <2>3 DEF Configured, Size
    <3> QED BY <2>3, <3>1, ConfiguresSeq
  <2>5. reference[e] = Meant(i, W[w][2], xml)
    <3>1. CASE Size(W[w]) = 0
      <4>1. IsItem(i) /\ Len(Configures(i)) = 0
        BY <2>3, <3>1 DEF Size
      <4>2. i.reference = None
        <5> HIDE DEF i
        <5>1. i.reference # None => Len(Configures(i)) >= 1
          BY <4>1, ConfiguresSeq
        <5> QED BY <4>1, <5>1
      <4> QED BY <2>3, <3>1, <4>2 DEF Configured, Meant
    <3>2. CASE Size(W[w]) # 0
      BY <2>3, <3>2 DEF Configured
    <3> QED BY <3>1, <3>2
  <2> QED BY <1>3, <1>7, <2>4, <2>5 DEF Furnished
<1> HIDE DEF new, W, b
<1>9. \A w \in DOMAIN new :
        IF w <= whole THEN Furnished(new[w], W[w][1], W[w][2], xml)
        ELSE Begun(new[w], W[w][1], W[w][2], xml)
  BY <1>3, <1>7, <1>8
<1> QED BY <1>4, <1>5, <1>9 DEF StorageFilesAreReadInOrder, new, W, b

(***************************************************************************)
(* One call of the walk.                                                   *)
(***************************************************************************)
ReferencesGrow ==
  \A id \in DOMAIN references : id \in DOMAIN references' /\ references'[id] = references[id]

Stays(e) ==
  /\ path'[e] = path[e] /\ name'[e] = name[e] /\ attached'[e] = attached[e]
  /\ styleOf'[e] = styleOf[e] /\ reference'[e] = reference[e]

LEMMA ConfiguredStays ==
  ASSUME NEW e, NEW w, NEW j, Configured(e, w, j), xml' = xml, Stays(e), ReferencesGrow
  PROVE  Configured(e, w, j)'
<1>1. w[1].reference # None /\ w[1].reference.id \in DOMAIN references =>
        w[1].reference.id \in DOMAIN references' /\ Meant(w[1], w[2], xml)' = Meant(w[1], w[2], xml)
  BY DEF Meant, ReferencesGrow
<1>2. w[1].reference = None => Meant(w[1], w[2], xml)' = Meant(w[1], w[2], xml)
  BY DEF Meant
<1> QED BY <1>1, <1>2 DEF Configured, Stays

\* A call that leaves the elements alone, or that fails.
LEMMA WalkGoesOn ==
  ASSUME ElementsInv, NEW at, NEW k, NEW l, Walked(at, k),
         UNCHANGED <<stored, before, xml>>, ReferencesGrow,
         \A e \in InStorage : Stays(e),
         l > 0 => styles' = StylesOf(xml),
         \A w \in 1 .. Len(Wanted(xml)) : at[w] <= l <=> at[w] <= k,
         \A w \in 1 .. New :
           Applied(at[w], l, Wanted(xml)[w]) = Applied(at[w], k, Wanted(xml)[w])
  PROVE  Walked(at, l)'
<1>1. New' = New
  BY DEF New
<1>2. ASSUME NEW w \in 1 .. New
      PROVE  Configured(stored[Len(before) + w], Wanted(xml)[w], Applied(at[w], l, Wanted(xml)[w]))'
  <2>1. PICK e : e = stored[Len(before) + w]
    OBVIOUS
  <2>2. PICK v : v = Wanted(xml)[w]
    OBVIOUS
  <2>3. PICK j : j = Applied(at[w], l, v)
    OBVIOUS
  <2>4. Configured(e, v, j) /\ Stays(e)
    BY <2>1, <2>2, <2>3, NewElements DEF Walked
  <2>5. Configured(e, v, j)'
    BY <2>4, ConfiguredStays
  <2> QED BY <2>1, <2>2, <2>3, <2>5
<1> QED BY <1>1, <1>2 DEF Walked

LEMMA NextCall ==
  ASSUME ElementsInv, NEW at, NEW k \in 0 .. Len(Steps(xml)) - 1, Reading(at, k)
  PROVE  /\ Head(todo) = Steps(xml)[k + 1]
         /\ Tail(todo) = SubSeq(Steps(xml), (k + 1) + 1, Len(Steps(xml)))
         /\ Tail(todo) = <<>> <=> k + 1 = Len(Steps(xml))
         /\ Len(Steps(xml)) \in Nat /\ k \in Nat
<1>1. IsSeq(Steps(xml)) /\ Len(Steps(xml)) \in Nat
  BY SizeIsNat DEF Reading, Laid
<1>2. PICK S : S = Steps(xml)
  OBVIOUS
<1>3. /\ S \in Seq(Range(S)) /\ Len(S) \in Nat
      /\ k + 1 \in 1 .. Len(S) /\ Len(S) \in k + 1 .. Len(S)
      /\ todo = SubSeq(S, k + 1, Len(S))
  BY <1>1, <1>2 DEF Reading, IsSeq
<1>4. Head(todo) = S[k + 1] /\ Tail(todo) = SubSeq(S, (k + 1) + 1, Len(S))
  BY <1>3, HeadTailOfSubSeq
<1>5. Tail(todo) = <<>> <=> k + 1 = Len(S)
  <2>1. \A i \in (k + 1) + 1 .. Len(S) : S[i] \in Range(S)
    BY <1>1, <1>2, SeqIs
  <2>2. (k + 1) + 1 \in Int /\ Len(S) \in Int
    BY <1>3
  <2>3. Len(Tail(todo)) = IF (k + 1) + 1 <= Len(S) THEN Len(S) - ((k + 1) + 1) + 1 ELSE 0
    BY <1>4, <2>1, <2>2, SubSeqProperties
  <2>4. Tail(todo) = <<>> => Len(Tail(todo)) = 0
    BY NoSteps
  <2>5. k + 1 = Len(S) => Tail(todo) = <<>>
    BY <1>3, <1>4, <2>2, SubSeqEmpty
  <2> QED BY <1>3, <2>3, <2>4, <2>5
<1> QED BY <1>2, <1>3, <1>4, <1>5

LEMMA KindOfCall ==
  ASSUME ElementsInv, NEW at, NEW k \in 0 .. Len(Steps(xml)) - 1, Reading(at, k),
         NEW s, s = Head(todo)
  PROVE  /\ s.do = "style" => k = 0 /\ s.of = xml.style
         /\ s.do # "style" => k > 0
         /\ s.do \in {"style", "file", "create", "attribute"} =>
              s \in Setup(xml) /\ NeutralCall(Setup(xml), s, Wanted(xml), at, k, New)
         /\ s.do \in {"book", "read"} => BeginningCall(s, Wanted(xml), at, k, New)
         /\ s.do \in {"reference", "test"} =>
              \E j \in 0 .. Size(Wanted(xml)[New]) - 1 :
                ConfiguringCall(s, Wanted(xml), at, k, New, j)
         /\ s.do \in {"style", "file", "create", "attribute", "book", "read", "reference", "test"}
<1> DEFINE W == Wanted(xml)
           N == Setup(xml)
<1>1. s = Steps(xml)[k + 1] /\ k \in Nat /\ Len(Steps(xml)) \in Nat
  BY NextCall
<1>2. xml \in StorageFiles /\ Laid(N, Steps(xml), W, at) /\ Walked(at, k)
  BY DEF Reading
<1>3. New \in 0 .. Len(W) /\ \A w \in 1 .. Len(W) : at[w] <= k <=> w <= New
  BY <1>2 DEF Walked
<1>4. \/ NeutralCall(N, s, W, at, k, New)
      \/ BeginningCall(s, W, at, k, New)
      \/ \E j \in 0 .. Size(W[New]) - 1 : ConfiguringCall(s, W, at, k, New, j)
  <2> HIDE DEF W, N
  <2>1. PICK S : S = Steps(xml)
    OBVIOUS
  <2>2. PICK n : n = New
    OBVIOUS
  <2>3. \/ NeutralCall(N, S[k + 1], W, at, k, n)
        \/ BeginningCall(S[k + 1], W, at, k, n)
        \/ \E j \in 0 .. Size(W[n]) - 1 : ConfiguringCall(S[k + 1], W, at, k, n, j)
    <3>1. /\ Laid(N, S, W, at) /\ n \in 0 .. Len(W) /\ k \in 0 .. Len(S) - 1
          /\ \A w \in 1 .. Len(W) : at[w] <= k <=> w <= n
      BY <1>2, <1>3, <2>1, <2>2
    <3> QED BY <3>1, CallOf
  <2> QED BY <1>1, <2>1, <2>2, <2>3
<1>5. NeutralCall(N, s, W, at, k, New) =>
        s \in N /\ s.do \in {"style", "file", "create", "attribute"}
  BY DEF NeutralCall, Setup, Attributes
<1>6. BeginningCall(s, W, at, k, New) => s.do \in {"book", "read"}
  BY DEF BeginningCall, Begins
<1>7. ASSUME NEW j \in 0 .. Size(W[New]) - 1, ConfiguringCall(s, W, at, k, New, j)
      PROVE  s.do \in {"reference", "test"}
  <2>1. PICK w : w = New
    OBVIOUS
  <2>2. w \in 1 .. Len(W) /\ s = Configures(W[w][1])[j + 1]
    BY <1>7, <2>1 DEF ConfiguringCall
  <2>3. Size(W[w]) \in Nat
    BY <1>2, <2>2, SizeIsNat
  <2>4. j + 1 \in 1 .. Size(W[w])
    BY <1>7, <2>1, <2>3
  <2> HIDE DEF W, N
  <2> QED BY <1>2, <2>2, <2>4, ConfiguringCalls
<1>8. s.do = "style" => k = 0 /\ s.of = xml.style
  <2>1. PICK S : S = Steps(xml)
    OBVIOUS
  <2>2. /\ S[1] = [do |-> "style", of |-> xml.style]
        /\ \A l \in 2 .. Len(S) : S[l].do # "style"
    BY <1>2, <2>1, StepsLaid
  <2>3. k # 0 => k + 1 \in 2 .. Len(S)
    BY <1>1, <2>1
  <2>4. s = S[k + 1]
    BY <1>1, <2>1
  <2>5. s.do = "style" => k = 0
    BY <2>2, <2>3, <2>4
  <2>6. k = 0 => s = S[1]
    BY <2>4
  <2>7. k = 0 => s.of = xml.style
    BY <2>2, <2>6
  <2> QED BY <2>5, <2>7
<1>9. s.do # "style" => k > 0
  <2>1. Steps(xml)[1] = [do |-> "style", of |-> xml.style]
    BY <1>2, StepsLaid
  <2>2. k = 0 => s = Steps(xml)[1]
    BY <1>1
  <2>3. k = 0 => s.do = "style"
    BY <2>1, <2>2
  <2> QED BY <1>1, <2>3
<1> HIDE DEF W, N
<1>10. "style" \notin {"book", "read"} /\ "style" \notin {"reference", "test"}
  OBVIOUS
<1>11. CASE NeutralCall(N, s, W, at, k, New)
  BY <1>5, <1>8, <1>9, <1>11 DEF W, N
<1>12. CASE BeginningCall(s, W, at, k, New)
  BY <1>6, <1>8, <1>9, <1>12 DEF W, N
<1>13. CASE \E j \in 0 .. Size(W[New]) - 1 : ConfiguringCall(s, W, at, k, New, j)
  BY <1>7, <1>8, <1>9, <1>13 DEF W, N
<1> QED BY <1>4, <1>11, <1>12, <1>13

\* The walk goes on after its next call, or has failed in it.
Goes(at, k) ==
  \E l \in {k, k + 1} :
    Walked(at, l)' /\ (status' = "SUCCESS" => l = k + 1 /\ CurrentIsLast')

SameDocument == UNCHANGED <<before, xml, calls>>

LEMMA FailingCall ==
  ASSUME ElementsInv, NEW at, NEW k \in Nat, Walked(at, k), SameDocument,
         UNCHANGED stored, ReferencesGrow, \A e \in InStorage : Stays(e),
         k > 0 => styles' = styles, status' # "SUCCESS"
  PROVE  Goes(at, k)
<1>1. k > 0 => styles' = StylesOf(xml)
  BY DEF Walked
<1>2. Walked(at, k)'
  BY <1>1, WalkGoesOn DEF SameDocument
<1> QED BY <1>2 DEF Goes

LEMMA NeutralSucceeds ==
  ASSUME ElementsInv, NEW at, NEW k \in Nat, Walked(at, k), SameDocument, CurrentIsLast,
         Laid(Setup(xml), Steps(xml), Wanted(xml), at),
         NEW s, NeutralCall(Setup(xml), s, Wanted(xml), at, k, New),
         UNCHANGED <<stored, current>>, ReferencesGrow, \A e \in InStorage : Stays(e),
         styles' = StylesOf(xml)
  PROVE  Goes(at, k)
<1>1. ASSUME NEW w \in 1 .. Len(Wanted(xml)) PROVE at[w] <= k + 1 <=> at[w] <= k
  <2>1. at[w] \in 1 .. Len(Steps(xml)) /\ at[w] # k + 1
    BY DEF Laid, NeutralCall
  <2> QED BY <2>1
<1>2. \A w \in 1 .. New :
        Applied(at[w], k + 1, Wanted(xml)[w]) = Applied(at[w], k, Wanted(xml)[w])
  BY DEF NeutralCall, Unmoved
<1>3. Walked(at, k + 1)'
  BY <1>1, <1>2, WalkGoesOn DEF SameDocument
<1>4. CurrentIsLast'
  BY DEF CurrentIsLast, New, SameDocument
<1> QED BY <1>3, <1>4 DEF Goes

\* Calls that set up: the first one parses the style, none after it changes it.
LEMMA SetupCalls ==
  ASSUME ElementsInv, NEW at, NEW k \in 0 .. Len(Steps(xml)) - 1, Reading(at, k), SameDocument,
         NEW s, s = Head(todo), UNCHANGED <<storage, element, furnished>>,
         \/ s.do = "style" /\ ParseStyle(s.of) /\ UNCHANGED references
         \/ s.do = "file" /\ AddReferenceFile(s.of) /\ UNCHANGED styles
         \/ s.do = "create" /\ CreateTest(s.of) /\ UNCHANGED <<references, styles>>
         \/ s.do = "attribute" /\ UNCHANGED <<references, styles>>
  PROVE  Goes(at, k)
<1>1. /\ UNCHANGED <<stored, current>> /\ \A e \in InStorage : Stays(e)
      /\ k \in Nat /\ Walked(at, k) /\ CurrentIsLast
      /\ Laid(Setup(xml), Steps(xml), Wanted(xml), at)
      /\ NeutralCall(Setup(xml), s, Wanted(xml), at, k, New)
  BY NextCall, KindOfCall DEF storage, element, furnished, Stays, Reading
<1>2. ReferencesGrow
  BY DEF ReferencesGrow, AddReferenceFile
<1>3. CASE s.do = "style"
  <2>1. k = 0 /\ s.of = xml.style /\ ParseStyle(xml.style)
    BY <1>3, KindOfCall
  <2>2. xml \in StorageFiles
    BY DEF Reading
  <2>3. status' = "SUCCESS" => styles' = StylesOf(xml)
    <3>1. PICK t : t = xml.style
      OBVIOUS
    <3>2. t = None \/ {t.object, t.reference} \subseteq {"none", "good", "bad"}
      BY <2>2, <3>1, StorageFilesAssumption
    <3>3. StylesOf(xml) = [object |-> IF t # None /\ t.object = "good" THEN "changed" ELSE ThemeOf(t),
                           reference |-> IF t # None /\ t.reference = "good" THEN "changed" ELSE ThemeOf(t)]
      BY <3>1 DEF StylesOf, ThemeOf
    <3>4. CASE t = None \/ ThemeOf(t) \notin Themes
      <4>1. /\ styles' = Builtin(ThemeOf(t))
            /\ status' = IF ThemeOf(t) \in Themes THEN "SUCCESS" ELSE "NOT_FOUND"
        BY <2>1, <3>1, <3>4 DEF ParseStyle, Returns, Return
      <4> QED BY <3>3, <3>4, <4>1 DEF Builtin
    <3>5. CASE t # None /\ ThemeOf(t) \in Themes
      <4>1. /\ styles' = [object |-> FromXml(Builtin(ThemeOf(t)).object, t.object),
                          reference |-> IF t.object = "bad" THEN Builtin(ThemeOf(t)).reference
                                        ELSE FromXml(Builtin(ThemeOf(t)).reference, t.reference)]
            /\ status' = IF "bad" \in {t.object, t.reference} THEN "FAILURE" ELSE "SUCCESS"
        BY <2>1, <3>1, <3>5 DEF ParseStyle, Returns, Return
      <4>2. Builtin(ThemeOf(t)) = [object |-> ThemeOf(t), reference |-> ThemeOf(t)]
        BY <3>5 DEF Builtin
      <4>3. ASSUME status' = "SUCCESS"
            PROVE  t.object \in {"none", "good"} /\ t.reference \in {"none", "good"}
        BY <3>2, <3>5, <4>1, <4>3
      <4> QED BY <3>3, <3>5, <4>1, <4>2, <4>3 DEF FromXml
    <3> QED BY <3>4, <3>5
  <2>4. CASE status' = "SUCCESS"
    BY <1>1, <1>2, <2>3, <2>4, NeutralSucceeds
  <2>5. CASE status' # "SUCCESS"
    BY <1>1, <1>2, <2>1, <2>5, FailingCall
  <2> QED BY <2>4, <2>5
<1>4. CASE s.do # "style"
  <2>1. UNCHANGED styles /\ k > 0
    BY <1>4, KindOfCall
  <2>2. styles' = StylesOf(xml)
    BY <1>1, <2>1 DEF Walked
  <2> QED BY <1>1, <1>2, <2>2, NeutralSucceeds
<1> QED BY <1>3, <1>4

\* A call that configures the element that was made last.
LEMMA ConfiguringGoesOn ==
  ASSUME ElementsInv, StoredOnce, NEW at, NEW k \in 0 .. Len(Steps(xml)) - 1, Reading(at, k),
         SameDocument, NEW s, NEW j, ConfiguringCall(s, Wanted(xml), at, k, New, j),
         UNCHANGED <<stored, current, references, styles>>,
         \A e \in InStorage \ {current} : Stays(e), k > 0,
         NEW c, c = current, NEW v, v = Wanted(xml)[New], Configured(c, v, j) => Configured(c, v, j + 1)'
  PROVE  Goes(at, k)
<1>1. /\ Walked(at, k) /\ CurrentIsLast /\ Laid(Setup(xml), Steps(xml), Wanted(xml), at)
  BY DEF Reading
<1>2. PICK b, n, W : b = Len(before) /\ n = New /\ W = Wanted(xml)
  OBVIOUS
<1>3. /\ b \in Nat /\ n \in Nat /\ Len(stored) = b + n
      /\ \A w \in 1 .. n : b + w \in DOMAIN stored /\ stored[b + w] \in InStorage
  BY <1>1, <1>2, NewElements
<1>4. /\ n \in 1 .. Len(W) /\ Unmoved(W, at, k, n - 1)
      /\ Applied(at[n], k, W[n]) = j /\ Applied(at[n], k + 1, W[n]) = j + 1
      /\ \A w \in 1 .. Len(W) : at[w] # k + 1
  BY <1>2 DEF ConfiguringCall
<1>5. n > 0 /\ n \in 1 .. n /\ c = stored[b + n]
  BY <1>1, <1>2, <1>3, <1>4 DEF CurrentIsLast
<1>6. New' = n /\ Len(before)' = b /\ Wanted(xml)' = W
  BY <1>2 DEF New, SameDocument
<1>7. ASSUME NEW w \in 1 .. n
      PROVE  Configured(stored[b + w], W[w], Applied(at[w], k, W[w]))
  BY <1>1, <1>2 DEF Walked
<1>8. ASSUME NEW w \in 1 .. n
      PROVE  Configured(stored[b + w], W[w], Applied(at[w], k + 1, W[w]))'
  <2>1. CASE w = n
    <3>1. Configured(c, v, j)
      BY <1>2, <1>4, <1>5, <1>7, <2>1
    <3>2. Configured(c, v, j + 1)'
      BY <3>1
    <3>3. stored' = stored /\ v = W[n]
      BY <1>2
    <3> QED BY <1>4, <1>5, <2>1, <3>2, <3>3
  <2>2. CASE w # n
    <3>1. w \in 1 .. n - 1
      BY <1>3, <2>2
    <3>2. Applied(at[w], k + 1, W[w]) = Applied(at[w], k, W[w])
      BY <1>4, <3>1 DEF Unmoved
    <3>3. PICK e : e = stored[b + w]
      OBVIOUS
    <3>4. e # c /\ e \in InStorage
      <4>1. b + w # b + n
        BY <1>3, <2>2
      <4> QED BY <1>3, <1>5, <3>3, <4>1 DEF StoredOnce
    <3>5. Stays(e) /\ ReferencesGrow /\ xml' = xml
      BY <3>4 DEF ReferencesGrow, SameDocument
    <3>6. PICK i, u : i = Applied(at[w], k, W[w]) /\ u = W[w]
      OBVIOUS
    <3>7. Configured(e, u, i)
      BY <1>7, <3>3, <3>6
    <3>8. Configured(e, u, i)'
      BY <3>5, <3>7, ConfiguredStays
    <3>9. stored' = stored
      OBVIOUS
    <3> QED BY <3>2, <3>3, <3>6, <3>8, <3>9
  <2> QED BY <2>1, <2>2
<1>9. \A w \in 1 .. Len(W) : at[w] <= k + 1 <=> w <= n
  <2> TAKE w \in 1 .. Len(W)
  <2>1. at[w] \in 1 .. Len(Steps(xml)) /\ at[w] # k + 1
    BY <1>1, <1>2, <1>4 DEF Laid
  <2>2. at[w] <= k <=> w <= n
    BY <1>1, <1>2 DEF Walked
  <2> QED BY <2>1, <2>2
<1>10. /\ IsSeq(before)' /\ \A i \in 1 .. b : stored'[i] = before'[i]
       /\ styles' = StylesOf(xml)'
  BY <1>1, <1>2 DEF Walked, SameDocument
<1>11. n \in 0 .. Len(W)
  BY <1>4
<1>12. Walked(at, k + 1)'
  BY <1>6, <1>8, <1>9, <1>10, <1>11 DEF Walked
<1>13. CurrentIsLast'
  BY <1>1 DEF CurrentIsLast, New, SameDocument
<1> QED BY <1>12, <1>13 DEF Goes

LEMMA CurrentElement ==
  ASSUME ElementsInv, touched = {}, NEW at, NEW k \in 0 .. Len(Steps(xml)) - 1, Reading(at, k),
         NEW s, NEW j \in 0 .. Size(Wanted(xml)[New]) - 1,
         ConfiguringCall(s, Wanted(xml), at, k, New, j),
         NEW v, v = Wanted(xml)[New]
  PROVE  /\ current \in InStorage /\ Configured(current, v, j) /\ IsItem(v[1])
         /\ Find(path[current], name[current]) = current
         /\ j \in Nat /\ j + 1 \in 1 .. Len(Configures(v[1])) /\ s = Configures(v[1])[j + 1]
<1>1. /\ Walked(at, k) /\ CurrentIsLast /\ Laid(Setup(xml), Steps(xml), Wanted(xml), at)
  BY DEF Reading
<1>2. PICK b, n, W : b = Len(before) /\ n = New /\ W = Wanted(xml)
  OBVIOUS
<1>3. /\ b \in Nat /\ n \in Nat /\ Len(stored) = b + n
      /\ \A w \in 1 .. n : stored[b + w] \in InStorage
  BY <1>1, <1>2, NewElements
<1>4. /\ n \in 1 .. Len(W) /\ Applied(at[n], k, W[n]) = j /\ s = Configures(W[n][1])[j + 1]
  BY <1>2 DEF ConfiguringCall
<1>5. n > 0 /\ n \in 1 .. n /\ current = stored[b + n]
  BY <1>1, <1>2, <1>3, <1>4 DEF CurrentIsLast
<1>6. current \in InStorage /\ Configured(current, v, j)
  BY <1>1, <1>2, <1>3, <1>4, <1>5 DEF Walked
<1>7. Size(v) \in Nat /\ IsItem(v[1])
  BY <1>1, <1>2, <1>4, SizeIsNat DEF Laid, Begins
<1>8. j \in Nat /\ j + 1 \in 1 .. Size(v)
  BY <1>2, <1>7
<1>9. Find(path[current], name[current]) = current
  <2>1. /\ current \in InStorage \ touched /\ dirOf[current] = path[current] /\ ElementsOK
    BY <1>6 DEF ElementsInv, UntouchedOK
  <2>2. PICK f : f = Find(path[current], name[current])
    OBVIOUS
  <2>3. f \in InStorage \ touched /\ dirOf[f] = path[current] /\ name[f] = name[current]
    BY <2>1, <2>2, FoundIsStored
  <2> QED BY <2>1, <2>2, <2>3 DEF ElementsInv, UntouchedOK
<1> QED BY <1>2, <1>4, <1>6, <1>7, <1>8, <1>9 DEF Size

LEMMA ReferenceCalls ==
  ASSUME ElementsInv, touched = {}, StoredOnce, FileTypeOK,
         NEW at, NEW k \in 0 .. Len(Steps(xml)) - 1, Reading(at, k),
         SameDocument, UNCHANGED setup, NEW s, s = Head(todo), s.do = "reference",
         AttachReference(s.of)
  PROVE  Goes(at, k)
<1>1. Walked(at, k) /\ k \in Nat /\ k > 0
  BY NextCall, KindOfCall DEF Reading
<1>2. UNCHANGED <<storage, element, references, styles>>
  BY DEF AttachReference, Returns, setup
<1>3. PICK j \in 0 .. Size(Wanted(xml)[New]) - 1 :
        ConfiguringCall(s, Wanted(xml), at, k, New, j)
  BY KindOfCall
<1>4. PICK v : v = Wanted(xml)[New]
  OBVIOUS
<1>5. PICK c : c = current
  OBVIOUS
<1>6. PICK r, i : r = s.of /\ i = v[1]
  OBVIOUS
<1>7. /\ c \in InStorage /\ Configured(c, v, j) /\ IsItem(i)
      /\ j \in Nat /\ j + 1 \in 1 .. Len(Configures(i)) /\ s = Configures(i)[j + 1]
  BY <1>3, <1>4, <1>5, <1>6, CurrentElement
<1>8. j = 0 /\ i.reference # None /\ s = [do |-> "reference", of |-> i.reference]
  <2>1. \/ i.reference # None /\ j + 1 = 1 /\ s = [do |-> "reference", of |-> i.reference]
        \/ \E t \in 1 .. Len(i.tests) : s = [do |-> "test", of |-> i.tests[t]]
    BY <1>7, ConfiguresSeq, ZenonT(30)
  <2>2. CASE i.reference # None /\ j + 1 = 1 /\ s = [do |-> "reference", of |-> i.reference]
    BY <1>7, <2>2
  <2>3. CASE \E t \in 1 .. Len(i.tests) : s = [do |-> "test", of |-> i.tests[t]]
    BY <2>3
  <2> QED BY <2>1, <2>2, <2>3
<1>9. r = i.reference
  BY <1>6, <1>8
<1>10. /\ path[c] = PathOf(i) /\ name[c] = v[2]
       /\ attached[c] = {} /\ styleOf[c] = StylesOf(xml).object
  BY <1>6, <1>7, <1>8 DEF Configured
<1> DEFINE key == Target(r, c)
<1>11. CASE r.id \notin DOMAIN references \/ ~Has(references[r.id], key)
  <2>1. status' = "NOT_FOUND" /\ UNCHANGED furnished
    BY <1>5, <1>6, <1>11 DEF AttachReference, Returns, Return
  <2>2. /\ UNCHANGED stored /\ ReferencesGrow /\ \A e \in InStorage : Stays(e)
        /\ status' # "SUCCESS" /\ styles' = styles
    BY <1>2, <2>1 DEF storage, element, furnished, Stays, ReferencesGrow
  <2> QED BY <1>1, <2>2, FailingCall
<1>12. CASE r.id \in DOMAIN references /\ Has(references[r.id], key)
  <2>1. /\ reference' = [reference EXCEPT ![c] =
                [file |-> references[r.id], key |-> key, style |-> styles.reference]]
        /\ UNCHANGED <<current, styleOf>>
    BY <1>5, <1>6, <1>12 DEF AttachReference
  <2>2. c \in Elements
    BY <1>7, StoredElements DEF ElementsInv, ElementsOK
  <2>3. reference'[c] = [file |-> references[r.id], key |-> key, style |-> styles.reference]
    BY <2>1, <2>2 DEF FileTypeOK
  <2>4. styles = StylesOf(xml)
    BY <1>1 DEF Walked
  <2>5. reference'[c] = Meant(i, v[2], xml)
    BY <1>8, <1>9, <1>10, <2>3, <2>4 DEF Meant, Target
  <2>6. Meant(i, v[2], xml)' = Meant(i, v[2], xml)
    BY <1>2 DEF Meant, SameDocument
  <2>7. attached'[c] = {Configures(i)[l].of : l \in {m \in 1 .. 0 + 1 : Configures(i)[m].do = "test"}}
    <3>1. Configures(i)[1].do # "test"
      <4>1. s = Configures(i)[0 + 1] /\ s.do # "test"
        BY <1>7, <1>8
      <4> QED BY <4>1
    <3>2. {m \in 1 .. 0 + 1 : Configures(i)[m].do = "test"} = {}
      BY <3>1
    <3> QED BY <1>2, <1>10, <3>2 DEF element
  <2>8. Configured(c, v, j + 1)'
    <3>1. /\ path'[c] = PathOf(i) /\ name'[c] = v[2]
          /\ styleOf'[c] = StylesOf(xml').object
      BY <1>2, <1>10, <2>1 DEF element, SameDocument
    <3>2. /\ reference'[c] = Meant(i, v[2], xml)'
          /\ i.reference # None => i.reference.id \in DOMAIN references'
      BY <1>2, <1>9, <1>12, <2>5, <2>6
    <3>3. j = 0 /\ j + 1 # 0
      BY <1>8
    <3> QED BY <1>6, <2>7, <3>1, <3>2, <3>3 DEF Configured
  <2>9. \A e \in InStorage \ {current} : Stays(e)
    <3>1. \A e \in Elements \ {c} : reference'[e] = reference[e]
      BY <2>1 DEF FileTypeOK
    <3>2. InStorage \subseteq Elements
      BY StoredElements DEF ElementsInv, ElementsOK
    <3> QED BY <1>2, <1>5, <2>1, <3>1, <3>2 DEF Stays, element
  <2> QED
    BY <1>1, <1>2, <1>3, <1>4, <1>5, <2>1, <2>8, <2>9, ConfiguringGoesOn DEF storage
<1> QED BY <1>11, <1>12

LEMMA TestCalls ==
  ASSUME ElementsInv, touched = {}, StoredOnce, FileTypeOK,
         NEW at, NEW k \in 0 .. Len(Steps(xml)) - 1, Reading(at, k),
         SameDocument, UNCHANGED <<setup, furnished>>, NEW s, s = Head(todo), s.do = "test",
         AttachTest(s.of)
  PROVE  Goes(at, k)
<1>1. Walked(at, k) /\ k \in Nat /\ k > 0
  BY NextCall, KindOfCall DEF Reading
<1>2. UNCHANGED <<references, styles, current, styleOf, reference>>
  BY DEF setup, furnished
<1>3. PICK j \in 0 .. Size(Wanted(xml)[New]) - 1 :
        ConfiguringCall(s, Wanted(xml), at, k, New, j)
  BY KindOfCall
<1>4. PICK v : v = Wanted(xml)[New]
  OBVIOUS
<1>5. PICK c : c = current
  OBVIOUS
<1>6. PICK t, i : t = s.of /\ i = v[1]
  OBVIOUS
<1>7. /\ c \in InStorage /\ Configured(c, v, j) /\ IsItem(i) /\ Find(path[c], name[c]) = c
      /\ j \in Nat /\ j + 1 \in 1 .. Len(Configures(i)) /\ s = Configures(i)[j + 1]
  BY <1>3, <1>4, <1>5, <1>6, CurrentElement
<1>8. c \in Elements /\ c # NoElement /\ DOMAIN attached = Elements
  BY <1>7, StoredElements, ElementsAssumption DEF ElementsInv, ElementsOK
<1>9. \/ status' # "SUCCESS" /\ UNCHANGED <<storage, element>>
      \/ /\ status' = "SUCCESS" /\ attached' = [attached EXCEPT ![c] = @ \union {t}]
         /\ UNCHANGED <<storage, handles, name, path, touched>>
  BY <1>5, <1>6, <1>7, <1>8
  DEF AttachTest, AddQualityTest, Returns, Return, storage, element
<1>10. CASE status' # "SUCCESS" /\ UNCHANGED <<storage, element>>
  <2>1. /\ UNCHANGED stored /\ ReferencesGrow /\ \A e \in InStorage : Stays(e)
        /\ styles' = styles
    BY <1>2, <1>10 DEF storage, element, Stays, ReferencesGrow
  <2> QED BY <1>1, <1>10, <2>1, FailingCall
<1>11. CASE /\ status' = "SUCCESS" /\ attached' = [attached EXCEPT ![c] = @ \union {t}]
            /\ UNCHANGED <<storage, handles, name, path, touched>>
  <2>1. attached'[c] = attached[c] \union {t}
    BY <1>8, <1>11
  <2>2. attached'[c] =
          {Configures(i)[l].of : l \in {m \in 1 .. j + 1 : Configures(i)[m].do = "test"}}
    <3>1. PICK C : C = Configures(i)
      OBVIOUS
    <3>2. attached[c] = {C[l].of : l \in {m \in 1 .. j : C[m].do = "test"}}
      BY <1>6, <1>7, <3>1 DEF Configured
    <3>3. C[j + 1].do = "test" /\ C[j + 1].of = t
      BY <1>6, <1>7, <3>1
    <3>4. \A l : l \in 1 .. j + 1 <=> l \in 1 .. j \/ l = j + 1
      BY <1>7
    <3>5. {C[l].of : l \in {m \in 1 .. j + 1 : C[m].do = "test"}}
            = {C[l].of : l \in {m \in 1 .. j : C[m].do = "test"}} \union {t}
      BY <3>3, <3>4
    <3> QED BY <2>1, <3>1, <3>2, <3>5
  <2>3. IF j + 1 = 0 THEN reference'[c] = None
        ELSE /\ reference'[c] = Meant(i, v[2], xml)'
             /\ i.reference # None => i.reference.id \in DOMAIN references'
    <3>1. Meant(i, v[2], xml)' = Meant(i, v[2], xml)
      BY <1>2 DEF Meant, SameDocument
    <3>2. CASE j = 0
      <4>1. s = Configures(i)[1] /\ 1 \in 1 .. Len(Configures(i))
        BY <1>7, <3>2
      <4>2. i.reference = None
        <5> SUFFICES ASSUME i.reference # None PROVE FALSE
          OBVIOUS
        <5>1. Configures(i)[1] = [do |-> "reference", of |-> i.reference]
          BY <1>7, <4>1, ConfiguresSeq
        <5> QED BY <4>1, <5>1
      <4>3. reference[c] = None
        BY <1>7, <3>2 DEF Configured
      <4> QED BY <1>2, <3>1, <3>2, <4>2, <4>3 DEF Meant
    <3>3. CASE j # 0
      BY <1>2, <1>6, <1>7, <3>1, <3>3 DEF Configured
    <3> QED BY <3>2, <3>3
  <2>4. Configured(c, v, j + 1)'
    <3>1. path[c] = PathOf(i) /\ name[c] = v[2] /\ styleOf[c] = StylesOf(xml).object
      BY <1>6, <1>7 DEF Configured
    <3> QED BY <1>2, <1>6, <1>11, <2>2, <2>3, <3>1 DEF Configured, SameDocument
  <2>5. \A e \in InStorage \ {current} : Stays(e)
    <3>1. \A e \in Elements \ {c} : attached'[e] = attached[e]
      BY <1>8, <1>11
    <3>2. InStorage \subseteq Elements
      BY StoredElements DEF ElementsInv, ElementsOK
    <3> QED BY <1>2, <1>5, <1>11, <3>1, <3>2 DEF Stays
  <2> QED
    BY <1>1, <1>2, <1>3, <1>4, <1>5, <1>11, <2>4, <2>5, ConfiguringGoesOn DEF storage
<1> QED BY <1>9, <1>10, <1>11

\* An element is made: it is the next one that the file wants, or its place is
\* taken and it is not stored.
LEMMA MakingCalls ==
  ASSUME ElementsInv, FileTypeOK, NEW at, NEW k \in 0 .. Len(Steps(xml)) - 1, Reading(at, k),
         SameDocument, UNCHANGED setup, k > 0, NEW s,
         BeginningCall(s, Wanted(xml), at, k, New),
         NEW v, v = Wanted(xml)[New + 1], Makes(PathOf(v[1]), v[2])
  PROVE  Goes(at, k)
<1>1. /\ Walked(at, k) /\ Laid(Setup(xml), Steps(xml), Wanted(xml), at) /\ k \in Nat
  BY NextCall DEF Reading
<1>2. PICK p, n : p = PathOf(v[1]) /\ n = v[2]
  OBVIOUS
<1>3. PICK e \in Elements :
        /\ Book(e, p, n) /\ current' = e /\ styleOf' = [styleOf EXCEPT ![e] = styles.object]
        /\ reference' = [reference EXCEPT ![e] = None]
  BY <1>2 DEF Makes, Styled
<1>4. /\ e \notin handles /\ InStorage \subseteq handles /\ handles \subseteq Elements
      /\ DOMAIN name = Elements /\ DOMAIN path = Elements /\ DOMAIN attached = Elements
      /\ Len(stored) \in Nat /\ DOMAIN stored = 1 .. Len(stored) /\ stored \in Seq(handles)
  BY <1>3, StoredElements DEF ElementsInv, ElementsOK, Book, Create
<1>5. /\ name' = [name EXCEPT ![e] = n] /\ attached' = [attached EXCEPT ![e] = {}]
      /\ UNCHANGED <<references, styles>>
  BY <1>3 DEF Book, Create, setup
<1>6. \/ status' # "SUCCESS" /\ UNCHANGED stored /\ path' = [path EXCEPT ![e] = Unset]
      \/ status' = "SUCCESS" /\ stored' = Append(stored, e) /\ path' = [path EXCEPT ![e] = p]
  BY <1>3 DEF Book, AddToStorage, Return, storage
<1>7. \A f \in InStorage : Stays(f)
  <2> TAKE f \in InStorage
  <2>1. f \in Elements /\ f # e
    BY <1>4
  <2> QED BY <1>3, <1>4, <1>5, <1>6, <2>1 DEF Stays, FileTypeOK
<1>8. ReferencesGrow
  BY <1>5 DEF ReferencesGrow
<1>9. CASE status' # "SUCCESS" /\ UNCHANGED stored
  BY <1>1, <1>5, <1>7, <1>8, <1>9, FailingCall
<1>10. CASE /\ status' = "SUCCESS" /\ stored' = Append(stored, e)
            /\ path' = [path EXCEPT ![e] = p]
  <2>1. PICK b, m, W : b = Len(before) /\ m = New /\ W = Wanted(xml)
    OBVIOUS
  <2>2. /\ b \in Nat /\ m \in Nat /\ Len(stored) = b + m
        /\ \A w \in 1 .. m : b + w \in 1 .. Len(stored) /\ stored[b + w] \in InStorage
    BY <1>1, <1>4, <2>1, NewElements
  <2>3. /\ m + 1 \in 1 .. Len(W) /\ v = W[m + 1] /\ Unmoved(W, at, k, m)
        /\ Applied(at[m + 1], k + 1, W[m + 1]) = 0
        /\ \A w \in 1 .. Len(W) : at[w] = k + 1 <=> w = m + 1
    BY <2>1 DEF BeginningCall
  <2>4. /\ Len(stored') = Len(stored) + 1 /\ stored'[Len(stored) + 1] = e
        /\ \A i \in 1 .. Len(stored) : stored'[i] = stored[i]
    BY <1>4, <1>10, AppendProperties
  <2>5. New' = m + 1 /\ Len(before)' = b /\ Wanted(xml)' = W /\ stored'[b + (m + 1)] = e
    <3>1. Len(stored) + 1 = b + (m + 1) /\ (Len(stored) + 1) - b = m + 1
      BY <2>2
    <3> QED BY <2>1, <2>4, <3>1 DEF New, SameDocument
  <2>6. Configured(e, v, 0)'
    <3>1. /\ path'[e] = PathOf(v[1]) /\ name'[e] = v[2] /\ attached'[e] = {}
          /\ reference'[e] = None /\ styleOf'[e] = styles.object
      BY <1>2, <1>3, <1>4, <1>5, <1>10 DEF FileTypeOK
    <3>2. styles.object = StylesOf(xml').object
      BY <1>1 DEF Walked, SameDocument
    <3>3. {m_1 \in 1 .. 0 : Configures(v[1])[m_1].do = "test"} = {}
      OBVIOUS
    <3> QED BY <3>1, <3>2, <3>3 DEF Configured
  <2>7. ASSUME NEW w \in 1 .. m + 1
        PROVE  Configured(stored[b + w], W[w], Applied(at[w], k + 1, W[w]))'
    <3>1. CASE w = m + 1
      BY <2>3, <2>5, <2>6, <3>1
    <3>2. CASE w \in 1 .. m
      <4>1. Applied(at[w], k + 1, W[w]) = Applied(at[w], k, W[w])
        BY <2>3, <3>2 DEF Unmoved
      <4>2. PICK f, u, i : f = stored[b + w] /\ u = W[w] /\ i = Applied(at[w], k, W[w])
        OBVIOUS
      <4>3. Configured(f, u, i)
        BY <1>1, <2>1, <3>2, <4>2 DEF Walked
      <4>4. Stays(f) /\ xml' = xml
        BY <1>7, <2>2, <3>2, <4>2 DEF SameDocument
      <4>5. Configured(f, u, i)'
        BY <1>8, <4>3, <4>4, ConfiguredStays
      <4>6. stored'[b + w] = f
        BY <2>2, <2>4, <3>2, <4>2
      <4> QED BY <4>1, <4>2, <4>5, <4>6
    <3> QED BY <2>2, <3>1, <3>2
  <2>8. \A w \in 1 .. Len(W) : at[w] <= k + 1 <=> w <= m + 1
    <3> TAKE w \in 1 .. Len(W)
    <3>1. at[w] \in 1 .. Len(Steps(xml)) /\ (at[w] = k + 1 <=> w = m + 1)
      BY <1>1, <2>1, <2>3 DEF Laid
    <3>2. at[w] <= k <=> w <= m
      BY <1>1, <2>1 DEF Walked
    <3> QED BY <1>1, <2>2, <3>1, <3>2
  <2>9. /\ IsSeq(before)' /\ styles' = StylesOf(xml)'
        /\ \A i \in 1 .. b : stored'[i] = before'[i]
    <3>1. \A i \in 1 .. b : i \in 1 .. Len(stored) /\ stored[i] = before[i]
      BY <1>1, <2>1, <2>2 DEF Walked
    <3> QED BY <1>1, <1>5, <2>4, <3>1 DEF Walked, SameDocument
  <2>10. m + 1 \in 0 .. Len(W)
    BY <2>2, <2>3
  <2>11. Walked(at, k + 1)'
    BY <2>5, <2>7, <2>8, <2>9, <2>10 DEF Walked
  <2>12. CurrentIsLast'
    BY <1>3, <2>4 DEF CurrentIsLast
  <2> QED BY <1>10, <2>11, <2>12 DEF Goes
<1> QED BY <1>6, <1>9, <1>10

LEMMA BeginningCalls ==
  ASSUME ElementsInv, FileTypeOK, NEW at, NEW k \in 0 .. Len(Steps(xml)) - 1, Reading(at, k),
         SameDocument, UNCHANGED setup, NEW s, s = Head(todo),
         \/ s.do = "book" /\ BookElement(s.of)
         \/ s.do = "read" /\ ReadElement(s.file, s.of)
  PROVE  /\ Goes(at, k)
         /\ \/ UNCHANGED <<storage, element, furnished>>
            \/ \E p \in Paths, n \in ObjNames : Makes(p, n)
<1>1. Walked(at, k) /\ k \in Nat /\ k > 0
  BY NextCall, KindOfCall DEF Reading
<1>2. BeginningCall(s, Wanted(xml), at, k, New)
  BY KindOfCall
<1>3. PICK v : v = Wanted(xml)[New + 1]
  OBVIOUS
<1>4. Begins(s, v)
  BY <1>2, <1>3 DEF BeginningCall
<1>5. PICK i, n : i = v[1] /\ n = v[2]
  OBVIOUS
<1>6. IsItem(i) /\ PathOf(i) \in Paths
  BY <1>4, <1>5, ElementsAssumption DEF Begins, IsItem, PathOf
<1>7. UNCHANGED <<references, styles>>
  BY DEF setup
<1>8. ASSUME status' # "SUCCESS", UNCHANGED <<storage, element, furnished>>
      PROVE  Goes(at, k)
  <2>1. /\ UNCHANGED <<stored, styles>> /\ ReferencesGrow /\ \A e \in InStorage : Stays(e)
    BY <1>7, <1>8 DEF storage, element, furnished, Stays, ReferencesGrow
  <2> QED BY <1>1, <1>8, <2>1, FailingCall
<1>9. ASSUME Makes(PathOf(i), n), n \in ObjNames
      PROVE  /\ Goes(at, k)
             /\ \E p \in Paths, m \in ObjNames : Makes(p, m)
  BY <1>1, <1>2, <1>3, <1>5, <1>6, <1>9, MakingCalls
<1>10. CASE s.do = "book"
  <2>1. s.of = i /\ n = i.name
    BY <1>4, <1>5, <1>10 DEF Begins
  <2>2. \/ status' # "SUCCESS" /\ UNCHANGED <<storage, element, furnished>>
        \/ i.name # Unset /\ Makes(PathOf(i), i.name)
    BY <1>10, <2>1 DEF BookElement, Returns, Return
  <2> QED BY <1>6, <1>8, <1>9, <2>1, <2>2 DEF IsItem
<1>11. CASE s.do = "read"
  <2>1. PICK f : f = s.file
    OBVIOUS
  <2>2. s.of = i /\ n = RootFiles[f][<<PathOf(i), i.name>>]
    BY <1>4, <1>5, <1>11, <2>1 DEF Begins
  <2>3. \/ status' # "SUCCESS" /\ UNCHANGED <<storage, element, furnished>>
        \/ Has(f, <<PathOf(i), i.name>>) /\ Makes(PathOf(i), n)
    BY <1>11, <2>1, <2>2 DEF ReadElement, Returns, Return
  <2>4. Has(f, <<PathOf(i), i.name>>) => n \in ObjNames
    BY <2>2, StorageFilesAssumption DEF Has, Range
  <2> QED BY <1>8, <1>9, <2>3, <2>4
<1> QED BY <1>10, <1>11
(***************************************************************************)
(* What every call keeps, of the walk or of others.                        *)
(***************************************************************************)
LEMMA OthersStayStored ==
  ASSUME ElementsInv, StoredOnce, NEW S, Keeps(S)
  PROVE  StoredOnce'
<1> DEFINE kept == {i \in DOMAIN stored : stored[i] \in S}
<1>1. PICK from \in [1 .. Cardinality(kept) -> kept] :
        /\ \A i, j \in DOMAIN from : i < j => from[i] < from[j]
        /\ stored' = [i \in DOMAIN from |-> stored[from[i]]]
  BY DEF Keeps
<1>2. kept \subseteq DOMAIN stored /\ kept \subseteq Nat
  BY StoredElements DEF ElementsInv
<1> HIDE DEF kept
<1>3. /\ DOMAIN stored' = 1 .. Cardinality(kept) /\ DOMAIN from = 1 .. Cardinality(kept)
      /\ \A i \in DOMAIN stored' : stored'[i] = stored[from[i]]
  BY <1>1
<1>4. ASSUME NEW i \in DOMAIN stored', NEW j \in DOMAIN stored', stored'[i] = stored'[j]
      PROVE  i = j
  <2>1. from[i] = from[j]
    <3>1. from[i] \in DOMAIN stored /\ from[j] \in DOMAIN stored
      BY <1>2, <1>3
    <3> QED BY <1>3, <1>4, <3>1 DEF StoredOnce
  <2>2. from[i] \in Nat /\ i \in Int /\ j \in Int
    BY <1>2, <1>3
  <2>3. (i < j => from[i] < from[j]) /\ (j < i => from[j] < from[i])
    BY <1>1, <1>3
  <2> QED BY <2>1, <2>2, <2>3
<1> QED BY <1>4 DEF StoredOnce

LEMMA ElementsUnchanged ==
  ASSUME FilesOK, UNCHANGED <<storage, element>>,
         DOMAIN styleOf' = Elements, DOMAIN reference' = Elements, created' \subseteq Tests
  PROVE  FilesOK'
<1>1. ElementsInv'
  BY ElementsStay DEF FilesOK
<1>2. touched' = {} /\ stored' = stored
  BY DEF FilesOK, storage, element
<1> QED BY <1>1, <1>2 DEF FilesOK, FileTypeOK, StoredOnce

LEMMA ElementIsMade ==
  ASSUME FilesOK, NEW p \in Paths, NEW n \in ObjNames, Makes(p, n), UNCHANGED created
  PROVE  FilesOK'
<1>1. PICK e \in Elements :
        /\ Book(e, p, n) /\ styleOf' = [styleOf EXCEPT ![e] = styles.object]
        /\ reference' = [reference EXCEPT ![e] = None]
  BY DEF Makes, Styled
<1>2. ElementsInv'
  BY <1>1, BooksOne DEF FilesOK
<1>3. /\ touched' = touched \ {e} /\ e \notin handles
      /\ \/ UNCHANGED stored
         \/ stored' = Append(stored, e)
  BY <1>1 DEF Book, Create, AddToStorage, storage
<1>4. FileTypeOK'
  BY <1>1 DEF FilesOK, FileTypeOK
<1>5. StoredOnce'
  <2>1. CASE UNCHANGED stored
    BY <2>1 DEF FilesOK, StoredOnce
  <2>2. CASE stored' = Append(stored, e)
    <3>1. /\ stored \in Seq(handles \union {e}) /\ InStorage \subseteq handles
          /\ InStorage = {stored[i] : i \in DOMAIN stored}
          /\ DOMAIN stored = 1 .. Len(stored) /\ Len(stored) \in Nat
      BY StoredElements, SeqMonotonic DEF FilesOK, ElementsInv, ElementsOK
    <3>2. /\ stored' \in Seq(handles \union {e}) /\ Len(stored') = Len(stored) + 1
          /\ \A i \in 1 .. Len(stored) : stored'[i] = stored[i]
          /\ stored'[Len(stored) + 1] = e
      BY <2>2, <3>1, AppendProperties
    <3>3. DOMAIN stored' = 1 .. Len(stored) + 1
      BY <3>2, LenProperties
    <3>4. \A i \in 1 .. Len(stored) : stored[i] # e
      BY <1>3, <3>1
    <3>5. \A i \in 1 .. Len(stored) + 1 : i \in 1 .. Len(stored) \/ i = Len(stored) + 1
      BY <3>1
    <3>6. \A i, j \in 1 .. Len(stored) : stored[i] = stored[j] => i = j
      BY <3>1 DEF FilesOK, StoredOnce
    <3> QED BY <3>2, <3>3, <3>4, <3>5, <3>6 DEF StoredOnce
  <2> QED BY <1>3, <2>1, <2>2
<1> QED BY <1>2, <1>3, <1>4, <1>5 DEF FilesOK

LEMMA MeanwhileKeeps ==
  ASSUME FilesOK, Meanwhile
  PROVE  FilesOK'
<1>1. UNCHANGED <<created, styleOf, reference>>
  BY DEF Meanwhile, setup, furnished
<1>2. FileTypeOK'
  BY <1>1 DEF FilesOK, FileTypeOK
<1>3. CASE \E e \in Elements : Drop(e)
  <2>1. Next /\ UNCHANGED <<stored, touched>>
    BY <1>3 DEF Next, Drop, storage
  <2>2. ElementsInv'
    BY <2>1, ElementsStep DEF FilesOK
  <2> QED BY <1>2, <2>1, <2>2 DEF FilesOK, StoredOnce
<1>4. CASE \E p \in Paths, n \in ObjNames : RemoveMonitorElement(p, n)
  <2>1. PICK p \in Paths, n \in ObjNames : RemoveMonitorElement(p, n)
    BY <1>4
  <2>2. Next
    BY <2>1 DEF Next
  <2>3. ElementsInv'
    BY <2>2, ElementsStep DEF FilesOK
  <2>4. touched' = touched
    BY <2>1 DEF RemoveMonitorElement, element
  <2>5. UNCHANGED stored \/ Keeps(InStorage \ {Find(p, n)})
    BY <2>1 DEF RemoveMonitorElement
  <2>6. StoredOnce'
    <3>1. CASE UNCHANGED stored
      BY <3>1 DEF FilesOK, StoredOnce
    <3>2. CASE Keeps(InStorage \ {Find(p, n)})
      BY <3>2, OthersStayStored DEF FilesOK
    <3> QED BY <2>5, <3>1, <3>2
  <2> QED BY <1>2, <2>3, <2>4, <2>6 DEF FilesOK
<1> QED BY <1>3, <1>4 DEF Meanwhile
(***************************************************************************)
(* Every step keeps FileInv.                                               *)
(***************************************************************************)
LEMMA WalkContinues ==
  ASSUME ElementsInv, NEW at, NEW k \in 0 .. Len(Steps(xml)) - 1, Reading(at, k),
         SameDocument, Goes(at, k), Continues
  PROVE  /\ call' = "reading" => BeingRead'
         /\ call' = "done" => Finished'
         /\ call' \in {"reading", "done"}
<1>1. PICK S, W, N : S = Steps(xml) /\ W = Wanted(xml) /\ N = Setup(xml)
  OBVIOUS
<1>2. /\ S = Steps(xml)' /\ W = Wanted(xml)' /\ N = Setup(xml)' /\ xml' = xml
  BY <1>1 DEF SameDocument
<1>3. /\ Laid(N, S, W, at) /\ at \in [1 .. Len(W) -> 1 .. Len(S)] /\ xml \in StorageFiles
  BY <1>1 DEF Reading, Laid
<1>4. /\ Tail(todo) = SubSeq(S, (k + 1) + 1, Len(S)) /\ Len(S) \in Nat /\ k \in Nat
      /\ Tail(todo) = <<>> <=> k + 1 = Len(S)
      /\ k \in 0 .. Len(S) - 1
  BY <1>1, NextCall
<1>5. PICK l \in {k, k + 1} :
        Walked(at, l)' /\ (status' = "SUCCESS" => l = k + 1 /\ CurrentIsLast')
  BY DEF Goes
<1>6. l \in 0 .. Len(S)
  BY <1>4, <1>5
<1>7. CASE status' = "SUCCESS"
  <2>1. l = k + 1 /\ todo' = Tail(todo)
    BY <1>5, <1>7 DEF Continues
  <2>2. CASE k + 1 = Len(S)
    <3>1. call' = "done"
      BY <1>4, <2>1, <2>2 DEF Continues
    <3>2. Finished'
      BY <1>2, <1>3, <1>5, <1>6, <2>1, <2>2 DEF Finished
    <3> QED BY <3>1, <3>2
  <2>3. CASE k + 1 # Len(S)
    <3>1. call' = "reading"
      BY <1>4, <2>1, <2>3 DEF Continues
    <3>2. l \in 0 .. Len(S) - 1
      BY <1>4, <2>1, <2>3
    <3>3. Reading(at, l)'
      BY <1>2, <1>3, <1>4, <1>5, <1>7, <2>1 DEF Reading
    <3>4. BeingRead'
      BY <1>2, <1>3, <3>2, <3>3 DEF BeingRead
    <3> QED BY <3>1, <3>4
  <2> QED BY <2>2, <2>3
<1>8. CASE status' # "SUCCESS"
  <2>1. call' = "done"
    BY <1>8 DEF Continues
  <2>2. Finished'
    BY <1>2, <1>3, <1>5, <1>6, <1>8 DEF Finished
  <2> QED BY <2>1, <2>2
<1> QED BY <1>7, <1>8

LEMMA WalkStep ==
  ASSUME FileInv, Walks
  PROVE  FileInv'
<1>1. FilesOK /\ ElementsInv /\ touched = {} /\ FileTypeOK /\ StoredOnce /\ call = "reading"
  BY DEF FileInv, FilesOK, Walks
<1>2. PICK at \in [1 .. Len(Wanted(xml)) -> 1 .. Len(Steps(xml))],
           k \in 0 .. Len(Steps(xml)) - 1 : Reading(at, k)
  BY <1>1 DEF FileInv, BeingRead
<1> DEFINE s == Head(todo)
<1>3. s = Head(todo)
  OBVIOUS
<1>4. ASSUME FilesOK', Goes(at, k), Continues, UNCHANGED document PROVE FileInv'
  <2>1. SameDocument
    BY <1>4 DEF document, SameDocument
  <2> QED BY <1>1, <1>2, <1>4, <2>1, WalkContinues DEF FileInv
<1>5. ASSUME UNCHANGED <<storage, element, furnished>>, created' \subseteq Tests PROVE FilesOK'
  <2>1. DOMAIN styleOf' = Elements /\ DOMAIN reference' = Elements
    BY <1>1, <1>5 DEF FileTypeOK, furnished
  <2> QED BY <1>1, <1>5, <2>1, ElementsUnchanged
<1>6. ASSUME \/ s.do = "style" /\ ParseStyle(s.of) /\ UNCHANGED <<created, references>>
             \/ s.do = "file" /\ AddReferenceFile(s.of) /\ UNCHANGED <<created, styles>>
             \/ s.do = "create" /\ CreateTest(s.of) /\ UNCHANGED <<references, styles>>,
             Continues, UNCHANGED <<document, furnished>>
      PROVE  FileInv'
  <2>1. UNCHANGED <<storage, element>>
    BY <1>6 DEF ParseStyle, AddReferenceFile, CreateTest, Returns
  <2>2. created' \subseteq Tests
    <3>1. CASE s.do = "create" /\ CreateTest(s.of)
      <4>1. s \in Setup(xml)
        BY <1>1, <1>2, <1>3, <3>1, KindOfCall
      <4>2. \E t \in Range(xml.tests) : s = [do |-> "create", of |-> t]
        BY <3>1, <4>1 DEF Setup, Attributes
      <4>3. s.of.name \in Tests \union {Unset}
        BY <1>2, <4>2, StorageFilesAssumption DEF Reading
      <4>4. created' = created \/ (s.of.name # Unset /\ created' = created \union {s.of.name})
        BY <3>1 DEF CreateTest
      <4> QED BY <1>1, <4>3, <4>4 DEF FileTypeOK
    <3>2. CASE UNCHANGED created
      BY <1>1, <3>2 DEF FileTypeOK
    <3> QED BY <1>6, <3>1, <3>2
  <2>3. FilesOK'
    BY <1>5, <1>6, <2>1, <2>2
  <2>4. SameDocument
    BY <1>6 DEF document, SameDocument
  <2>5. Goes(at, k)
    BY <1>1, <1>2, <1>3, <1>6, <2>1, <2>4, SetupCalls
  <2> QED BY <1>4, <1>6, <2>3, <2>5
<1>7. ASSUME \/ s.do = "book" /\ BookElement(s.of)
             \/ s.do = "read" /\ ReadElement(s.file, s.of),
             Continues, UNCHANGED <<document, setup>>
      PROVE  FileInv'
  <2>1. SameDocument /\ UNCHANGED created /\ created' \subseteq Tests
    BY <1>1, <1>7 DEF document, setup, SameDocument, FileTypeOK
  <2>2. /\ Goes(at, k)
        /\ \/ UNCHANGED <<storage, element, furnished>>
           \/ \E p \in Paths, n \in ObjNames : Makes(p, n)
    BY <1>1, <1>2, <1>3, <1>7, <2>1, BeginningCalls
  <2>3. FilesOK'
    BY <1>1, <1>5, <2>1, <2>2, ElementIsMade
  <2> QED BY <1>4, <1>7, <2>2, <2>3
<1>8. ASSUME s.do = "reference", AttachReference(s.of), Continues, UNCHANGED <<document, setup>>
      PROVE  FileInv'
  <2>1. SameDocument /\ created' \subseteq Tests
    BY <1>1, <1>8 DEF document, setup, SameDocument, FileTypeOK
  <2>2. Goes(at, k)
    BY <1>1, <1>2, <1>3, <1>8, <2>1, ReferenceCalls
  <2>3. /\ UNCHANGED <<storage, element>>
        /\ DOMAIN styleOf' = Elements /\ DOMAIN reference' = Elements
    BY <1>1, <1>8 DEF AttachReference, Returns, FileTypeOK, furnished
  <2>4. FilesOK'
    BY <1>1, <2>1, <2>3, ElementsUnchanged
  <2> QED BY <1>4, <1>8, <2>2, <2>4
<1>9. ASSUME s.do = "test", AttachTest(s.of), Continues, UNCHANGED <<document, setup, furnished>>
      PROVE  FileInv'
  <2>1. SameDocument /\ UNCHANGED created
    BY <1>9 DEF document, setup, SameDocument
  <2>2. Goes(at, k)
    BY <1>1, <1>2, <1>3, <1>9, <2>1, TestCalls
  <2>3. FilesOK'
    <3>1. CASE s.of \notin created
      <4>1. UNCHANGED <<storage, element>> /\ created' \subseteq Tests
        BY <1>1, <1>9, <2>1, <3>1 DEF AttachTest, Returns, FileTypeOK
      <4> QED BY <1>5, <1>9, <4>1
    <3>2. CASE s.of \in created
      <4>1. s.of \in Tests /\ AddQualityTest(path[current], name[current], s.of)
        BY <1>1, <1>9, <3>2 DEF AttachTest, FileTypeOK
      <4>2. ElementsInv'
        BY <1>1, <4>1, TestsAreChanged
      <4>3. UNCHANGED <<stored, touched>>
        BY <4>1 DEF AddQualityTest, storage
      <4>4. FileTypeOK'
        BY <1>1, <1>9, <2>1 DEF FileTypeOK, furnished
      <4> QED BY <1>1, <4>2, <4>3, <4>4 DEF FilesOK, StoredOnce
    <3> QED BY <3>1, <3>2
  <2> QED BY <1>4, <1>9, <2>2, <2>3
<1>10. ASSUME s.do = "attribute", Returns(IF s.of = "" THEN "NOT_FOUND" ELSE "SUCCESS"),
              Continues, UNCHANGED <<document, setup, furnished>>
       PROVE  FileInv'
  <2>1. /\ SameDocument /\ UNCHANGED <<storage, element, references, styles>>
        /\ created' \subseteq Tests
    BY <1>1, <1>10 DEF document, setup, SameDocument, Returns, FileTypeOK
  <2>2. Goes(at, k)
    BY <1>1, <1>2, <1>3, <1>10, <2>1, SetupCalls
  <2>3. FilesOK'
    BY <1>5, <1>10, <2>1
  <2> QED BY <1>4, <1>10, <2>2, <2>3
<1>11. ASSUME Crashes(s.of) PROVE FileInv'
  <2>1. call' = "undefined" /\ UNCHANGED <<storage, element, furnished, created>>
    BY <1>11 DEF Crashes, vars, setup
  <2>2. FilesOK'
    BY <1>1, <1>5, <2>1 DEF FileTypeOK
  <2> QED BY <2>1, <2>2 DEF FileInv
<1> DEFINE Sets == \/ s.do = "style" /\ ParseStyle(s.of) /\ UNCHANGED <<created, references>>
                   \/ s.do = "file" /\ AddReferenceFile(s.of) /\ UNCHANGED <<created, styles>>
                   \/ s.do = "create" /\ CreateTest(s.of) /\ UNCHANGED <<references, styles>>
           Tries == \/ s.do = "book" /\ BookElement(s.of)
                    \/ s.do = "read" /\ ReadElement(s.file, s.of)
           Fails == Returns(IF s.of = "" THEN "NOT_FOUND" ELSE "SUCCESS")
<1>12. \/ Sets /\ Continues /\ UNCHANGED <<document, furnished>>
       \/ (Tries \/ (s.do = "reference" /\ AttachReference(s.of)))
            /\ Continues /\ UNCHANGED <<document, setup>>
       \/ ((s.do = "test" /\ AttachTest(s.of)) \/ (s.do = "attribute" /\ Fails))
            /\ Continues /\ UNCHANGED <<document, setup, furnished>>
       \/ Crashes(s.of)
  BY Zenon DEF Walks
<1>13. Sets /\ Continues /\ UNCHANGED <<document, furnished>> => FileInv'
  BY <1>6
<1>14. Tries /\ Continues /\ UNCHANGED <<document, setup>> => FileInv'
  BY <1>7
<1>15. s.do = "attribute" /\ Fails /\ Continues /\ UNCHANGED <<document, setup, furnished>> => FileInv'
  BY <1>10
<1> HIDE DEF Sets, Tries, Fails
<1> QED BY <1>8, <1>9, <1>11, <1>12, <1>13, <1>14, <1>15

LEMMA FileBegins ==
  ASSUME FilesOK, NEW x \in StorageFiles, ParseStorage(x)
  PROVE  FileInv'
<1>1. /\ call' = "reading" /\ xml' = x /\ todo' = Steps(x) /\ before' = stored
      /\ UNCHANGED <<storage, element, created, styleOf, reference>>
  BY DEF ParseStorage, vars, setup, furnished
<1>2. FilesOK'
  BY <1>1, ElementsUnchanged DEF FilesOK, FileTypeOK
<1>3. PICK S, W, N : S = Steps(x) /\ W = Wanted(x) /\ N = Setup(x)
  OBVIOUS
<1>4. /\ IsSeq(S) /\ Len(S) >= 1
      /\ \E at : Laid(N, S, W, at)
  BY <1>3, StepsLaid
<1>5. PICK at : Laid(N, S, W, at)
  BY <1>4
<1>6. /\ at \in [1 .. Len(W) -> 1 .. Len(S)] /\ IsSeq(W)
      /\ Len(S) \in Nat /\ Len(W) \in Nat
  BY <1>4, <1>5, SizeIsNat DEF Laid
<1>7. stored' = stored /\ IsSeq(stored) /\ Len(stored) \in Nat
  <2>1. stored \in Seq(handles)
    BY DEF FilesOK, ElementsInv, ElementsOK
  <2>2. Len(stored) \in Nat /\ stored = [i \in 1 .. Len(stored) |-> stored[i]]
    BY <2>1, LenProperties
  <2> QED BY <1>1, <2>2, MadeSeq DEF storage
<1>8. New' = 0
  BY <1>1, <1>7 DEF New
<1>9. Walked(at, 0)'
  <2>1. \A w \in 1 .. Len(W) : ~(at[w] <= 0) /\ ~(w <= 0)
    BY <1>6
  <2>2. 0 \in 0 .. Len(W) /\ 1 .. 0 = {}
    BY <1>6
  <2> QED BY <1>1, <1>3, <1>7, <1>8, <2>1, <2>2 DEF Walked
<1>10. CurrentIsLast'
  BY <1>8 DEF CurrentIsLast
<1>11. S = SubSeq(S, 0 + 1, Len(S))
  <2>1. S \in Seq(Range(S))
    BY <1>4 DEF IsSeq
  <2> QED BY <1>6, <2>1, SubSeqFull
<1>12. Reading(at, 0)'
  BY <1>1, <1>3, <1>5, <1>9, <1>10, <1>11 DEF Reading
<1>13. 0 \in 0 .. Len(S) - 1
  BY <1>4, <1>6
<1>14. BeingRead'
  BY <1>1, <1>3, <1>6, <1>12, <1>13 DEF BeingRead
<1> QED BY <1>1, <1>2, <1>14 DEF FileInv

LEMMA FileStep == FileInv /\ [FileNext]_<<vars, fileVars>> => FileInv'
<1> SUFFICES ASSUME FileInv, [FileNext]_<<vars, fileVars>> PROVE FileInv'
  OBVIOUS
<1>1. FilesOK
  BY DEF FileInv
<1>2. ASSUME NEW x \in StorageFiles, ParseStorage(x) PROVE FileInv'
  BY <1>1, <1>2, FileBegins
<1>3. CASE Walks
  BY <1>3, WalkStep
<1>4. CASE Meanwhile
  <2>1. call' = "none"
    BY <1>4 DEF Meanwhile
  <2> QED BY <1>1, <1>4, <2>1, MeanwhileKeeps DEF FileInv
<1>5. CASE UNCHANGED <<vars, fileVars>>
  <2>1. /\ UNCHANGED <<storage, element, status>>
        /\ UNCHANGED <<call, todo, xml, before, current, created, references, styles, styleOf,
                       reference>>
    BY <1>5 DEF vars, fileVars, document, walk, setup, furnished
  <2>2. FilesOK'
    BY <1>1, <2>1, ElementsUnchanged DEF FilesOK, FileTypeOK
  <2>3. UNCHANGED <<stored, path, name, attached>>
    BY <2>1 DEF storage, element
  <2>4. ASSUME NEW at, NEW k, Walked(at, k) PROVE Walked(at, k)'
    <3>1. New' = New /\ xml' = xml /\ ReferencesGrow /\ \A e \in InStorage : Stays(e)
      BY <2>1, <2>3 DEF New, Stays, ReferencesGrow
    <3>2. k > 0 => styles' = StylesOf(xml)
      BY <2>1, <2>4 DEF Walked
    <3> QED BY <1>1, <2>1, <2>3, <2>4, <3>1, <3>2, WalkGoesOn DEF FilesOK
  <2>5. call' = "reading" => BeingRead'
    BY <2>1, <2>3, <2>4 DEF FileInv, BeingRead, Reading, CurrentIsLast, New
  <2>6. call' = "done" => Finished'
    BY <2>1, <2>4 DEF FileInv, Finished
  <2> QED BY <2>2, <2>5, <2>6 DEF FileInv
<1> QED BY <1>2, <1>3, <1>4, <1>5 DEF FileNext

LEMMA FileStart == Init /\ FileInit => FileInv
<1> SUFFICES ASSUME Init, FileInit PROVE FileInv
  OBVIOUS
<1>1. ElementsInv
  BY ElementsStart
<1>2. touched = {} /\ FileTypeOK
  BY DEF Init, FileInit, FileTypeOK
<1>3. StoredOnce
  BY EmptySeq DEF Init, StoredOnce
<1> QED BY <1>1, <1>2, <1>3 DEF FileInv, FilesOK, FileInit

LEMMA FilesAreRead == FileInv => StorageFilesAreReadInOrder
<1> SUFFICES ASSUME FileInv, call = "done" PROVE StorageFilesAreReadInOrder
  BY DEF StorageFilesAreReadInOrder
<1>1. PICK at \in [1 .. Len(Wanted(xml)) -> 1 .. Len(Steps(xml))], k \in 0 .. Len(Steps(xml)) :
        /\ Laid(Setup(xml), Steps(xml), Wanted(xml), at) /\ Walked(at, k)
        /\ status = "SUCCESS" => k = Len(Steps(xml))
  BY DEF FileInv, Finished
<1> QED BY <1>1, WholeIsRead DEF FileInv, FilesOK

(***************************************************************************)
(* For any storage files, ROOT files, classes and themes, however often    *)
(* files are read and whatever is removed in between: the elements that a  *)
(* file made stand in its order, each with its own style, reference and    *)
(* tests, up to the one at which reading failed                            *)
(* (MonitorElementManager.h:875-929, 993-1020).                            *)
(***************************************************************************)
THEOREM StorageFilesStayInOrder == FileSpec => []StorageFilesAreReadInOrder
BY FileStart, FileStep, FilesAreRead, PTL DEF FileSpec

(***************************************************************************)
(* Files never hide an element behind another one of the same place and    *)
(* name either, whatever they ask for (MonitorElementManager.h:715-727).   *)
(***************************************************************************)
THEOREM FilesHideNothing == FileSpec => []FoundByPathAndName
<1>1. FileInv => FoundByPathAndName
  BY UntouchedAreFound DEF FileInv, FilesOK
<1> QED BY <1>1, FileStart, FileStep, PTL DEF FileSpec
=============================================================================
