---------------------------- MODULE MonitorElements ----------------------------
(***************************************************************************)
(* MonitorElementManager (MonitorElementManager.cc and .h): the elements   *)
(* stored in its directories, the quality tests attached to them, and the  *)
(* reports of running these.                                               *)
(*                                                                         *)
(* The name of an element is the name of the ROOT object it holds now; its *)
(* path is the one it was given when it was stored.  A caller keeps a      *)
(* handle on an element after it has left the storage, and can rename it   *)
(* or give it another object at any time.  Directories behave as Namespace *)
(* says; paths are absolute here, and the current directory is the root.   *)
(***************************************************************************)
EXTENDS Naturals, FiniteSets, SequencesExt

CONSTANTS
  Elements,   \* MonitorElement objects (bounds how many exist at once)
  Paths,      \* the directories, closed under the parent directory
  ObjNames,   \* names of ROOT objects
  Tests,      \* the quality tests that were created, by name
  Renamers,   \* elements whose name a caller changes
  NoElement

Unset == <<"">>   \* the empty path, or the name of an element without object

ASSUME ElementsAssumption ==
  /\ <<>> \in Paths /\ Unset \notin Paths /\ Unset \notin ObjNames
  /\ \A p \in Paths : p = <<>> \/ Front(p) \in Paths
  /\ NoElement \notin Elements
  /\ Renamers \subseteq Elements

VARIABLES
  dirs,      \* the directories that exist
  stored,    \* the elements in the storage, in the order they were added
  dirOf,     \* the directory of a stored element
  handles,   \* the elements that exist: stored, or held by a caller
  name,      \* name(): of the object held
  path,      \* m_path
  attached,  \* m_qualityTests
  reports,   \* the QReportStorage that the last operation filled: which
             \* element the report of a key is of; empty before the operation
  added,     \* <<e, t>>: the reports that were added to it
  touched,   \* elements renamed, reset or given an object since they exist
  status

storage == <<dirs, stored, dirOf>>
element == <<handles, name, path, attached, touched>>
vars == <<storage, element, reports, added, status>>

Keys == (Paths \cup {Unset}) \X (ObjNames \cup {Unset}) \X Tests

NoReport == [k \in Keys |-> NoElement]

Return(s)  == status' = s
NoResults  == reports' = NoReport /\ added' = {}

Init ==
  /\ dirs = {<<>>} /\ stored = <<>>
  /\ dirOf = [e \in Elements |-> <<>>]
  /\ handles = {}
  /\ name = [e \in Elements |-> Unset]
  /\ path = [e \in Elements |-> Unset]
  /\ attached = [e \in Elements |-> {}]
  /\ reports = NoReport /\ added = {}
  /\ touched = {} /\ status = "SUCCESS"

InStorage == Range(stored)

\* findObject(path, name): the first element of the directory with this name.
Find(p, n) ==
  LET hits == {i \in DOMAIN stored : dirOf[stored[i]] = p /\ name[stored[i]] = n}
  IN  IF hits = {} THEN NoElement ELSE stored[Min(hits)]

\* Only the elements in S stay in the storage, in their order.
Keeps(S) ==
  LET kept == {i \in DOMAIN stored : stored[i] \in S}
  IN \E from \in [1 .. Cardinality(kept) -> kept] :
       /\ \A i, j \in DOMAIN from : i < j => from[i] < from[j]
       /\ stored' = [i \in DOMAIN from |-> stored[from[i]]]
-----------------------------------------------------------------------------
\* A new element with an object called n, before it is stored.
Create(e, n) ==
  /\ e \in Elements \ handles
  /\ handles' = handles \cup {e}
  /\ name' = [name EXCEPT ![e] = n]
  /\ attached' = [attached EXCEPT ![e] = {}]
  /\ touched' = touched \ {e}

\* addToStorage() without its check.
NeverBooked(p, n) == FALSE

IsBooked(p, n) == Find(p, n) # NoElement

AddToStorage(e, p, n) ==
  IF IsBooked(p, n)
  THEN /\ Return("ALREADY_PRESENT")
       /\ path' = [path EXCEPT ![e] = Unset]
       /\ UNCHANGED storage
  ELSE /\ Return("SUCCESS")
       /\ dirs' = dirs \cup {q \in Paths : IsPrefix(q, p)}
       /\ stored' = Append(stored, e)
       /\ dirOf' = [dirOf EXCEPT ![e] = p]
       /\ path' = [path EXCEPT ![e] = p]

\* book...(), addMonitorElement(), handleMonitorElement(), readMonitorElement():
\* the caller gets the element also when it cannot be stored.
Book(e, p, n) == Create(e, n) /\ AddToStorage(e, p, n) /\ NoResults

\* A class that elements cannot have, an object that ROOT does not make, or one
\* that is not in the file: no element is created.
NotBooked ==
  /\ \E s \in {"NOT_ALLOWED", "FAILURE", "NOT_FOUND"} : Return(s)
  /\ UNCHANGED <<storage, element>> /\ NoResults

RemoveMonitorElement(p, n) ==
  /\ IF Find(p, n) = NoElement
     THEN Return("NOT_FOUND") /\ UNCHANGED stored
     ELSE Return("SUCCESS") /\ Keeps(InStorage \ {Find(p, n)})
  /\ UNCHANGED <<dirs, dirOf, element>> /\ NoResults

Mkdir(p) ==
  /\ p \in Paths
  /\ dirs' = dirs \cup {q \in Paths : IsPrefix(q, p)}
  /\ Return("SUCCESS")
  /\ UNCHANGED <<stored, dirOf, element>> /\ NoResults

\* rmdir(): the elements below the directory leave the storage with it.
Rmdir(p) ==
  /\ p \in dirs \ {<<>>}
  /\ dirs' = {q \in dirs : ~IsPrefix(p, q)}
  /\ Keeps({e \in InStorage : ~IsPrefix(p, dirOf[e])})
  /\ Return("SUCCESS")
  /\ UNCHANGED <<dirOf, element>> /\ NoResults

\* reset() of each stored element: its object, path and tests are gone.
ResetMonitorElements ==
  /\ name' = [e \in Elements |-> IF e \in InStorage THEN Unset ELSE name[e]]
  /\ path' = [e \in Elements |-> IF e \in InStorage THEN Unset ELSE path[e]]
  /\ attached' = [e \in Elements |-> IF e \in InStorage THEN {} ELSE attached[e]]
  /\ touched' = touched \cup InStorage
  /\ UNCHANGED <<storage, handles, status>> /\ NoResults

\* MonitorElement::setName(), by a caller; it throws without an object.
SetName(e, n) ==
  /\ e \in handles \cap Renamers /\ name[e] # Unset
  /\ name' = [name EXCEPT ![e] = n]
  /\ touched' = touched \cup {e}
  /\ UNCHANGED <<storage, handles, path, attached, status>> /\ NoResults

\* MonitorElement::setMonitorObject() on an element that was reset.
SetObject(e, n) ==
  /\ e \in handles /\ name[e] = Unset
  /\ name' = [name EXCEPT ![e] = n]
  /\ touched' = touched \cup {e}
  /\ UNCHANGED <<storage, handles, path, attached, status>> /\ NoResults

\* The last handle on an element that is not stored is dropped.
Drop(e) ==
  /\ e \in handles \ InStorage
  /\ handles' = handles \ {e}
  /\ UNCHANGED <<storage, name, path, attached, touched, status>> /\ NoResults
-----------------------------------------------------------------------------
AddQualityTest(p, n, t) ==
  /\ LET e == Find(p, n)
     IN  IF e = NoElement THEN Return("NOT_FOUND") /\ UNCHANGED attached
         ELSE IF t \in attached[e] THEN Return("ALREADY_PRESENT") /\ UNCHANGED attached
         ELSE Return("SUCCESS") /\ attached' = [attached EXCEPT ![e] = @ \cup {t}]
  /\ UNCHANGED <<storage, handles, name, path, touched>> /\ NoResults

RemoveQualityTest(p, n, t) ==
  /\ LET e == Find(p, n)
     IN  IF e = NoElement \/ t \notin attached[e]
         THEN Return("NOT_FOUND") /\ UNCHANGED attached
         ELSE Return("SUCCESS") /\ attached' = [attached EXCEPT ![e] = @ \ {t}]
  /\ UNCHANGED <<storage, handles, name, path, touched>> /\ NoResults

\* The key of a report that does not tell directories apart.
KeyByName(e, t) == <<Unset, name[e], t>>

\* The key of the report of test t on e: fillBasicInfo() and addReport().
Key(e, t) == <<path[e], name[e], t>>

Due(S) == UNION {{<<e, t>> : t \in attached[e]} : e \in S}

\* The reports in R are added, one by one: of those with the same key the last
\* one stays.
AddReports(R) ==
  /\ added' = R
  /\ \E last \in [{Key(r[1], r[2]) : r \in R} -> {r[1] : r \in R}] :
       /\ \A k \in DOMAIN last : \E r \in R : r[1] = last[k] /\ Key(r[1], r[2]) = k
       /\ reports' = [k \in Keys |-> IF k \in DOMAIN last THEN last[k] ELSE NoElement]

\* A test of e lets an exception out (enoughStatistics() is called outside of
\* the try block), after some of the other elements were visited.
FailedRun(e, visited) ==
  /\ attached[e] # {} /\ visited \subseteq InStorage \ {e}
  /\ AddReports(Due(visited))
  /\ Return("FAILURE")

RunQualityTests ==
  /\ \/ AddReports(Due(InStorage)) /\ Return("SUCCESS")
     \/ \E e \in InStorage, visited \in SUBSET InStorage : FailedRun(e, visited)
  /\ UNCHANGED <<storage, element>>

RunElement(p, n) ==
  /\ LET e == Find(p, n)
     IN  \/ e = NoElement /\ Return("NOT_FOUND") /\ NoResults
         \/ e # NoElement /\ AddReports(Due({e})) /\ Return("SUCCESS")
         \/ e # NoElement /\ attached[e] # {} /\ Return("FAILURE") /\ NoResults
  /\ UNCHANGED <<storage, element>>

RunQualityTest(p, n, t) ==
  /\ LET e == Find(p, n)
     IN  IF e = NoElement \/ t \notin attached[e]
         THEN Return("NOT_FOUND") /\ NoResults
         ELSE \/ AddReports({<<e, t>>}) /\ Return("SUCCESS")
              \/ Return("exception") /\ NoResults
  /\ UNCHANGED <<storage, element>>

Next ==
  \/ \E p \in Paths : Mkdir(p) \/ Rmdir(p)
  \/ \E e \in Elements :
       \/ Drop(e)
       \/ \E n \in ObjNames : SetName(e, n) \/ SetObject(e, n)
       \/ \E p \in Paths, n \in ObjNames : Book(e, p, n)
  \/ \E p \in Paths, n \in ObjNames \cup {Unset} :
       \/ RemoveMonitorElement(p, n)
       \/ RunElement(p, n)
       \/ \E t \in Tests : \/ AddQualityTest(p, n, t)
                           \/ RemoveQualityTest(p, n, t)
                           \/ RunQualityTest(p, n, t)
  \/ NotBooked \/ ResetMonitorElements \/ RunQualityTests

Spec == Init /\ [][Next]_vars
-----------------------------------------------------------------------------
\* As long as no stored element was renamed, reset or given another object,
\* each is found under its own path and name, and nowhere is a second one
\* hidden behind it: booking, removing, rmdir() and failed bookings of the
\* same name keep the storage and the elements in agreement.
FoundByPathAndName ==
  InStorage \cap touched = {} =>
    \A e \in InStorage : path[e] = dirOf[e] /\ Find(path[e], name[e]) = e

\* A run that succeeds leaves a report of each test of each stored element, of
\* that element and not of another one of the same name, unless an element was
\* renamed or reset; and, failed or not, it adds all the reports of an element or
\* none of them (runQualityTests()).
ReportsAreWhole ==
  [][RunQualityTests =>
       /\ status' = "SUCCESS" /\ InStorage \cap touched = {} =>
            \A r \in Due(InStorage) : reports'[Key(r[1], r[2])] = r[1]
       /\ \A e \in Elements : \/ \A t \in attached[e] : <<e, t>> \in added'
                              \/ \A t \in Tests : <<e, t>> \notin added']_vars
=============================================================================
