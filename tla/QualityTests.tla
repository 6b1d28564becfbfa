------------------------------ MODULE QualityTests ------------------------------
(***************************************************************************)
(* Quality tests and their reports: the limits of a QualityTest and where  *)
(* they come from (MonitorElementManager.cc, QualityTest.cc), and the flag *)
(* of a report.                                                            *)
(*                                                                         *)
(* Limits and flags are those of TestLimits.                               *)
(***************************************************************************)
EXTENDS TestLimits, FiniteSets

CONSTANTS
  Tests,      \* names of quality tests
  Elements,   \* monitor elements, by path and name
  Values,     \* the limits that callers and XML attributes give
  Qualities   \* what userRun() computes; a NaN is as any value out of range

ASSUME QualityAssumption ==
  /\ Values \subseteq Int /\ Qualities \subseteq Int
  /\ Absent \notin Values /\ Absent \notin [warning : Int, error : Int]
  /\ Absent \notin [flag : STRING, quality : Int]

Attributes == [warning : Values \cup {Absent}, error : Values \cup {Absent}]

VARIABLES
  limits,   \* of each test created, or Absent
  origin,   \* how each test came by its limits: "xml", "caller" or "none"
  reports,  \* by element and test, Absent or [flag, quality]
  status    \* the last status code returned, or the exception thrown

vars == <<limits, origin, reports, status>>

Init ==
  /\ limits  = [t \in Tests |-> Absent]
  /\ origin  = [t \in Tests |-> "none"]
  /\ reports = [x \in Elements \X Tests |-> Absent]
  /\ status  = "SUCCESS"

Return(s) == status' = s
-----------------------------------------------------------------------------
(* Limits.                                                                 *)

SetLimits(t, l, by) ==
  IF Accepts(l.warning, l.error)
  THEN /\ limits' = [limits EXCEPT ![t] = l]
       /\ origin' = [origin EXCEPT ![t] = by]
       /\ Return("SUCCESS")
  ELSE /\ Return("exception INVALID_PARAMETER")
       /\ UNCHANGED <<limits, origin>>

Refuse(s) == Return(s) /\ UNCHANGED <<limits, origin>>

\* createQualityTest() with limits l, of an element with attributes a.  The
\* exception of setLimits() is not caught; nothing is kept of a test whose
\* readSettings() or init() fails.
CreateQualityTest(t, l, a, by) ==
  /\ LET valid == IsValid(a, l)
     IN  \/ ~valid /\ Refuse("INVALID_PARAMETER")
         \/ valid /\ limits[t] # Absent /\ Refuse("ALREADY_PRESENT")
         \/ valid /\ limits[t] = Absent /\ Refuse("FAILURE")
         \/ valid /\ limits[t] = Absent /\ SetLimits(t, Inherited(l, a), by)
  /\ UNCHANGED reports

\* parseQualityTests() of a section with attributes s.
ParseQualityTest(t, s, a) ==
  \/ /\ IsValid(s, SectionLimits(s))
     /\ CreateQualityTest(t, SectionLimits(s), a, "xml")
  \/ /\ ~IsValid(s, SectionLimits(s))
     /\ Refuse("INVALID_PARAMETER")
     /\ UNCHANGED reports

\* createQualityTest() called with limits that no section has validated.
CallerCreates(t, w, e, a) ==
  CreateQualityTest(t, [warning |-> w, error |-> e], a, "caller")
-----------------------------------------------------------------------------
(* Running a test.                                                         *)

Failures == [flag : {"INVALID", "INSUFFICENT_STAT"}, quality : {0}]

\* run(), and addReport(), which replaces the report of the same element and
\* test: no object, too few entries, an exception of userRun(), or a quality.
Run(x, t) ==
  /\ limits[t] # Absent
  /\ \E r \in Failures \cup {Reported(q, limits[t]) : q \in Qualities} :
       reports' = [reports EXCEPT ![<<x, t>>] = r]
  /\ UNCHANGED <<limits, origin, status>>

ClearReports ==
  /\ reports' = [x \in Elements \X Tests |-> Absent]
  /\ UNCHANGED <<limits, origin, status>>

Next ==
  \/ \E t \in Tests :
       \/ \E s, a \in Attributes : ParseQualityTest(t, s, a)
       \/ \E w, e \in Values, a \in Attributes : CallerCreates(t, w, e, a)
       \/ \E x \in Elements : Run(x, t)
  \/ ClearReports

Spec == Init /\ [][Next]_vars
-----------------------------------------------------------------------------
Made == {y \in DOMAIN reports : reports[y] # Absent}

Flags == {"SUCCESS", "WARNING", "ERROR", "INVALID", "INSUFFICENT_STAT"}

\* Tests and reports have their types, and a report is of a test that exists
\* (QualityTest.h, QualityTest and QReportStorage members).
TypeOK ==
  /\ limits \in [Tests -> {Absent} \cup [warning : Int, error : Int]]
  /\ origin \in [Tests -> {"none", "xml", "caller"}]
  /\ \A t \in Tests : (origin[t] = "none") = (limits[t] = Absent)
  /\ reports \in [Elements \X Tests -> {Absent} \cup [flag : Flags, quality : Int]]
  /\ \A y \in Made : limits[y[2]] # Absent

Rank == [INVALID |-> 0, ERROR |-> 1, WARNING |-> 2, SUCCESS |-> 3]

\* Whatever limits a test has been left with, by XML at two levels or by a
\* caller, a better quality never gets a worse flag, and every quality in range
\* gets one of the three flags (QualityTest::setLimits() and run()).
FlagsAreMonotone ==
  \A t \in Tests : limits[t] # Absent =>
    \A q, r \in 0 .. One :
      /\ Flag(q, limits[t]) # "INVALID"
      /\ q <= r => Rank[Flag(q, limits[t])] <= Rank[Flag(r, limits[t])]

\* A test that a section of XML has created has limits in range and in order,
\* though they may be given, inherited or left out at each of the two levels and
\* each attribute is validated on its own; no quality out of range then gets a
\* flag of a valid one (parseQualityTests(), createQualityTest(), run()).
XmlTestsAreSound ==
  \A t \in Tests : origin[t] = "xml" =>
    /\ 0 <= limits[t].error /\ limits[t].error <= limits[t].warning
    /\ limits[t].warning <= One
    /\ \A q \in Qualities \ 0 .. One : Flag(q, limits[t]) = "INVALID"
=============================================================================
