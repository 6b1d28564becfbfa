-------------------------- MODULE QualityTestsProofs --------------------------
(***************************************************************************)
(* For any tests, elements, values and qualities, and any number that One  *)
(* stands for: the limits that tests are left with, what flags they then   *)
(* give, and what the exit code of dqm4hep-run-qtests tells of them; and   *)
(* that each of the five plugins only returns what such a test may return. *)
(***************************************************************************)
EXTENDS RunQTests, TestPlugins, FiniteSetTheorems, TLAPS

LimitPairs == [warning : Int, error : Int]

Sound(l) == 0 <= l.error /\ l.error <= l.warning /\ l.warning <= One

\* Limits have their types, were accepted by setLimits(), and if they are of
\* XML, are in range and in order.
LimitsOK ==
  /\ limits \in [Tests -> {Absent} \cup LimitPairs]
  /\ origin \in [Tests -> {"none", "xml", "caller"}]
  /\ \A t \in Tests :
       /\ (origin[t] = "none") = (limits[t] = Absent)
       /\ limits[t] # Absent => Accepts(limits[t].warning, limits[t].error)
       /\ origin[t] = "xml" => Sound(limits[t])
-----------------------------------------------------------------------------
(***************************************************************************)
(* The default limits are in range (QualityTest.cc:281-282).               *)
(***************************************************************************)
LEMMA DefaultInRange == DefaultWarning \in Int /\ 0 <= DefaultWarning /\ DefaultWarning <= One
BY LimitsAssumption DEF LimitsAssumption, DefaultWarning

(***************************************************************************)
(* The limits of a section are limits, and those of one whose attributes   *)
(* are valid are in range, though each is validated on its own             *)
(* (parseQualityTests(), MonitorElementManager.cc:200-208).                *)
(***************************************************************************)
LEMMA SectionsInRange ==
  ASSUME NEW s \in Attributes
  PROVE  /\ SectionLimits(s) \in LimitPairs
         /\ IsValid(s, SectionLimits(s)) =>
              /\ 0 <= SectionLimits(s).error /\ SectionLimits(s).warning <= One
<1> USE QualityAssumption, LimitsAssumption, DefaultInRange DEF QualityAssumption,
        LimitsAssumption, Attributes, SectionLimits, Given, LimitPairs
<1>1. SectionLimits(s) \in LimitPairs
  OBVIOUS
<1>2. ASSUME IsValid(s, SectionLimits(s))
      PROVE  0 <= SectionLimits(s).error /\ SectionLimits(s).warning <= One
  BY <1>2 DEF IsValid, ErrorIsValid, WarningIsValid
<1>3. QED
  BY <1>1, <1>2

(***************************************************************************)
(* A test with valid attributes keeps what was in range of the limits it   *)
(* inherits (createQualityTest(), MonitorElementManager.cc:224-232).       *)
(***************************************************************************)
LEMMA InheritedInRange ==
  ASSUME NEW l \in LimitPairs, NEW a \in Attributes
  PROVE  /\ Inherited(l, a) \in LimitPairs
         /\ IsValid(a, l) /\ 0 <= l.error /\ l.warning <= One =>
              /\ 0 <= Inherited(l, a).error /\ Inherited(l, a).warning <= One
BY QualityAssumption, LimitsAssumption DEF QualityAssumption, LimitsAssumption, Attributes,
   Inherited, Given, LimitPairs, IsValid, ErrorIsValid, WarningIsValid

(***************************************************************************)
(* createQualityTest() keeps LimitsOK, of limits in range when it is       *)
(* called for a section (MonitorElementManager.cc:219-254).                *)
(***************************************************************************)
LEMMA CreateKeepsLimits ==
  ASSUME LimitsOK, NEW t \in Tests, NEW l \in LimitPairs, NEW a \in Attributes,
         NEW by \in {"xml", "caller"},
         by = "xml" => 0 <= l.error /\ l.warning <= One,
         CreateQualityTest(t, l, a, by)
  PROVE  LimitsOK' /\ \A u \in Tests : limits[u] # Absent => limits'[u] = limits[u]
<1>1. CASE UNCHANGED <<limits, origin>>
  BY <1>1 DEF LimitsOK
<1>2. CASE IsValid(a, l) /\ SetLimits(t, Inherited(l, a), by) /\ limits[t] = Absent
  <2>1. CASE UNCHANGED <<limits, origin>>
    BY <2>1, <1>1
  <2> DEFINE k == Inherited(l, a)
  <2>2. CASE /\ Accepts(k.warning, k.error)
             /\ limits' = [limits EXCEPT ![t] = k]
             /\ origin' = [origin EXCEPT ![t] = by]
    <3>1. k \in LimitPairs /\ k # Absent
      BY InheritedInRange, QualityAssumption DEF QualityAssumption, LimitPairs
    <3>2. by = "xml" => Sound(k)
      BY InheritedInRange, <1>2, <2>2, <3>1 DEF Accepts, Sound, LimitPairs
    <3> HIDE DEF k
    <3>3. LimitsOK'
      BY <2>2, <3>1, <3>2 DEF LimitsOK
    <3>4. QED
      BY <1>2, <2>2, <3>1, <3>3 DEF LimitsOK
  <2>3. QED
    BY <1>2, <2>1, <2>2 DEF SetLimits
<1>3. QED
  BY <1>1, <1>2 DEF CreateQualityTest, Refuse

(***************************************************************************)
(* No step changes LimitsOK, takes a test away or gives it other limits.   *)
(***************************************************************************)
LEMMA StepKeepsLimits ==
  ASSUME LimitsOK, [Next]_vars
  PROVE  LimitsOK' /\ \A u \in Tests : limits[u] # Absent => limits'[u] = limits[u]
<1>1. CASE UNCHANGED <<limits, origin>>
  BY <1>1 DEF LimitsOK
<1>2. ASSUME NEW t \in Tests, NEW s \in Attributes, NEW a \in Attributes,
             ParseQualityTest(t, s, a), ~UNCHANGED <<limits, origin>>
      PROVE  LimitsOK' /\ \A u \in Tests : limits[u] # Absent => limits'[u] = limits[u]
  <2>1. IsValid(s, SectionLimits(s)) /\ CreateQualityTest(t, SectionLimits(s), a, "xml")
    BY <1>2 DEF ParseQualityTest, Refuse
  <2>2. QED
    BY <2>1, SectionsInRange, CreateKeepsLimits
<1>3. ASSUME NEW t \in Tests, NEW w \in Values, NEW e \in Values, NEW a \in Attributes,
             CallerCreates(t, w, e, a)
      PROVE  LimitsOK' /\ \A u \in Tests : limits[u] # Absent => limits'[u] = limits[u]
  <2>1. [warning |-> w, error |-> e] \in LimitPairs
    BY QualityAssumption DEF QualityAssumption, LimitPairs
  <2>2. QED
    BY <1>3, <2>1, CreateKeepsLimits DEF CallerCreates
<1>4. QED
  BY <1>1, <1>2, <1>3 DEF Next, vars, Run, ClearReports
-----------------------------------------------------------------------------
(***************************************************************************)
(* The limits are of their types, accepted and, from XML, in range.        *)
(***************************************************************************)
THEOREM LimitsStaySound == Spec => []LimitsOK
<1>1. Init => LimitsOK
  BY DEF Init, LimitsOK
<1>2. LimitsOK /\ [Next]_vars => LimitsOK'
  BY StepKeepsLimits
<1>3. QED
  BY <1>1, <1>2, PTL DEF Spec

(***************************************************************************)
(* What run() reports is a report (QualityTest.cc:319-386).                *)
(***************************************************************************)
LEMMA ReportsAreReports ==
  ASSUME NEW l \in LimitPairs, NEW q \in Qualities
  PROVE  Reported(q, l) \in [flag : Flags, quality : Int]
<1>1. Flag(q, l) \in Flags
  BY DEF Flag, Flags
<1>2. QED
  BY <1>1, QualityAssumption DEF Reported, QualityAssumption

(***************************************************************************)
(* Tests and reports have their types, and a report is of a test that was  *)
(* created: nothing takes tests away (MonitorElementManager.cc:219-254).   *)
(***************************************************************************)
THEOREM TypeCorrect == Spec => []TypeOK
<1>1. Init => TypeOK
  BY DEF Init, TypeOK, Made
<1>2. ASSUME LimitsOK, TypeOK, [Next]_vars
      PROVE  TypeOK'
  <2>1. LimitsOK' /\ \A u \in Tests : limits[u] # Absent => limits'[u] = limits[u]
    BY <1>2, StepKeepsLimits
  <2> DEFINE Reports == [Elements \X Tests -> {Absent} \cup [flag : Flags, quality : Int]]
  <2>2. SUFFICES ASSUME TRUE
                 PROVE  /\ reports' \in Reports
                        /\ \A y \in Made' : limits'[y[2]] # Absent
    BY <2>1 DEF TypeOK, LimitsOK, LimitPairs
  <2>3. /\ reports \in Reports
        /\ \A y \in Elements \X Tests : reports[y] # Absent => limits[y[2]] # Absent
    BY <1>2 DEF TypeOK, Made
  <2>4. CASE UNCHANGED reports
    BY <2>1, <2>3, <2>4 DEF Made
  <2>5. ASSUME NEW x \in Elements, NEW t \in Tests, Run(x, t)
        PROVE  /\ reports' \in Reports
               /\ \A y \in Made' : limits'[y[2]] # Absent
    <3>1. PICK r \in Failures \cup {Reported(q, limits[t]) : q \in Qualities} :
            reports' = [reports EXCEPT ![<<x, t>>] = r]
      BY <2>5 DEF Run
    <3>2. limits[t] \in LimitPairs /\ limits[t] # Absent /\ limits' = limits
      BY <1>2, <2>5 DEF Run, LimitsOK
    <3>3. r \in [flag : Flags, quality : Int]
      BY <3>2, ReportsAreReports DEF Failures, Flags
    <3>4. reports' \in Reports
      BY <2>3, <3>1, <3>3
    <3>5. ASSUME NEW y \in Elements \X Tests, reports'[y] # Absent
          PROVE  limits[y[2]] # Absent
      BY <2>3, <3>1, <3>2, <3>5
    <3>6. QED
      BY <3>2, <3>4, <3>5 DEF Made
  <2>6. CASE ClearReports
    BY <2>6 DEF ClearReports, Made
  <2>7. QED
    BY <1>2, <2>4, <2>5, <2>6
       DEF Next, vars, ParseQualityTest, CallerCreates, CreateQualityTest
<1>3. QED
  BY <1>1, <1>2, LimitsStaySound, PTL DEF Spec

(***************************************************************************)
(* The flags of a test are monotone in the quality and total in the range, *)
(* whatever limits the test has been given.                                *)
(***************************************************************************)
THEOREM FlagsStayMonotone == Spec => []FlagsAreMonotone
<1>1. LimitsOK => FlagsAreMonotone
  <2> SUFFICES ASSUME LimitsOK, NEW t \in Tests, limits[t] # Absent,
                      NEW q \in 0 .. One, NEW r \in 0 .. One
               PROVE  /\ Flag(q, limits[t]) # "INVALID"
                      /\ q <= r => Rank[Flag(q, limits[t])] <= Rank[Flag(r, limits[t])]
    BY DEF FlagsAreMonotone
  <2>1. limits[t] \in LimitPairs /\ Accepts(limits[t].warning, limits[t].error)
    BY DEF LimitsOK
  <2> DEFINE w == limits[t].warning
             e == limits[t].error
  <2>2. w \in Int /\ e \in Int /\ w >= e
    BY <2>1 DEF LimitPairs, Accepts
  <2> HIDE DEF w, e
  <2>3. \A p \in 0 .. One : Flag(p, limits[t]) = IF p < e THEN "ERROR"
                                                 ELSE IF p < w THEN "WARNING" ELSE "SUCCESS"
    BY <2>2, LimitsAssumption DEF Flag, w, e, LimitsAssumption
  <2>4. QED
    BY <2>2, <2>3, LimitsAssumption DEF Rank, LimitsAssumption
<1>2. QED
  BY <1>1, LimitsStaySound, PTL

(***************************************************************************)
(* The limits of a test made from XML are in range and in order, and give  *)
(* no flag of a valid quality to one that is out of range.                 *)
(***************************************************************************)
THEOREM XmlTestsStaySound == Spec => []XmlTestsAreSound
<1>1. LimitsOK => XmlTestsAreSound
  <2> SUFFICES ASSUME LimitsOK, NEW t \in Tests, origin[t] = "xml"
               PROVE  /\ Sound(limits[t])
                      /\ \A q \in Qualities \ (0 .. One) : Flag(q, limits[t]) = "INVALID"
    BY DEF XmlTestsAreSound, Sound
  <2>1. limits[t] \in LimitPairs /\ Sound(limits[t])
    BY DEF LimitsOK
  <2>2. QED
    BY <2>1, QualityAssumption, LimitsAssumption
       DEF LimitPairs, Sound, Flag, QualityAssumption, LimitsAssumption
<1>2. QED
  BY <1>1, LimitsStaySound, PTL
-----------------------------------------------------------------------------
(***************************************************************************)
(* The options of the program are of their types, and it uses the tests in *)
(* the ways that any caller may.                                           *)
(***************************************************************************)
OptionsOK ==
  /\ exitOn \in {"ignore", "failure", "warning", "error"} /\ section \in Attributes
  /\ due \in SUBSET (Elements \X Tests)
  /\ code # "none" => phase = "done"

LEMMA ProgramStep ==
  ASSUME OptionsOK, [ProgramNext]_<<vars, program>>
  PROVE  OptionsOK' /\ [Next]_vars
<1>1. CASE Library \/ UNCHANGED <<vars, program>>
  BY <1>1 DEF Library, program, OptionsOK
<1>2. CASE \E t \in Tests, a \in Attributes : Parse(t, a)
  <2>1. PICK t \in Tests, a \in Attributes : Parse(t, a)
    BY <1>2
  <2>2. Next
    BY <2>1 DEF Parse, OptionsOK, Next
  <2>3. OptionsOK'
    BY <2>1 DEF Parse, Abort, OptionsOK
  <2>4. QED
    BY <2>2, <2>3
<1>3. CASE \E t \in Tests, x \in Elements : RunNext(x, t)
  BY <1>3 DEF RunNext, program, OptionsOK, Next
<1>4. CASE StartRun
  BY <1>4 DEF StartRun, Created, OptionsOK
<1>5. CASE Fails \/ Exit
  BY <1>5 DEF Fails, Exit, Abort, OptionsOK
<1>6. QED
  BY <1>1, <1>2, <1>3, <1>4, <1>5 DEF ProgramNext

LEMMA OptionsStay == ProgramSpec => []OptionsOK
<1>1. ProgramInit => OptionsOK
  BY DEF ProgramInit, OptionsOK, QualityExits, Attributes
<1>2. OptionsOK /\ [ProgramNext]_<<vars, program>> => OptionsOK'
  BY ProgramStep
<1>3. QED
  BY <1>1, <1>2, PTL DEF ProgramSpec

(***************************************************************************)
(* dqm4hep-run-qtests is a caller of the library: what holds of tests and  *)
(* reports however they are used holds while the program runs.             *)
(***************************************************************************)
THEOREM ProgramUsesTheLibrary == ProgramSpec => Spec
<1>1. ProgramInit => Init
  BY DEF ProgramInit
<1>2. OptionsOK /\ [ProgramNext]_<<vars, program>> => [Next]_vars
  BY ProgramStep
<1>3. QED
  BY <1>1, <1>2, OptionsStay, PTL DEF ProgramSpec, Spec

(***************************************************************************)
(* A report tells of its test's own limits, which stay those it was made   *)
(* with: a quality that is out of range, or none, gets one of two flags.   *)
(***************************************************************************)
IsReport(r, l) == r \in Failures \cup {Reported(q, l) : q \in Qualities}

ReportsOK ==
  /\ reports \in [Elements \X Tests -> {Absent} \cup [flag : Flags, quality : Int]]
  /\ \A y \in Elements \X Tests : reports[y] # Absent =>
       limits[y[2]] # Absent /\ IsReport(reports[y], limits[y[2]])

LEMMA ReportsStayTrue == Spec => []ReportsOK
<1>1. Init => ReportsOK
  BY DEF Init, ReportsOK
<1>2. ASSUME LimitsOK, ReportsOK, [Next]_vars
      PROVE  ReportsOK'
  <2>1. \A u \in Tests : limits[u] # Absent => limits'[u] = limits[u]
    BY <1>2, StepKeepsLimits
  <2>2. CASE UNCHANGED reports
    BY <1>2, <2>1, <2>2 DEF ReportsOK
  <2>3. ASSUME NEW x \in Elements, NEW t \in Tests, Run(x, t)
        PROVE  ReportsOK'
    <3>1. PICK r \in Failures \cup {Reported(q, limits[t]) : q \in Qualities} :
            reports' = [reports EXCEPT ![<<x, t>>] = r]
      BY <2>3 DEF Run
    <3>2. limits[t] \in LimitPairs /\ limits[t] # Absent /\ limits' = limits
      BY <1>2, <2>3 DEF Run, LimitsOK
    <3>3. r \in [flag : Flags, quality : Int] /\ IsReport(r, limits[t])
      BY <3>1, <3>2, ReportsAreReports DEF Failures, Flags, IsReport
    <3>4. reports' \in [Elements \X Tests -> {Absent} \cup [flag : Flags, quality : Int]]
      BY <1>2, <3>1, <3>3 DEF ReportsOK
    <3>5. ASSUME NEW y \in Elements \X Tests, reports'[y] # Absent
          PROVE  limits[y[2]] # Absent /\ IsReport(reports'[y], limits[y[2]])
      <4>1. CASE y = <<x, t>>
        BY <1>2, <3>1, <3>2, <3>3, <4>1 DEF ReportsOK
      <4>2. CASE y # <<x, t>>
        BY <1>2, <3>1, <3>5, <4>2 DEF ReportsOK
      <4>3. QED
        BY <4>1, <4>2
    <3>6. QED
      BY <3>2, <3>4, <3>5 DEF ReportsOK
  <2>4. CASE ClearReports
    BY <2>4 DEF ClearReports, ReportsOK
  <2>5. QED
    BY <1>2, <2>2, <2>3, <2>4
       DEF Next, vars, ParseQualityTest, CallerCreates, CreateQualityTest
<1>3. QED
  BY <1>1, <1>2, LimitsStaySound, PTL DEF Spec

(***************************************************************************)
(* A SUCCESS is of a quality at or above the warning limit.                *)
(***************************************************************************)
LEMMA SuccessIsEarned ==
  ASSUME NEW l \in LimitPairs, NEW r, IsReport(r, l), r.flag = "SUCCESS"
  PROVE  r.quality \in l.warning .. One
<1>1. r \notin Failures
  BY DEF Failures
<1>2. PICK q \in Qualities : r = Reported(q, l)
  BY <1>1 DEF IsReport
<1>3. r.flag = Flag(q, l) /\ r.quality = q
  BY <1>2 DEF Reported
<1>4. q \in Int /\ l.warning \in Int /\ One \in Int
  <2>1. q \in Int
    BY QualityAssumption DEF QualityAssumption
  <2>2. l.warning \in Int
    BY DEF LimitPairs
  <2>3. One \in Int
    BY LimitsAssumption DEF LimitsAssumption
  <2>4. QED
    BY <2>1, <2>2, <2>3
<1>5. q >= l.warning /\ q <= One
  BY <1>3 DEF Flag
<1>6. QED
  BY <1>3, <1>4, <1>5

(***************************************************************************)
(* The exit code 0 tells what the option -e asks for: at the step where    *)
(* main() gives it, and for good, since nothing follows (the loop of       *)
(* main() over the reports, dqm4hep-run-qtests.cc:223-302).                *)
(***************************************************************************)
THEOREM CleanExitsAreEarned == ProgramSpec => []CleanExitIsEarned
<1>1. ProgramInit => CleanExitIsEarned
  BY DEF ProgramInit, CleanExitIsEarned
<1>2. ASSUME OptionsOK, LimitsOK, ReportsOK, CleanExitIsEarned, [ProgramNext]_<<vars, program>>
      PROVE  CleanExitIsEarned'
  <2>1. CASE UNCHANGED <<vars, program>>
    BY <1>2, <2>1 DEF vars, program, CleanExitIsEarned
  <2>2. CASE phase # "done" /\ code' \in {code, "status"}
    BY <1>2, <2>2 DEF OptionsOK, CleanExitIsEarned
  <2>3. CASE Exit
    <3>1. SUFFICES ASSUME code' = "0", exitOn # "ignore", NEW y \in due
                   PROVE  /\ reports[y] # Absent
                          /\ reports[y].flag \notin {"INVALID", "INSUFFICENT_STAT"}
                          /\ exitOn = "error" =>
                               reports[y].quality \in limits[y[2]].warning .. One
      BY <2>3 DEF Exit, vars, CleanExitIsEarned
    <3>2. /\ reports[y] # Absent /\ y \in Elements \X Tests
          /\ y[2] \in Tests
      BY <1>2, <2>3, <3>1 DEF Exit, OptionsOK
    <3>3. y \in Made /\ reports[y].flag \in Flags
      BY <1>2, <3>2 DEF ReportsOK, Made
    <3>4. ~IsFailure(reports[y].flag)
      BY <2>3, <3>1, <3>3 DEF Exit
    <3>5. QualityExits[exitOn] >= 1 /\ (exitOn = "error" => QualityExits[exitOn] >= 3 /\ QualityExits[exitOn] >= 2)
      BY <1>2, <3>1 DEF OptionsOK, QualityExits
    <3>6. reports[y].flag \notin {"INVALID", "INSUFFICENT_STAT"}
      BY <3>4, <3>5 DEF IsFailure
    <3>7. ASSUME exitOn = "error"
          PROVE  reports[y].quality \in limits[y[2]].warning .. One
      <4>1. reports[y].flag = "SUCCESS"
        BY <3>3, <3>4, <3>5, <3>6, <3>7 DEF IsFailure, Flags
      <4>2. limits[y[2]] \in LimitPairs /\ IsReport(reports[y], limits[y[2]])
        BY <1>2, <3>2 DEF ReportsOK, LimitsOK
      <4>3. QED
        BY <4>1, <4>2, SuccessIsEarned
    <3>8. QED
      BY <3>2, <3>6, <3>7
  <2>4. QED
    BY <1>2, <2>1, <2>2, <2>3
       DEF ProgramNext, Library, Parse, RunNext, StartRun, Fails, Abort, program
<1>3. QED
  BY <1>1, <1>2, OptionsStay, ProgramUsesTheLibrary, LimitsStaySound, ReportsStayTrue, PTL
     DEF ProgramSpec
-----------------------------------------------------------------------------
(***************************************************************************)
(* The plugins.  An element has objects of the caller, or sorted ones, and *)
(* what differs from its reference gets less than the error limit.         *)
(***************************************************************************)
IsObject(o) == o \in ObjectTypes /\ (o.kind = "TGraph" => o.data \in DOMAIN ByX)

PluginTypeOK ==
  /\ testLimits \in Limits
  /\ object = None \/ IsObject(object)
  /\ reference = None \/ IsObject(reference)

LEMMA SortedFacts ==
  ASSUME NEW o, IsObject(o), o.kind = "TGraph"
  PROVE  /\ IsObject(Sorted(o)) /\ Len(Sorted(o).data) = Len(o.data)
         /\ ToSet(Sorted(o).data) = ToSet(o.data)
<1>1. /\ o.data \in DOMAIN ByX /\ ByX[o.data] \in DOMAIN ByX
      /\ ByX[o.data] \in Seq(Seq(Int)) /\ o \in ObjectTypes
      /\ Len(ByX[o.data]) = Len(o.data) /\ ToSet(ByX[o.data]) = ToSet(o.data)
  BY ObjectsAssumption DEF IsObject
<1> DEFINE d == ByX[o.data]
<1> HIDE DEF d
<1>2. Sorted(o) = [o EXCEPT !.data = d]
  BY DEF Sorted, d
<1>3. d \in Seq(Seq(Int)) => Sorted(o) \in ObjectTypes /\ Sorted(o).data = d /\ Sorted(o).kind = o.kind
  BY <1>1, <1>2 DEF ObjectTypes
<1> QED
  BY <1>1, <1>3 DEF IsObject, d

LEMMA SortGraphsFacts ==
  ASSUME PluginTypeOK, NEW t, SortGraphs(t)
  PROVE  /\ object' = None \/ IsObject(object')
         /\ reference' = None \/ IsObject(reference')
         /\ KeepsEqualsEqual
<1>1. CASE UNCHANGED <<object, reference>>
  BY <1>1 DEF PluginTypeOK, KeepsEqualsEqual
<1>2. CASE /\ SortsGraphs(object, reference)
           /\ object' = Sorted(object) /\ reference' = Sorted(reference)
  <2>1. /\ object # None /\ object.kind = "TGraph"
        /\ reference # None /\ reference.kind = "TGraph"
    BY <1>2 DEF SortsGraphs, Unlike, InheritsFrom
  <2> QED
    BY <1>2, <2>1, SortedFacts DEF PluginTypeOK, KeepsEqualsEqual
<1> QED
  BY <1>1, <1>2 DEF SortGraphs

LEMMA PluginStepKeepsTypes == PluginTypeOK /\ [PluginNext]_pluginVars => PluginTypeOK'
<1> SUFFICES ASSUME PluginTypeOK, [PluginNext]_pluginVars PROVE PluginTypeOK'
  OBVIOUS
<1>1. CASE UNCHANGED pluginVars
  BY <1>1 DEF pluginVars, PluginTypeOK
<1>2. ASSUME NEW t \in PluginTests, RunPlugin(t) PROVE PluginTypeOK'
  BY <1>2, SortGraphsFacts DEF RunPlugin, PluginTypeOK
<1>3. ASSUME NEW o \in Objects \cup {None}, SetMonitorObject(o) \/ SetReferenceObject(o)
      PROVE  PluginTypeOK'
  <2>1. o = None \/ IsObject(o)
    BY ObjectsAssumption DEF IsObject
  <2> QED
    BY <1>3, <2>1 DEF SetMonitorObject, SetReferenceObject, PluginTypeOK
<1> QED
  BY <1>1, <1>2, <1>3 DEF PluginNext

LEMMA NBinsPositive == ASSUME NEW o \in ObjectTypes PROVE NBins(o) \in Nat \ {0}
<1>1. ASSUME NEW i PROVE NBinsAlong(o, i) \in Nat \ {0}
  <2>1. o.size \in Seq(Nat \ {0})
    BY DEF ObjectTypes
  <2> QED
    BY <2>1 DEF NBinsAlong
<1>2. ASSUME NEW p \in Nat \ {0}, NEW q \in Nat \ {0} PROVE p * q \in Nat \ {0}
  OBVIOUS
<1>3. NBinsAlong(o, 1) * NBinsAlong(o, 2) \in Nat \ {0}
  BY <1>1, <1>2
<1> QED
  BY <1>1, <1>2, <1>3 DEF NBins

\* A share of the error limit that is less than the whole.
LEMMA ExactQualityBelow ==
  ASSUME NEW n \in Nat \ {0}, NEW d \in Nat \ {0}, NEW e \in Nat
  PROVE  /\ (e * (n - d)) \div n \in Int
         /\ (e * (n - d)) \div n <= e
         /\ e > 0 => (e * (n - d)) \div n < e
<1> DEFINE x == e * (n - d)
           q == x \div n
<1>1. x \in Int /\ x <= e * n /\ (e > 0 => x < e * n)
  <2>1. x = e * n - e * d
    OBVIOUS
  <2>2. e * n \in Nat /\ e * d \in Nat /\ (e > 0 => e * d > 0)
    OBVIOUS
  <2> QED
    BY <2>1, <2>2
<1> HIDE DEF x
<1>2. q \in Int /\ q * n <= x
  BY <1>1
<1> HIDE DEF q
<1>3. ASSUME q > e PROVE FALSE
  <2>1. q * n > e * n
    BY <1>2, <1>3
  <2> QED
    BY <1>1, <1>2, <2>1
<1>4. ASSUME e > 0, q >= e PROVE FALSE
  <2>1. q * n >= e * n
    BY <1>2, <1>4
  <2> QED
    BY <1>1, <1>2, <1>4, <2>1
<1> QED
  BY <1>2, <1>3, <1>4 DEF q, x

LEMMA DifferencesFound ==
  ASSUME NEW o, NEW r, NEW places, IsFiniteSet(places)
  PROVE  /\ Differences(o, r, places) \in Nat
         /\ Differences(o, r, places) = 0 <=> \A i \in places : o.data[i] = r.data[i]
<1> DEFINE D == {i \in places : o.data[i] # r.data[i]}
<1>1. IsFiniteSet(D)
  BY FS_Subset
<1>2. Cardinality(D) \in Nat /\ (Cardinality(D) = 0 <=> D = {})
  BY <1>1, FS_CardinalityType, FS_EmptySet
<1> QED
  BY <1>2 DEF Differences

LEMMA DifferentSequences ==
  ASSUME NEW T, NEW s \in Seq(T), NEW r \in Seq(T), Len(s) = Len(r), s # r
  PROVE  \E i \in 1 .. Len(s) : s[i] # r[i]
OBVIOUS

\* All bins inside the range are compared, and those that are compared are finite.
LEMMA BinsAreCompared ==
  ASSUME NEW o \in ObjectTypes, NEW t
  PROVE  LET C == {b + 1 : b \in ComparedBins(o, t)}
         IN  IsFiniteSet(C) /\ BinsInside(o, t) \subseteq C /\ IsFiniteSet(BinsInside(o, t))
<1> DEFINE C == {b + 1 : b \in ComparedBins(o, t)}
<1>1. PICK n \in Nat : n = NBins(o)
  BY NBinsPositive
<1>2. C \subseteq 1 .. n + 2
  BY <1>1 DEF ComparedBins
<1>3. BinsInside(o, t) \subseteq C
  BY <1>1 DEF ComparedBins, BinsInside
<1>4. IsFiniteSet(1 .. n + 2)
  BY <1>1, FS_Interval
<1> HIDE DEF C
<1>5. IsFiniteSet(C) /\ IsFiniteSet(BinsInside(o, t))
  BY <1>2, <1>3, <1>4, FS_Subset
<1> QED
  BY <1>3, <1>5 DEF C

\* What is not as the reference gets no more than the error limit, and less if
\* that is not 0.
BelowError(q, l) == q \in Int /\ q <= l.error /\ (l.error > 0 => q < l.error)

LEMMA ExactQualityTells ==
  ASSUME NEW n \in Nat \ {0}, NEW d \in Nat \ {0}, NEW l \in [warning : Nat, error : Nat]
  PROVE  BelowError(ExactQuality(n, d, l), l)
<1>1. PICK e \in Nat : e = l.error
  OBVIOUS
<1> QED
  BY <1>1, ExactQualityBelow DEF BelowError, ExactQuality

LEMMA ExactCompareTells ==
  ASSUME IsObject(object), reference = None \/ IsObject(reference), NEW t, ~Agree(t),
         NEW l \in Limits, NEW u \in ExactRefCompare(t, object, reference, l)
  PROVE  BelowError(u.quality, l)
<1>1. l \in [warning : Nat, error : Nat] /\ One \in Nat \ {0}
  BY PluginsAssumption, LimitsAssumption
<1>2. BelowError(Throws, l) /\ BelowError(0, l)
  BY <1>1 DEF BelowError, Throws
<1>3. CASE reference = None \/ object.class # reference.class
  BY <1>2, <1>3 DEF ExactRefCompare, Outcome
<1>4. CASE reference # None /\ object.class = reference.class /\ object.kind = "TH1"
  <2>1. u.quality = CompareHistograms(t, object, reference, l)
    BY <1>4 DEF ExactRefCompare, Outcome
  <2>2. CASE NBins(object) # NBins(reference)
    BY <1>2, <2>1, <2>2 DEF CompareHistograms
  <2>3. CASE NBins(object) = NBins(reference)
    <3> DEFINE C == {b + 1 : b \in ComparedBins(object, t)}
               d == Differences(object, reference, C)
    <3>1. Differences(object, reference, BinsInside(object, t)) # 0
      BY <1>4, <2>3 DEF Agree
    <3>2. IsFiniteSet(C) /\ BinsInside(object, t) \subseteq C /\ IsFiniteSet(BinsInside(object, t))
      BY BinsAreCompared DEF IsObject
    <3> HIDE DEF C
    <3>3. d \in Nat \ {0}
      BY <3>1, <3>2, DifferencesFound
    <3>4. u.quality = ExactQuality(NBins(object), d, l)
      BY <2>1, <2>3 DEF CompareHistograms, C
    <3>5. NBins(object) \in Nat \ {0}
      BY NBinsPositive DEF IsObject
    <3> HIDE DEF d
    <3> QED
      BY <1>1, <3>3, <3>4, <3>5, ExactQualityTells
  <2> QED
    BY <2>2, <2>3
<1>5. CASE /\ reference # None /\ object.class = reference.class
           /\ object.kind \in {"TGraph", "TGraph2D"}
  <2>1. u.quality = CompareGraphs(object, reference, l)
    BY <1>5 DEF ExactRefCompare, Outcome
  <2>2. CASE Len(object.data) # Len(reference.data)
    BY <1>2, <2>1, <2>2 DEF CompareGraphs
  <2>3. CASE Len(object.data) = Len(reference.data)
    <3> DEFINE n == Len(object.data)
               d == Differences(object, reference, DOMAIN object.data)
    <3>1. object.data # reference.data
      BY <1>5 DEF Agree
    <3>2. object.data \in Seq(Seq(Int)) /\ reference.data \in Seq(Seq(Int))
      BY <1>5 DEF IsObject, ObjectTypes
    <3>3. n \in Nat /\ DOMAIN object.data = 1 .. n /\ DOMAIN reference.data = 1 .. n
      BY <2>3, <3>2
    <3>4. PICK i \in 1 .. n : object.data[i] # reference.data[i]
      BY <2>3, <3>1, <3>2, DifferentSequences, ZenonT(40)
    <3>5. IsFiniteSet(DOMAIN object.data)
      BY <3>3, FS_Interval
    <3>6. d \in Nat \ {0}
      BY <3>3, <3>4, <3>5, DifferencesFound
    <3>7. u.quality = ExactQuality(n, d, l)
      BY <2>1, <2>3 DEF CompareGraphs
    <3>8. n \in Nat \ {0}
      BY <3>3, <3>4
    <3> HIDE DEF d, n
    <3> QED
      BY <1>1, <3>6, <3>7, <3>8, ExactQualityTells
  <2> QED
    BY <2>2, <2>3
<1>6. CASE /\ reference # None /\ object.class = reference.class
           /\ object.kind \notin {"TH1", "TGraph", "TGraph2D"}
  <2>1. u.quality = CompareOthers(object, reference)
    BY <1>6 DEF ExactRefCompare, Outcome
  <2>2. object.data # reference.data
    BY <1>6 DEF Agree
  <2> QED
    BY <1>2, <2>1, <2>2 DEF CompareOthers
<1> QED
  BY <1>3, <1>4, <1>5, <1>6

\* What the flags of a report tell of its quality.
LEMMA FlagTells ==
  ASSUME NEW l \in Limits, NEW q \in Int
  PROVE  /\ Flag(q, l) = "SUCCESS" => q >= l.warning
         /\ BelowError(q, l) /\ l.error > 0 => Flag(q, l) \in {"ERROR", "INVALID"}
<1>1. l \in [warning : Nat, error : Nat] /\ One \in Nat \ {0}
  BY PluginsAssumption, LimitsAssumption
<1> QED
  BY <1>1 DEF Flag, BelowError

LEMMA RunIsFair ==
  ASSUME PluginTypeOK, NEW t \in PluginTests, RunPlugin(t)
  PROVE  FlagIsEarned(report')
<1> DEFINE l == testLimits
<1>1. /\ l \in Limits /\ l \in [warning : Nat, error : Nat] /\ One \in Nat \ {0}
      /\ t.type \in PluginTypes
  BY PluginsAssumption, LimitsAssumption DEF PluginTypeOK
<1>2. PICK u \in IF object = None THEN {Outcome(Throws)} ELSE UserRun(t, object, reference, l) :
        report' = [test |-> t, flag |-> Reported(u.quality, l).flag,
                   quality |-> Reported(u.quality, l).quality, fit |-> u.fit]
  BY DEF RunPlugin
<1>3. /\ report'.test = t /\ report'.flag = Flag(u.quality, l) /\ report'.fit = u.fit
  BY <1>2 DEF Reported
<1> HIDE DEF l
<1> SUFFICES /\ Flag(u.quality, l) = "SUCCESS" /\ l.error < l.warning =>
                   object # None /\ Fulfilled(report')
             /\ t.type = "ExactRefCompare" /\ l.error > 0 /\ object # None /\ ~Agree(t)
                   => Flag(u.quality, l) \in {"ERROR", "INVALID"}
  BY <1>3 DEF FlagIsEarned, l
<1>4. ASSUME u.quality = Throws
      PROVE  u.quality \in Int /\ Flag(u.quality, l) = "INVALID"
  BY <1>1, <1>4 DEF Throws, Flag
<1>5. CASE object = None
  <2>1. u.quality = Throws
    BY <1>2, <1>5 DEF Outcome
  <2> QED
    BY <1>4, <1>5, <2>1
<1>6. CASE object # None /\ t.type = "ExactRefCompare"
  <2>1. u \in ExactRefCompare(t, object, reference, l)
    BY <1>2, <1>6 DEF UserRun
  <2>2. CASE ~Agree(t)
    <3>1. BelowError(u.quality, l)
      BY <1>1, <1>6, <2>1, <2>2, ExactCompareTells DEF PluginTypeOK
    <3> QED
      BY <1>1, <1>6, <3>1, FlagTells DEF BelowError
  <2>3. CASE Agree(t)
    BY <1>3, <1>6, <2>3 DEF Fulfilled
  <2> QED
    BY <2>2, <2>3
<1>7. CASE object # None /\ t.type \in {"Chi2", "Kolmogorov"}
  <2>1. u \in Chi2(object, reference) \/ u \in Kolmogorov(object, reference)
    BY <1>2, <1>7 DEF UserRun
  <2>2. u.quality = Throws \/ InheritsFrom(reference, object.kind)
    BY <2>1 DEF Chi2, Kolmogorov, Unlike, InheritsFrom, Outcome
  <2> QED
    BY <1>3, <1>4, <1>7, <2>2 DEF Fulfilled
<1>8. CASE object # None /\ t.type = "FitParamInRange"
  <2>1. u \in FitParamInRange(t, object, l)
    BY <1>2, <1>8 DEF UserRun
  <2>2. \/ u.quality = Throws
        \/ \E f \in Parameters \X Errors :
             u.fit = f /\ u.quality = FitQuality(t, f[1], f[2], l)
    BY <2>1 DEF FitParamInRange, Outcome
  <2>3. ASSUME NEW f \in Parameters \X Errors, ~WithinRange(t, f[1]),
               u.quality = FitQuality(t, f[1], f[2], l), l.error < l.warning
        PROVE  u.quality \in Int /\ u.quality < l.warning
    BY <1>1, <2>3 DEF FitQuality
  <2>4. ASSUME Flag(u.quality, l) = "SUCCESS", l.error < l.warning
        PROVE  WithinRange(t, u.fit[1])
    BY <1>1, <1>4, <2>2, <2>3, <2>4, FlagTells
  <2> QED
    BY <1>3, <1>8, <2>4 DEF Fulfilled
<1>9. CASE object # None /\ t.type = "PropertyWithinExpected"
  <2>1. u \in PropertyWithinExpected(t, object)
    BY <1>2, <1>9 DEF UserRun
  <2>2. u.quality = Throws \/ object.kind \in {"TH1", "TGraph"}
    BY <2>1 DEF PropertyWithinExpected, Outcome
  <2> QED
    BY <1>3, <1>4, <1>9, <2>2 DEF Fulfilled
<1> QED
  BY <1>1, <1>5, <1>6, <1>7, <1>8, <1>9 DEF PluginTypes

(***************************************************************************)
(* The five plugins are fair, for any objects, settings, limits that XML   *)
(* can give, fits and p-values: SUCCESS, with limits that leave room for a *)
(* warning, is only said of what the test is a test of; a difference that  *)
(* an exact comparison finds costs the error limit at least, for bins      *)
(* inside the range are all compared; and sorting keeps equals equal.      *)
(***************************************************************************)
THEOREM PluginsAreFair == PluginSpec => TestsAreFair
<1>1. PluginInit => PluginTypeOK
  BY DEF PluginInit, PluginTypeOK
<1>2. PluginTypeOK /\ [PluginNext]_pluginVars => PluginTypeOK'
  BY PluginStepKeepsTypes
<1>3. PluginTypeOK /\ [PluginNext]_pluginVars
        => [AfterRun' => FlagIsEarned(report') /\ KeepsEqualsEqual]_pluginVars
  <2> SUFFICES ASSUME PluginTypeOK, PluginNext, AfterRun'
               PROVE  FlagIsEarned(report') /\ KeepsEqualsEqual
    OBVIOUS
  <2>1. ASSUME NEW t \in PluginTests, RunPlugin(t)
        PROVE  FlagIsEarned(report') /\ KeepsEqualsEqual
    <3>1. FlagIsEarned(report')
      BY <2>1, RunIsFair
    <3>2. KeepsEqualsEqual
      BY <2>1, SortGraphsFacts DEF RunPlugin
    <3> QED
      BY <3>1, <3>2
  <2>2. ASSUME NEW o \in Objects \cup {None}, SetMonitorObject(o) \/ SetReferenceObject(o)
        PROVE  FALSE
    BY <2>2 DEF SetMonitorObject, SetReferenceObject, AfterRun
  <2> QED
    BY <2>1, <2>2 DEF PluginNext
<1> QED
  BY <1>1, <1>2, <1>3, PTL DEF PluginSpec, TestsAreFair
=============================================================================
