------------------------------ MODULE TestPlugins ------------------------------
(***************************************************************************)
(* The five quality test plugins (src/plugins/*Test.cc), run one after the *)
(* other by QualityTest::run() on one monitor element, whose object and    *)
(* reference the caller fills, replaces and takes away in between.         *)
(*                                                                         *)
(* ROOT is external.  An object has a class, the base class that the       *)
(* plugins ask for (kind), a size and data: the contents of a histogram by *)
(* global bin, under- and overflow included; the points of a graph in the  *)
(* order they are stored, each with x first; for other objects, what       *)
(* IsEqual() compares.  Fits and p-values may be any of a set.             *)
(***************************************************************************)
EXTENDS TestLimits, FiniteSets, SequencesExt

CONSTANTS
  Objects,     \* the objects and references that an element may have
  PluginTests, \* the tests: type and settings
  Limits,      \* the limits that the tests may have
  PValues,     \* what Chi2Test(), KolmogorovTest() and Prob() may give
  Parameters,  \* fitted parameters and properties of objects
  Errors,      \* errors of fitted parameters
  ByX,         \* TGraph::Sort() on the points of graphs
  None         \* no object, no reference, no report

VARIABLES
  testLimits, \* of the tests, from their creation on
  object,     \* MonitorElement::m_monitorObject
  reference,  \* MonitorElement::m_referenceObject
  report      \* of the run that just ended: [test, flag, quality, fit]

pluginVars == <<testLimits, object, reference, report>>

\* What readSettings() accepts: a fit needs its lower deviation below the upper
\* one; unknown methods and properties are only refused by a run.
ReadSettings(t) == t.type = "FitParamInRange" => t.lower < t.upper

PluginTypes ==
  {"ExactRefCompare", "Chi2", "Kolmogorov", "FitParamInRange", "PropertyWithinExpected"}

\* The limits are such as XML gives: accepted, and in range (XmlTestsAreSound).
ASSUME PluginsAssumption ==
  /\ \A t \in PluginTests : t.type \in PluginTypes /\ ReadSettings(t)
  /\ Limits \subseteq [warning : Nat, error : Nat]
  /\ \A l \in Limits : Accepts(l.warning, l.error)
  /\ PValues \subseteq Int /\ Parameters \subseteq Int /\ Errors \subseteq Nat

\* Histograms have bins along each axis.  TGraph::Sort() keeps the points and
\* orders them by x; those with the same x may come in any order.
ObjectTypes ==
  [class : STRING, kind : STRING, size : Seq(Nat \ {0}), data : Seq(Seq(Int))]

ASSUME ObjectsAssumption ==
  /\ Objects \subseteq ObjectTypes /\ None \notin ObjectTypes
  /\ \A o \in Objects : o.kind = "TGraph" => o.data \in DOMAIN ByX
  /\ \A s \in DOMAIN ByX :
       /\ s \in Seq(Seq(Int)) /\ ByX[s] \in DOMAIN ByX
       /\ Len(ByX[s]) = Len(s) /\ ToSet(ByX[s]) = ToSet(s)
       /\ \A i, j \in DOMAIN s : i < j => ByX[s][i][1] <= ByX[s][j][1]

PluginInit ==
  /\ testLimits \in Limits
  /\ object = None /\ reference = None /\ report = None

InheritsFrom(o, kind) == o # None /\ o.kind = kind

\* An exception of userRun(): run() gives it the report of a quality that is
\* out of range.
Throws == -One
NoFit  == <<>>

Outcome(q) == [quality |-> q, fit |-> NoFit]
-----------------------------------------------------------------------------
(* ExactRefCompareTest.                                                    *)

\* GetNbinsX(), GetNbinsY() and GetNbinsZ(), as far as the dimension goes.
NBinsAlong(h, axis) == IF axis \in DOMAIN h.size THEN h.size[axis] ELSE 1
NBins(h) == NBinsAlong(h, 1) * NBinsAlong(h, 2) * NBinsAlong(h, 3)

\* ComparedBins() without its last bin.
BinsBeforeLast(h, t) ==
  (IF t.underflow THEN 0 ELSE 1) .. (IF t.overflow THEN NBins(h) - 1 ELSE NBins(h))

\* The bins compared, from the first to the last global bin: the test of the
\* overflow option is the wrong way round, and the global bins of a histogram
\* of two dimensions go on after the product of its sizes.
ComparedBins(h, t) ==
  (IF t.underflow THEN 0 ELSE 1) .. (IF t.overflow THEN NBins(h) ELSE NBins(h) + 1)

Differences(o, r, places) == Cardinality({i \in places : o.data[i] # r.data[i]})

\* More differences than bins, under- and overflow, make it negative.
ExactQuality(n, differences, l) ==
  IF differences = 0 THEN One ELSE (l.error * (n - differences)) \div n

CompareHistograms(t, o, r, l) ==
  IF NBins(o) # NBins(r) THEN Throws
  ELSE ExactQuality(NBins(o), Differences(o, r, {b + 1 : b \in ComparedBins(o, t)}), l)

CompareGraphs(o, r, l) ==
  IF Len(o.data) # Len(r.data) THEN Throws
  ELSE ExactQuality(Len(o.data), Differences(o, r, DOMAIN o.data), l)

\* By TObject::IsEqual().
CompareOthers(o, r) == IF o.data = r.data THEN One ELSE 0

ExactRefCompare(t, o, r, l) ==
  {Outcome(IF r = None \/ o.class # r.class THEN Throws
           ELSE CASE o.kind = "TH1" -> CompareHistograms(t, o, r, l)
                  [] o.kind \in {"TGraph", "TGraph2D"} -> CompareGraphs(o, r, l)
                  [] OTHER -> CompareOthers(o, r))}
-----------------------------------------------------------------------------
(* Chi2Test and KolmogorovTest.                                            *)

Chi2(o, r) ==
  IF InheritsFrom(o, "TH1") /\ InheritsFrom(r, "TH1")
  THEN {Outcome(p) : p \in PValues} ELSE {Outcome(Throws)}

\* A type that neither graph nor histogram is, or a reference of another one.
Unlike(o, r) ==
  \A kind \in {"TGraph", "TH1"} : ~(InheritsFrom(o, kind) /\ InheritsFrom(r, kind))

SortsGraphs(o, r) ==
  ~Unlike(o, r) /\ o.kind = "TGraph" /\ o.data # <<>> /\ r.data # <<>>

Kolmogorov(o, r) ==
  IF ~Unlike(o, r) /\ (o.kind = "TH1" \/ SortsGraphs(o, r))
  THEN {Outcome(p) : p \in PValues} ELSE {Outcome(Throws)}

Sorted(o) == [o EXCEPT !.data = ByX[@]]

\* What a run does to the element that it tests: graphs are sorted in place.
SortGraphs(t) ==
  IF t.type = "Kolmogorov" /\ SortsGraphs(object, reference)
  THEN object' = Sorted(object) /\ reference' = Sorted(reference)
  ELSE UNCHANGED <<object, reference>>
-----------------------------------------------------------------------------
(* FitParamInRangeTest.                                                    *)

\* The number of variables of the object; others are fitted with nothing, and
\* give an empty result.
Dimension(o) ==
  CASE o.kind = "TH1" -> Len(o.size)
    [] o.kind = "TGraph" -> 1
    [] o.kind = "TGraph2D" -> 2
    [] OTHER -> 0

WithinRange(t, p) == t.lower < p /\ p < t.upper

\* The middle case asks for one end or the other, and so always holds.
FitQuality(t, p, e, l) ==
  IF WithinRange(t, p) THEN One
  ELSE IF p + e > t.lower \/ p - e < t.upper THEN (l.error + l.warning) \div 2
  ELSE l.error \div 2

\* A formula of no or of more than three variables, one that does not fit the
\* object, a fit that fails, or a fit.
FitParamInRange(t, o, l) ==
  {Outcome(Throws)} \cup
  {[quality |-> FitQuality(t, f[1], f[2], l), fit |-> f] :
     f \in IF t.dimension \in 1 .. 3 /\ t.dimension = Dimension(o)
           THEN Parameters \X Errors ELSE {}}
-----------------------------------------------------------------------------
(* PropertyWithinExpectedTest.                                             *)

\* The property: none of an unknown name, nor the median of an empty graph.
\* Others are any number; a NaN, of an empty graph, is below and above nothing.
Property(t, o) ==
  IF \/ t.property \notin {"Mean", "Mean90", "RMS", "RMS90", "Median"}
     \/ t.property = "Median" /\ o.kind = "TGraph" /\ o.data = <<>>
  THEN {} ELSE Parameters

PropertyQualities(t, p) ==
  CASE t.method = "LowerThan"   -> {IF p < t.upper THEN One ELSE 0}
    [] t.method = "HigherThan"  -> {IF p > t.lower THEN One ELSE 0}
    [] t.method = "WithinRange" -> PValues
    [] OTHER -> {Throws}

PropertyWithinExpected(t, o) ==
  IF o.kind \notin {"TH1", "TGraph"} \/ Property(t, o) = {} THEN {Outcome(Throws)}
  ELSE {Outcome(q) : q \in UNION {PropertyQualities(t, p) : p \in Property(t, o)}}
-----------------------------------------------------------------------------
UserRun(t, o, r, l) ==
  CASE t.type = "ExactRefCompare"        -> ExactRefCompare(t, o, r, l)
    [] t.type = "Chi2"                   -> Chi2(o, r)
    [] t.type = "Kolmogorov"             -> Kolmogorov(o, r)
    [] t.type = "FitParamInRange"        -> FitParamInRange(t, o, l)
    [] t.type = "PropertyWithinExpected" -> PropertyWithinExpected(t, o)

\* QualityTest::run().
RunPlugin(t) ==
  /\ \E u \in IF object = None THEN {Outcome(Throws)}
              ELSE UserRun(t, object, reference, testLimits) :
       report' = [test    |-> t,
                  flag    |-> Reported(u.quality, testLimits).flag,
                  quality |-> Reported(u.quality, testLimits).quality,
                  fit     |-> u.fit]
  /\ SortGraphs(t)
  /\ UNCHANGED testLimits

\* The caller fills the object, replaces it, or takes it away.
SetMonitorObject(o) ==
  /\ object' = o /\ report' = None
  /\ UNCHANGED <<testLimits, reference>>

SetReferenceObject(r) ==
  /\ reference' = r /\ report' = None
  /\ UNCHANGED <<testLimits, object>>

PluginNext ==
  \/ \E t \in PluginTests : RunPlugin(t)
  \/ \E o \in Objects \cup {None} : SetMonitorObject(o) \/ SetReferenceObject(o)

PluginSpec == PluginInit /\ [][PluginNext]_pluginVars
-----------------------------------------------------------------------------
\* A report is there only until the element is changed.
AfterRun == report # None

\* The bins inside the range of a histogram of one dimension, and its underflow
\* bin if the test is to compare it.
BinsInside(h, t) == {b + 1 : b \in (IF t.underflow THEN 0 ELSE 1) .. NBins(h)}

\* Object and reference agree as far as an exact comparison is to tell: not in
\* the overflow, nor in histograms of more than one dimension.
Agree(t) ==
  /\ reference # None /\ object.class = reference.class
  /\ IF object.kind = "TH1"
     THEN /\ NBins(object) = NBins(reference)
          /\ Len(object.size) = 1 => Differences(object, reference, BinsInside(object, t)) = 0
     ELSE object.data = reference.data

\* What a test is a test of: the same content, a fit within its range, a
\* property of something that has one, a reference of the same kind.
Fulfilled(r) ==
  CASE r.test.type = "ExactRefCompare" -> Agree(r.test)
    [] r.test.type = "FitParamInRange" -> WithinRange(r.test, r.fit[1])
    [] r.test.type = "PropertyWithinExpected" -> object.kind \in {"TH1", "TGraph"}
    [] OTHER -> InheritsFrom(reference, object.kind)

FlagIsEarned(r) ==
  /\ r.flag = "SUCCESS" /\ testLimits.error < testLimits.warning =>
       object # None /\ Fulfilled(r)
  /\ r.test.type = "ExactRefCompare" /\ testLimits.error > 0 /\ object # None /\ ~Agree(r.test)
     => r.flag \in {"ERROR", "INVALID"}

KeepsEqualsEqual ==
  object # None /\ reference # None =>
    /\ object = reference => object' = reference'
    /\ Len(object'.data) = Len(object.data)
    /\ ToSet(object'.data) = ToSet(object.data)

(***************************************************************************)
(* Tests tell apart what differs: with an error limit below its warning    *)
(* limit one reports SUCCESS only of what it is a test of, and an exact    *)
(* comparison that finds a difference ends neither in SUCCESS nor in       *)
(* WARNING, unless the error limit is 0 (userRun() of the plugins, and the *)
(* flags of QualityTest::run()).  And they do not set apart what is the    *)
(* same: they keep the points of graphs, and an object that equals its     *)
(* reference still does after a test that sorts them, so that an exact     *)
(* comparison may come before or after it (KolmogorovTest.cc:149-150).     *)
(***************************************************************************)
TestsAreFair == [][AfterRun' => FlagIsEarned(report') /\ KeepsEqualsEqual]_pluginVars
=============================================================================
