------------------------------- MODULE TestLimits -------------------------------
(***************************************************************************)
(* The limits of a quality test, given by XML attributes at two levels or  *)
(* by a caller (MonitorElementManager.cc, QualityTest.cc), and the flag    *)
(* that a quality gets from them.                                          *)
(*                                                                         *)
(* Qualities and limits are numbers; 0 .. One stands for the range [0,1].  *)
(***************************************************************************)
EXTENDS Integers

CONSTANTS
  One,     \* the number that stands for 1
  Absent   \* an XML attribute that is not there; a test, a report not made

ASSUME LimitsAssumption == One \in Nat \ {0} /\ One % 10 = 0

DefaultWarning == (8 * One) \div 10
DefaultError   == One \div 2
-----------------------------------------------------------------------------
\* A setLimits() without its test.
AcceptsAny(w, e) == TRUE

\* setLimits() does not throw.
Accepts(w, e) == w >= 0 /\ e <= One /\ w >= e

\* An attribute, or what it defaults to.
Given(a, default) == IF a = Absent THEN default ELSE a

\* The validators of the attributes, in parseQualityTests() and again in
\* createQualityTest(); a limit that is not given is not validated.
ErrorIsValid(a) == a.error # Absent => a.error >= 0 /\ a.error < One

WarningIsValid(a, e) ==
  a.warning # Absent => a.warning >= 0 /\ a.warning > e /\ a.warning <= One

\* <qtests warning= error=> <qtest name=t warning= error=/> </qtests>: the
\* outer error limit defaults to the default warning limit.
SectionLimits(s) ==
  [warning |-> Given(s.warning, DefaultWarning), error |-> Given(s.error, DefaultWarning)]

Inherited(l, a) ==
  [warning |-> Given(a.warning, l.warning), error |-> Given(a.error, l.error)]

IsValid(a, l) == ErrorIsValid(a) /\ WarningIsValid(a, Given(a.error, l.error))

\* The limits that a test may get from XML, with attributes that are absent or
\* one of the values.
XmlLimits(values) ==
  LET attributes == [warning : values \cup {Absent}, error : values \cup {Absent}]
      sections   == {SectionLimits(s) : s \in
                       {a \in attributes : IsValid(a, SectionLimits(a))}}
      tests      == UNION {{Inherited(l, a) : a \in {b \in attributes : IsValid(b, l)}} :
                             l \in sections}
  IN  {l \in tests : Accepts(l.warning, l.error)}
-----------------------------------------------------------------------------
\* Comparisons that leave the boundary of the warning limit to the error flag.
FlagStrict(q, l) ==
  IF q >= 0 /\ q <= l.error THEN "ERROR"
  ELSE IF q > l.warning /\ q < l.error THEN "WARNING"
  ELSE IF q > l.warning /\ q <= One THEN "SUCCESS"
  ELSE "INVALID"

Flag(q, l) ==
  IF q >= 0 /\ q < l.error THEN "ERROR"
  ELSE IF q >= l.error /\ q < l.warning THEN "WARNING"
  ELSE IF q >= l.warning /\ q <= One THEN "SUCCESS"
  ELSE "INVALID"

\* The report of a test that computes quality q: out of range, it is an
\* exception that run() catches.
Reported(q, l) ==
  [flag |-> Flag(q, l), quality |-> IF Flag(q, l) = "INVALID" THEN 0 ELSE q]
=============================================================================
