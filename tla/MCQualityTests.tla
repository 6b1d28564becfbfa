---------------------------- MODULE MCQualityTests ----------------------------
(***************************************************************************)
(* A behaviour is about one of two subjects, and the other rests in an     *)
(* initial state: the tests' limits, their reports and the program that    *)
(* runs them, or the five plugins on one element.  A unit is a sixtieth:   *)
(* every quality that a plugin divides a limit into is a whole number.     *)
(*                                                                         *)
(* Limits and reports: one test on two elements; limits at, inside and     *)
(* outside of the bounds of the range; qualities that fall on both sides   *)
(* of each of them.                                                        *)
(*                                                                         *)
(* Plugins: histograms of one and two bins and of two by one, that differ  *)
(* inside, below or above their range; graphs of up to two points in both  *)
(* orders; limits that XML gives, the default ones among them; fits        *)
(* inside, near and far outside of the range.                              *)
(***************************************************************************)
EXTENDS RunQTests, TestPlugins

MCValues == {-6, 0, 54, 60, 66}
MCQualities == {-6, 0, 30, 48, 60, 66}
-----------------------------------------------------------------------------
\* The entries of histograms are tuples, as the points of graphs are.
Bins(contents) == [i \in DOMAIN contents |-> <<contents[i]>>]

TH1F(n, data) == [class |-> "TH1F", kind |-> "TH1", size |-> <<n>>, data |-> Bins(data)]
TH2F(data) == [class |-> "TH2F", kind |-> "TH1", size |-> <<2, 1>>, data |-> Bins(data)]
TGraph(data) == [class |-> "TGraph", kind |-> "TGraph", size |-> <<>>, data |-> data]
TGraph2D(data) ==
  [class |-> "TGraph2D", kind |-> "TGraph2D", size |-> <<>>, data |-> data]
Text(data) == [class |-> "Text", kind |-> "other", size |-> <<>>, data |-> Bins(data)]

P == <<0, 1>>
Q == <<1, 0>>

MCByX ==
  [s \in {<<>>, <<P>>, <<P, P>>, <<P, Q>>, <<Q, P>>} |->
     SortSeq(s, LAMBDA p, q : p[1] < q[1])]

Zeros(n) == [i \in 1 .. n |-> 0]
MCObjects ==
  {TH1F(1, <<0, 0, 0>>), TH1F(1, <<0, 1, 0>>), TH1F(1, <<1, 0, 0>>), TH1F(1, <<1, 1, 1>>),
   TH1F(2, <<0, 0, 0, 0>>), TH1F(2, <<0, 0, 1, 0>>),
   [TH1F(1, <<0, 0, 0>>) EXCEPT !.class = "TH1D"],
   TH2F(Zeros(12)), TH2F([Zeros(12) EXCEPT ![6] = 1]),
   TGraph(<<>>), TGraph(<<P>>), TGraph(<<P, P>>), TGraph(<<P, Q>>), TGraph(<<Q, P>>),
   TGraph2D(<<P>>), TGraph2D(<<Q>>), Text(<<0>>), Text(<<1>>)}

MCPluginTests ==
  [type : {"ExactRefCompare"}, underflow : BOOLEAN, overflow : BOOLEAN] \cup
  [type : {"Chi2", "Kolmogorov"}] \cup
  [type : {"FitParamInRange"}, dimension : 0 .. 2, lower : {0}, upper : {2}] \cup
  [type : {"PropertyWithinExpected"}, property : {"Mean", "Median"},
   method : {"LowerThan", "WithinRange"}, lower : {0}, upper : {2}] \cup
  {[type |-> "PropertyWithinExpected", property |-> "Mode", method |-> "HigherThan",
    lower |-> 0, upper |-> 2],
   [type |-> "PropertyWithinExpected", property |-> "RMS", method |-> "HigherThan",
    lower |-> 0, upper |-> 2],
   [type |-> "PropertyWithinExpected", property |-> "RMS", method |-> "Near",
    lower |-> 0, upper |-> 2]}

MCTestLimits == XmlLimits({0, 30, 60})
MCPValues == {-60, 0, 36, 60}
MCParameters == {-1, 1, 2, 9}
-----------------------------------------------------------------------------
VARIABLE subject

MCInit ==
  /\ ProgramInit /\ PluginInit
  /\ \/ subject = "program" /\ testLimits = CHOOSE l \in MCTestLimits : TRUE
     \/ subject = "plugins" /\ phase = "library"

MCNext ==
  /\ UNCHANGED subject
  /\ \/ subject = "program" /\ ProgramNext /\ UNCHANGED pluginVars
     \/ subject = "plugins" /\ PluginNext /\ UNCHANGED <<vars, program>>

MCSpec == MCInit /\ [][MCNext]_<<vars, program, pluginVars, subject>>
=============================================================================
