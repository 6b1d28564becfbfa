------------------------------- MODULE RunQTests -------------------------------
(***************************************************************************)
(* The program dqm4hep-run-qtests: main() creates the tests of one section *)
(* of XML, attaches them to elements, runs them all, and ends with an exit *)
(* code that the option -e asks for.  Anything before and after the loop   *)
(* over the reports may end the program with a status code: the plugins,   *)
(* the file, its elements and references, a run that throws, the archive.  *)
(*                                                                         *)
(* The same tests are used by other callers, in any way, where the program *)
(* does not run (phase "library").  Printing and JSON are left out.        *)
(***************************************************************************)
EXTENDS QualityTests

VARIABLES
  phase,    \* "library", or of main(): "parsing", "running" or "done"
  exitOn,   \* the option -e
  section,  \* the attributes of the element <qtests>
  due,      \* the elements and tests attached to each other
  code      \* the exit code: "0", "-1", or "status" for that of an exception

program == <<phase, exitOn, section, due, code>>

QualityExits == [ignore |-> 0, failure |-> 1, warning |-> 2, error |-> 3]

ProgramInit ==
  /\ Init
  /\ \/ /\ phase = "library" /\ exitOn = "ignore"
        /\ section = [warning |-> Absent, error |-> Absent]
     \/ phase = "parsing" /\ exitOn \in DOMAIN QualityExits /\ section \in Attributes
  /\ due = {} /\ code = "none"

Created == {t \in Tests : limits[t] # Absent}

\* An exception, or a status code that THROW_RESULT_IF turns into one.
Abort == phase' = "done" /\ code' = "status"

\* The next test of the section.
Parse(t, a) ==
  /\ phase = "parsing"
  /\ ParseQualityTest(t, section, a)
  /\ IF status' = "SUCCESS" THEN UNCHANGED <<phase, code>> ELSE Abort
  /\ UNCHANGED <<exitOn, section, due>>

\* parseMonitorElements() has attached tests, and runQualityTests() starts.
StartRun ==
  /\ phase = "parsing" /\ phase' = "running"
  /\ due' \in SUBSET (Elements \X Created)
  /\ UNCHANGED <<vars, exitOn, section, code>>

RunNext(x, t) ==
  /\ phase = "running" /\ <<x, t>> \in due /\ reports[<<x, t>>] = Absent
  /\ Run(x, t)
  /\ UNCHANGED program

Fails ==
  /\ phase \in {"parsing", "running"}
  /\ Abort
  /\ UNCHANGED <<vars, exitOn, section, due>>

\* IsFailure() that looks at errors with an exit level there is not.
IsFailureAbove(flag) ==
  \/ flag \in {"INVALID", "INSUFFICENT_STAT"} /\ QualityExits[exitOn] >= 1
  \/ flag = "ERROR" /\ QualityExits[exitOn] > 3
  \/ flag = "WARNING" /\ QualityExits[exitOn] >= 2

\* A report that makes main() return -1.
IsFailure(flag) ==
  \/ flag \in {"INVALID", "INSUFFICENT_STAT"} /\ QualityExits[exitOn] >= 1
  \/ flag = "ERROR" /\ QualityExits[exitOn] >= 3
  \/ flag = "WARNING" /\ QualityExits[exitOn] >= 2

Exit ==
  /\ phase = "running" /\ phase' = "done"
  /\ \A y \in due : reports[y] # Absent
  /\ code' = IF \E y \in Made : IsFailure(reports[y].flag) THEN "-1" ELSE "0"
  /\ UNCHANGED <<vars, exitOn, section, due>>

Library == phase = "library" /\ Next /\ UNCHANGED program

ProgramNext ==
  \/ Library
  \/ \E t \in Tests : \/ \E a \in Attributes : Parse(t, a)
                      \/ \E x \in Elements : RunNext(x, t)
  \/ StartRun \/ Fails \/ Exit

ProgramSpec == ProgramInit /\ [][ProgramNext]_<<vars, program>>
-----------------------------------------------------------------------------
\* When the program exits with 0 and was asked to tell, every test of every
\* element was run to a quality, and with the level `error' each of these is at
\* or above the warning limit that the two levels of XML have given to its test
\* (the loop of main() over the reports, QualityTest::run(), parseQualityTests()).
CleanExitIsEarned ==
  code = "0" /\ exitOn # "ignore" =>
    \A y \in due :
      /\ reports[y] # Absent
      /\ reports[y].flag \notin {"INVALID", "INSUFFICENT_STAT"}
      /\ exitOn = "error" =>
           reports[y].quality \in limits[y[2]].warning .. One
=============================================================================
