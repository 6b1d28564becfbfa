----------------------------- MODULE MCPersistence -----------------------------
(***************************************************************************)
(* What the programs share with the world outside: the parameter database, *)
(* the archives, and the counters of the system.  A behaviour is about one *)
(* of four subjects, and the others rest in an initial state: a            *)
(* DBInterface with two servers and two tables; up to three of the         *)
(* programs on one server; an Archiver with one base name and one run, a   *)
(* directory with the name of an element of the root, one below it, and a  *)
(* reference of one element; SystemStats with two interfaces.              *)
(***************************************************************************)
EXTENDS DBInterface, DBPrograms, Archiver, SystemStats

MCServers == {"s1", "s2"}
MCTables == {"t1", "t2"}
MCParameters == {"p", "q"}
MCValues == {"v", "w"}
MCProcesses == {"p1", "p2", "p3"}

parameter(n, v) == [name |-> n, value |-> v]
section(d, t, l) == [db |-> d, table |-> t, parameters |-> l]
login(i, u) == [id |-> i, user |-> u, db |-> "d"]
push(l, s) == [program |-> "push-parameters", file |-> [databases |-> l, sections |-> s]]
create(u) == [program |-> "create-user", user |-> u, db |-> "d"]
remove(u) == [program |-> "rm-user", user |-> u]
dump(saves) == [program |-> "dump-parameters", db |-> "d", table |-> "t1", saves |-> saves]
set == [program |-> "set-parameter", user |-> "u", db |-> "d", table |-> "t1",
        parameter |-> parameter("p", "w")]
createDB == [program |-> "create-db", db |-> "d"]

\* A file with two ids of one data base, a name given twice and a section
\* without parameters; then one mistake in each: an unknown id, a parameter
\* without a name, no table name, nothing to push, a user who may only read,
\* an id given twice.
Pushes == {
  push(<<login("a", "u"), login("b", "u")>>,
    << section("a", "t1", <<parameter("p", "v"), parameter("p", "w")>>),
       section("a", "t1", <<>>),
       section("b", "t1", <<parameter("p", "v"), parameter("q", "v")>>) >>),
  push(<<login("a", "u")>>,
    << section("a", "t1", <<parameter("q", "w")>>), section("c", "t1", <<parameter("p", "v")>>) >>),
  push(<<login("a", "u")>>,
    << section("a", "t1", <<parameter("q", "w")>>), section("a", "t1", <<parameter("none", "v")>>) >>),
  push(<<login("a", "u")>>,
    << section("a", "t2", <<parameter("q", "w")>>), section("a", "", <<parameter("p", "v")>>) >>),
  push(<<login("a", "u")>>, <<section("a", "t1", <<>>)>>),
  push(<<login("a", Reader)>>, <<section("a", "t1", <<parameter("p", "v")>>)>>),
  push(<<login("a", "u"), login("a", "v")>>, <<>>) }

MCWorkloads ==
  { [p1 |-> create("u"), p2 |-> x, p3 |-> y] :
      x \in Pushes \union {create("v"), remove("u"), createDB},
      y \in Pushes \union {create("u"), remove("u"), remove(Reader), createDB, set,
                           dump(TRUE), dump(FALSE)} }

-----------------------------------------------------------------------------
MCPaths == {<<>>, <<"m">>, <<"m", "a">>}
MCNames    == {"m", "m_ref"}
MCSuffixed == [m |-> "m_ref", m_ref |-> "m_ref_ref"]
MCElements == {<<<<>>, "m">>, <<<<"m">>, "m">>}
MCReferenced == {<<<<>>, "m">>}
MCTopDirs  == {<<>>, <<"m">>}
-----------------------------------------------------------------------------
VARIABLE subject

\* Each subject before its first step.
InterfaceRests == Init /\ tables = [t \in Tables |-> Absent]
ProgramsRest ==
  /\ ProgramsInit /\ databases = {}
  /\ arguments = CHOOSE w \in Workloads : TRUE
ArchiverRests == ArchiverInit /\ DOMAIN disk = {}
StatsRest ==
  /\ StatsInit /\ up = {} /\ counter = [i \in Interfaces |-> 0]
  /\ program = "netstats"

MCInit ==
  \/ subject = "interface" /\ Init /\ ProgramsRest /\ ArchiverRests /\ StatsRest
  \/ subject = "programs" /\ ProgramsInit /\ InterfaceRests /\ ArchiverRests /\ StatsRest
  \/ subject = "archiver" /\ ArchiverInit /\ InterfaceRests /\ ProgramsRest /\ StatsRest
  \/ subject = "statistics" /\ StatsInit /\ InterfaceRests /\ ProgramsRest /\ ArchiverRests

MCNext ==
  /\ UNCHANGED subject
  /\ \/ subject = "interface" /\ Next /\ UNCHANGED <<programVars, archiverVars, statsVars>>
     \/ subject = "programs" /\ ProgramsNext /\ UNCHANGED <<vars, archiverVars, statsVars>>
     \/ subject = "archiver" /\ ArchiverNext /\ UNCHANGED <<vars, programVars, statsVars>>
     \/ subject = "statistics" /\ StatsNext /\ UNCHANGED <<vars, programVars, archiverVars>>

MCSpec == MCInit /\ [][MCNext]_<<vars, programVars, archiverVars, statsVars, subject>>
=============================================================================
