------------------------------ MODULE DBPrograms ------------------------------
(***************************************************************************)
(* The programs that administer the data base of parameters                *)
(* (source/main/dqm4hep-mysql-*.cc), run side by side against one server.  *)
(* Each program is a process; a step of it is one query, or what it does   *)
(* before its first one.  Every query goes through DBInterface, whose      *)
(* calls return a status code, and any of them may fail.  The server is    *)
(* external: a session keeps the privilege it was opened with.             *)
(***************************************************************************)
EXTENDS ParameterTables, Integers, Sequences, FiniteSets, Functions

CONSTANTS
  Processes,   \* the programs that run
  Workloads,   \* for each process, the arguments of its command line
  Databases,   \* the names of data bases
  HostName     \* what fillHostInfo() gives for "host"

Reader == "DQM4HEP"   \* the account that may only read

VARIABLES
  arguments,  \* of each process: its program and its options
  at,         \* where it is: a label, or how it ended
  todo,       \* what it still has to do: statements, sections or accounts
  sessions,   \* the privilege of each connection it has open
  output,     \* what the program that dumps saved
  databases,  \* on the server
  stored,     \* on the server: the tables of each data base
  accounts,   \* on the server: <<user, host>>
  grants,     \* on the server: <<account, data base, privilege>>
  writers     \* the processes that wrote each cell, and the last one

local  == <<arguments, at, todo, sessions, output>>
server == <<databases, stored, accounts, grants, writers>>
programVars == <<local, server>>

Ends == {"exit 0", "exit 1", "abort"}

Cells == Databases \X Tables \X Parameters

AccountsOf(user) == {user} \X {"%", "localhost", HostName}

ProgramsInit ==
  /\ arguments \in Workloads
  /\ at = [p \in Processes |-> "begin"]
  /\ todo = [p \in Processes |-> <<>>]
  /\ sessions = [p \in Processes |-> <<>>]
  /\ output = [p \in Processes |-> Absent]
  /\ databases \in {{}, Databases}
  /\ stored = [d \in Databases |-> [t \in Tables |-> Absent]]
  /\ accounts = {} /\ grants = {}
  /\ writers = [c \in Cells |-> [all |-> {}, last |-> "nobody"]]

Runs(p, program, label) == arguments[p].program = program /\ at[p] = label

Goes(p, label) ==
  /\ at' = [at EXCEPT ![p] = label]
  /\ UNCHANGED arguments

Ended(p, how) ==
  /\ Goes(p, how)
  /\ UNCHANGED <<todo, sessions, output, server>>
-----------------------------------------------------------------------------
\* Without the test of the name.
RefusesNobody(a) == FALSE

\* What create-db, create-user and rm-user do first: the last two refuse the
\* user DQM4HEP; all ask for the password of root and connect without a data
\* base.
RefusesReader(a) == a.program \in {"create-user", "rm-user"} /\ a.user = Reader

ConnectsAsRoot(p) ==
  /\ arguments[p].program \in {"create-db", "create-user", "rm-user"}
  /\ at[p] = "begin"
  /\ \/ Ended(p, "exit 1")
     \/ ~RefusesReader(arguments[p]) /\ Ended(p, "connected")

CreatesDatabase(p) ==
  /\ Runs(p, "create-db", "connected")
  /\ \/ Ended(p, "exit 1")
     \/ /\ databases' = databases \union {arguments[p].db}
        /\ Goes(p, "exit 0")
        /\ UNCHANGED <<todo, sessions, output, stored, accounts, grants, writers>>
-----------------------------------------------------------------------------
\* create-user looks for the reader, then executes its statements in order
\* and gives up at the first that fails: nothing is undone.
Creation(user) == [kind |-> "create", user |-> user]

Grant(user, host, privilege) ==
  [kind |-> "grant", account |-> <<user, host>>, privilege |-> privilege]

Grants(user, privilege) ==
  << Grant(user, "%", privilege), Grant(user, "localhost", privilege),
     Grant(user, HostName, privilege) >>

LooksForReader(p) ==
  LET exists == \E a \in accounts : a[1] = Reader
      user == arguments[p].user
  IN /\ Runs(p, "create-user", "connected")
     /\ \/ Ended(p, "exit 1")
        \/ /\ todo' = [todo EXCEPT ![p] =
                (IF exists THEN <<>> ELSE <<Creation(Reader)>>)
                  \o <<Creation(user)>> \o Grants(user, "all") \o Grants(Reader, "select")]
           /\ Goes(p, "executing")
           /\ UNCHANGED <<sessions, output, server>>

\* CREATE USER of accounts of which one exists, or is named twice, fails.
CreatesAccounts(user) ==
  /\ HostName # "localhost" /\ accounts \intersect AccountsOf(user) = {}
  /\ accounts' = accounts \union AccountsOf(user)
  /\ UNCHANGED grants

Gives(statement, d) ==
  /\ statement.account \in accounts
  /\ grants' = grants \union {<<statement.account, d, statement.privilege>>}
  /\ UNCHANGED accounts

Executes(p) ==
  /\ Runs(p, "create-user", "executing")
  /\ \/ Ended(p, "exit 1")
     \/ LET s == Head(todo[p]) IN
        /\ \/ s.kind = "create" /\ CreatesAccounts(s.user)
           \/ s.kind = "grant" /\ Gives(s, arguments[p].db)
        /\ todo' = [todo EXCEPT ![p] = Tail(@)]
        /\ Goes(p, IF Len(todo[p]) = 1 THEN "exit 0" ELSE "executing")
        /\ UNCHANGED <<sessions, output, databases, stored, writers>>
-----------------------------------------------------------------------------
\* rm-user drops the accounts it read, one by one, inside the callback that
\* is given the result, and gives up at the first that fails.  The rows come
\* in any order.
RowsOf(user) ==
  LET rows == {a \in accounts : a[1] = user}
  IN {s \in [1..Cardinality(rows) -> rows] : \A i, j \in DOMAIN s : s[i] = s[j] => i = j}

ReadsAccounts(p) ==
  /\ Runs(p, "rm-user", "connected")
  /\ \/ Ended(p, "exit 1")
     \/ \E rows \in RowsOf(arguments[p].user) :
          /\ todo' = [todo EXCEPT ![p] = rows]
          /\ Goes(p, IF rows = <<>> THEN "exit 0" ELSE "dropping")
          /\ UNCHANGED <<sessions, output, server>>

DropsAccount(p) ==
  LET a == Head(todo[p])
  IN /\ Runs(p, "rm-user", "dropping")
     /\ \/ Ended(p, "exit 1")
        \/ /\ a \in accounts
           /\ accounts' = accounts \ {a}
           /\ grants' = {g \in grants : g[1] # a}
           /\ todo' = [todo EXCEPT ![p] = Tail(@)]
           /\ Goes(p, IF Len(todo[p]) = 1 THEN "exit 0" ELSE "dropping")
           /\ UNCHANGED <<sessions, output, databases, stored, writers>>
-----------------------------------------------------------------------------
\* The privileges a connection of user to the data base d may have.
Privileges(user, d) == {g[3] : g \in {h \in grants : h[1][1] = user /\ h[2] = d}}

\* connect() to a data base: USE fails for one that does not exist.
OpensSession(p, id, user, d) ==
  /\ d \in databases
  /\ \E privilege \in Privileges(user, d) :
       sessions' = [sessions EXCEPT ![p] =
         [i \in DOMAIN @ \union {id} |-> IF i = id THEN privilege ELSE @[i]]]

CreatesTable(d, t) ==
  stored' = [stored EXCEPT ![d][t] = IF @ = Absent THEN Empty ELSE @]

Writes(p, d, t, m) ==
  /\ stored[d][t] # Absent
  /\ stored' = [stored EXCEPT ![d][t] = Replacing(@, m)]
  /\ writers' = [c \in Cells |->
       IF c[1] = d /\ c[2] = t /\ m[c[3]] # NoValue
       THEN [all |-> writers[c].all \union {p}, last |-> p] ELSE writers[c]]

\* parameterMap with insert() for operator[]: the first entry of a name stays.
MapOfFirst(entries) ==
  [n \in Parameters |->
     LET I == {i \in DOMAIN entries : entries[i].name = n}
     IN IF I = {} THEN NoValue ELSE entries[CHOOSE i \in I : \A j \in I : j >= i].value]

\* parameterMap: the last of the entries of a name.
MapOf(entries) ==
  [n \in Parameters |->
     LET I == {i \in DOMAIN entries : entries[i].name = n}
     IN IF I = {} THEN NoValue ELSE entries[CHOOSE i \in I : \A j \in I : j <= i].value]

\* set-parameter is one section of one parameter; its password is prompted
\* for when it is empty, and its name may be too long.
Sections(a) ==
  IF a.program = "push-parameters" THEN a.file.sections
  ELSE << [db |-> "", table |-> a.table, parameters |-> <<a.parameter>>] >>

\* A value is a text, also an empty one.
ASSUME WorkloadsAssumption ==
  \A w \in Workloads, p \in Processes :
    w[p].program \in {"push-parameters", "set-parameter"} =>
      LET S == Sections(w[p])
      IN  /\ S \in Seq(Range(S))
          /\ \A i \in DOMAIN S :
               /\ S[i].parameters \in Seq(Range(S[i].parameters))
               /\ \A j \in DOMAIN S[i].parameters : S[i].parameters[j].value \in Values

Logins(a) ==
  IF a.program = "push-parameters" THEN a.file.databases
  ELSE << [id |-> "", user |-> a.user, db |-> a.db] >>

Known(a, id) == \E i \in DOMAIN Logins(a) : Logins(a)[i].id = id

LoginOf(a, id) ==
  LET l == Logins(a) IN l[CHOOSE i \in DOMAIN l : l[i].id = id]

\* The <db> elements, of which each needs an id of its own.
GoodLogins(l) ==
  /\ l # <<>>
  /\ \A i \in DOMAIN l : l[i].id # "" /\ \A j \in DOMAIN l : l[i].id = l[j].id => i = j

ReadsArguments(p) ==
  LET a == arguments[p]
  IN /\ a.program \in {"push-parameters", "set-parameter"} /\ at[p] = "begin"
     /\ IF a.program = "set-parameter"
        THEN \/ Ended(p, "exit 1")
             \/ /\ todo' = [todo EXCEPT ![p] = Sections(a)]
                /\ Goes(p, "section")
                /\ UNCHANGED <<sessions, output, server>>
        ELSE \/ Ended(p, "abort")
             \/ ~GoodLogins(a.file.databases) /\ Ended(p, "exit 1")
             \/ /\ GoodLogins(a.file.databases)
                /\ todo' = [todo EXCEPT ![p] = Sections(a)]
                /\ Goes(p, "section")
                /\ UNCHANGED <<sessions, output, server>>

\* A section connects once for each data base it names.  push-parameters
\* does not catch what THROW_RESULT_IF throws there.
Connects(p, id) ==
  LET a == arguments[p]  l == LoginOf(a, id)
  IN \/ Ended(p, "exit 1")
     \/ a.program = "push-parameters" /\ Ended(p, "abort")
     \/ /\ OpensSession(p, id, l.user, l.db)
        /\ Goes(p, "section")
        /\ UNCHANGED <<todo, output, server>>

Skips(p) ==
  /\ todo' = [todo EXCEPT ![p] = Tail(@)]
  /\ Goes(p, "section")
  /\ UNCHANGED <<sessions, output, server>>

StartsSection(p) ==
  LET s == Head(todo[p])
      known == Known(arguments[p], s.db)
      connected == s.db \in DOMAIN sessions[p]
      named == \A i \in DOMAIN s.parameters : s.parameters[i].name \in Parameters
  IN /\ at[p] = "section" /\ todo[p] # <<>>
     /\ \/ ~known /\ Ended(p, "exit 1")
        \/ known /\ ~connected /\ Connects(p, s.db)
        \/ connected /\ ~named /\ Ended(p, "abort")
        \/ connected /\ s.parameters = <<>> /\ Skips(p)
        \/ /\ connected /\ named /\ s.parameters # <<>>
           /\ \/ Ended(p, "exit 1")
              \/ /\ s.table \in Tables /\ sessions[p][s.db] = "all"
                 /\ CreatesTable(LoginOf(arguments[p], s.db).db, s.table)
                 /\ Goes(p, "table")
                 /\ UNCHANGED <<todo, sessions, output, databases, accounts, grants, writers>>

StoresSection(p) ==
  LET s == Head(todo[p])
  IN /\ at[p] = "table"
     /\ \/ Ended(p, "exit 1")
        \/ /\ Writes(p, LoginOf(arguments[p], s.db).db, s.table, MapOf(s.parameters))
           /\ todo' = [todo EXCEPT ![p] = Tail(@)]
           /\ Goes(p, "section")
           /\ UNCHANGED <<sessions, output, databases, accounts, grants>>

\* nParametersTags counts the sections that were stored.
EndsSections(p) ==
  LET S == Sections(arguments[p])
  IN /\ at[p] = "section" /\ todo[p] = <<>>
     /\ Ended(p, IF \E i \in DOMAIN S : S[i].parameters # <<>> THEN "exit 0" ELSE "exit 1")
-----------------------------------------------------------------------------
\* dump-parameters reads the table twice: to print it, then to save it.
OpensDump(p) ==
  /\ Runs(p, "dump-parameters", "begin")
  /\ \/ Ended(p, "exit 1")
     \/ /\ OpensSession(p, "", Reader, arguments[p].db)
        /\ Goes(p, "dumping")
        /\ UNCHANGED <<todo, output, server>>

PrintsTable(p) ==
  LET a == arguments[p]
  IN /\ Runs(p, "dump-parameters", "dumping")
     /\ \/ Ended(p, "exit 1")
        \/ /\ stored[a.db][a.table] # Absent
           /\ Ended(p, IF a.saves THEN "printed" ELSE "exit 0")

\* What SaveFile() returns is not looked at.
SavesTable(p) ==
  LET a == arguments[p]
  IN /\ Runs(p, "dump-parameters", "printed")
     /\ \/ Ended(p, "exit 1")
        \/ /\ output' \in {output, [output EXCEPT ![p] = stored[a.db][a.table]]}
           /\ Goes(p, "exit 0")
           /\ UNCHANGED <<todo, sessions, server>>

ProgramsNext ==
  \E p \in Processes :
    \/ ConnectsAsRoot(p) \/ CreatesDatabase(p)
    \/ LooksForReader(p) \/ Executes(p)
    \/ ReadsAccounts(p) \/ DropsAccount(p)
    \/ ReadsArguments(p) \/ StartsSection(p) \/ StoresSection(p) \/ EndsSections(p)
    \/ OpensDump(p) \/ PrintsTable(p) \/ SavesTable(p)
-----------------------------------------------------------------------------
\* The value the arguments a give a cell: that of the last entry of its name
\* in the first k sections of its table.
Entries(a, k, c) ==
  LET S == Sections(a)
      hits == {i \in 1..k :
        S[i].table = c[2] /\ Known(a, S[i].db) /\ LoginOf(a, S[i].db).db = c[1]}
  IN {e \in UNION {{i} \X DOMAIN S[i].parameters : i \in hits} :
        S[e[1]].parameters[e[2]].name = c[3]}

Meant(a, k, c) ==
  LET E == Entries(a, k, c)
      last == CHOOSE e \in E :
        \A f \in E : f[1] < e[1] \/ (f[1] = e[1] /\ f[2] <= e[2])
  IN IF E = {} THEN NoValue
     ELSE Sections(a)[last[1]].parameters[last[2]].value

\* p wrote just the cells of its first k sections, and left there what they
\* say: another process may have written after it.
Pushed(p, k) ==
  \A c \in Cells :
    LET mine == p \in writers[c].all
        meant == Meant(arguments[p], k, c)
    IN /\ mine <=> meant # NoValue
       /\ (mine /\ writers[c].last = p) => stored[c[1]][c[2]][c[3]] = meant

(***************************************************************************)
(* What a program that pushes parameters leaves in the data base is the    *)
(* sections of its file up to some point, each of them whole, the later    *)
(* entry of a name over the earlier; and all of them if it exits with 0    *)
(* (dqm4hep-mysql-push-parameters.cc:110-196, set-parameter.cc:91-104).    *)
(***************************************************************************)
PushesStoreTheirSections ==
  \A p \in Processes :
    (arguments[p].program \in {"push-parameters", "set-parameter"} /\ at[p] \in Ends) =>
      LET n == Len(Sections(arguments[p]))
      IN IF at[p] = "exit 0" THEN Pushed(p, n) ELSE \E k \in 0..n : Pushed(p, k)

(***************************************************************************)
(* A user that create-user made with exit code 0 can work, and so can the  *)
(* dumps: the accounts of the user and of DQM4HEP are there on every host  *)
(* with their privileges, whatever the other programs do, but for those    *)
(* of the user that rm-user dropped (create-user.cc:106-149; rm-user.cc    *)
(* :57 refuses DQM4HEP).                                                   *)
(***************************************************************************)
CreatedUsersCanWork ==
  \A p \in Processes :
    (arguments[p].program = "create-user" /\ at[p] = "exit 0") =>
      LET a == arguments[p]
          removed == \E q \in Processes :
            /\ arguments[q].program = "rm-user" /\ arguments[q].user = a.user
            /\ at[q] \notin {"begin", "connected"}
      IN /\ \A r \in AccountsOf(Reader) : <<r, a.db, "select">> \in grants
         /\ removed \/ \A u \in AccountsOf(a.user) : <<u, a.db, "all">> \in grants

ProgramsSpec == ProgramsInit /\ [][ProgramsNext]_programVars
=============================================================================
