-------------------------- MODULE PersistenceProofs --------------------------
(***************************************************************************)
(* For any servers, programs, files and archives: the life cycle of the    *)
(* MySQL handle of DBInterface, the programs that administer the data base *)
(* of parameters, and the archives.  Each part has an inductive invariant: *)
(* IInv for the handle, UsersInv for accounts and their privileges, PushInv *)
(* for the sections that are pushed, FilesOK for the files of archives.    *)
(***************************************************************************)
EXTENDS DBInterface, DBPrograms, Archiver, FiniteSetTheorems, SequenceTheorems,
        WellFoundedInduction, TLAPS

\* A set of numbers that is not empty has a least one, and a bounded one a
\* greatest.
LEMMA LeastExists ==
  ASSUME NEW S \in SUBSET Nat, S # {}
  PROVE  \E x \in S : \A y \in S : x <= y
<1> DEFINE R == OpToRel(<, Nat)
<1>1. IsWellFoundedOn(R, Nat)
  BY NatLessThanWellFounded
<1> HIDE DEF R
<1>2. PICK x \in S : \A y \in S : <<y, x>> \notin R
  BY <1>1, WFMin, Zenon
<1>3. \A y \in S : ~(y < x)
  BY <1>2 DEF R, OpToRel
<1> QED BY <1>2, <1>3

LEMMA GreatestExists ==
  ASSUME NEW n \in Nat, NEW S \in SUBSET (1 .. n), S # {}
  PROVE  \E x \in S : \A y \in S : y <= x
<1> DEFINE T == {n - x : x \in S}
<1>1. T \in SUBSET Nat /\ T # {}
  <2>1. \A x \in S : n - x \in Nat
    OBVIOUS
  <2> QED BY <2>1
<1>2. PICK t \in T : \A u \in T : t <= u
  <2> HIDE DEF T
  <2> QED BY <1>1, LeastExists
<1>3. PICK x \in S : t = n - x
  BY <1>2
<1>4. ASSUME NEW y \in S PROVE y <= x
  <2>1. n - y \in T
    OBVIOUS
  <2>2. t <= n - y
    BY <1>2, <2>1
  <2> QED BY <1>3, <2>2
<1> QED BY <1>4

LEMMA TailOf ==
  ASSUME NEW T, NEW l \in Seq(T), l # <<>>
  PROVE  /\ Head(l) \in T /\ Tail(l) \in Seq(T)
         /\ Len(l) # 1 => Tail(l) # <<>>
         /\ Len(l) = 1 => Tail(l) = <<>>
<1>1. /\ Head(l) \in T /\ Tail(l) \in Seq(T)
      /\ Len(Tail(l)) = Len(l) - 1 /\ Len(l) \in Nat
  BY HeadTailProperties, LenProperties
<1>2. CASE Len(l) = 1
  <2>1. Len(Tail(l)) = 0
    BY <1>1, <1>2
  <2> QED BY <1>1, <1>2, <2>1, EmptySeq
<1>3. CASE Len(l) # 1
  <2>1. Len(Tail(l)) # 0
    BY <1>1, <1>3
  <2>2. Len(<<>>) = 0
    BY EmptySeq
  <2> QED BY <1>1, <1>3, <2>1, <2>2
<1> QED BY <1>2, <1>3
-----------------------------------------------------------------------------
\* TypeOK without the server's tables.
ClientTypes ==
  /\ alive \in BOOLEAN /\ connected \in BOOLEAN /\ undefined \in BOOLEAN
  /\ inits \in 0 .. MaxHandles /\ handle \in 0 .. inits /\ open \subseteq 1 .. inits
  /\ settings \in Servers \union {NoServer} /\ peer \in Servers \union {NoServer}

IInv == ClientTypes /\ ConnectedHandlesAreOpen /\ SettingsAreOfTheConnection
-----------------------------------------------------------------------------
(***************************************************************************)
(* Calls that leave the client's variables alone: the refusals, and all    *)
(* queries whether they succeed or fail (DBInterface.cc:157-338).          *)
(***************************************************************************)
LEMMA ClientUnchanged ==
  ASSUME IInv, UNCHANGED client, undefined' \in BOOLEAN
  PROVE  IInv'
BY DEF IInv, ClientTypes, ConnectedHandlesAreOpen, SettingsAreOfTheConnection,
       client

(***************************************************************************)
(* connect() of an object that is not connected keeps the invariant: a     *)
(* handle that fails is closed and m_isConnected is false again            *)
(* (DBInterface.cc:58-89).                                                 *)
(***************************************************************************)
LEMMA OpensKeepsInvariant ==
  ASSUME IInv, ~connected, NEW s \in Servers \union {NoServer}, Opens(s)
  PROVE  IInv'
<1> USE DBAssumption DEF IInv, ClientTypes, ConnectedHandlesAreOpen,
        SettingsAreOfTheConnection, Opens, Returns
<1>1. CASE InitFails
  BY <1>1 DEF InitFails, Null
<1>2. CASE HandshakeFails
  <2>1. connected' = FALSE
    BY <1>2 DEF HandshakeFails
  <2>2. ClientTypes'
    <3>1. /\ alive' \in BOOLEAN /\ connected' \in BOOLEAN /\ undefined' \in BOOLEAN
          /\ settings' \in Servers \union {NoServer}
          /\ peer' \in Servers \union {NoServer}
      BY <1>2, <2>1, Zenon DEF HandshakeFails
    <3>2. /\ inits' \in 0 .. MaxHandles /\ handle' \in 0 .. inits'
          /\ open' \subseteq 1 .. inits'
      BY <1>2 DEF HandshakeFails, NewHandle
    <3>3. QED
      BY <3>1, <3>2
  <2>3. QED
    BY <2>1, <2>2, Zenon
<1>3. CASE Handshake
  BY <1>3 DEF Handshake, NewHandle
<1>4. QED
  BY <1>1, <1>2, <1>3

(***************************************************************************)
(* The queries on parameter tables leave the client alone.                 *)
(***************************************************************************)
LEMMA TableCallsKeepClient ==
  ASSUME IInv, NEW t \in Tables \union {""},
         \/ \E i, d \in BOOLEAN : CreateParameterTable(t, i, d)
         \/ EmptyParameterTable(t)
         \/ \E m \in Contents : SetParameters(t, m)
         \/ BackupParameterTable(t)
         \/ GetTableParameters(t)
  PROVE  UNCHANGED client /\ undefined' \in BOOLEAN
<1> USE DEF IInv, ClientTypes, Refused, QueryFails, Stores, Returns
<1>1. CASE \E i, d \in BOOLEAN : CreateParameterTable(t, i, d)
  BY <1>1 DEF CreateParameterTable, Creates
<1>2. CASE EmptyParameterTable(t)
  BY <1>2 DEF EmptyParameterTable
<1>3. CASE \E m \in Contents : SetParameters(t, m)
  BY <1>3 DEF SetParameters
<1>4. CASE BackupParameterTable(t)
  BY <1>4 DEF BackupParameterTable
<1>5. CASE GetTableParameters(t)
  BY <1>5 DEF GetTableParameters
<1>6. QED
  BY <1>1, <1>2, <1>3, <1>4, <1>5

LEMMA StepKeepsInvariant == IInv /\ [Next]_vars => IInv'
<1> SUFFICES ASSUME IInv, [Next]_vars PROVE IInv'
  OBVIOUS
<1>1. CASE UNCHANGED vars
  <2>1. UNCHANGED client /\ undefined' \in BOOLEAN
    BY <1>1 DEF vars, IInv, ClientTypes
  <2>2. QED
    BY <2>1, ClientUnchanged
<1>2. ASSUME NEW s \in Servers, Set(s) PROVE IInv'
  <2>1. CASE connected
    BY <1>2, <2>1, ClientUnchanged DEF Set, Returns, IInv, ClientTypes
  <2>2. CASE ~connected
    BY <1>2, <2>2, Zenon DEF Set, Returns, IInv, ClientTypes,
                      ConnectedHandlesAreOpen, SettingsAreOfTheConnection
  <2>3. QED
    BY <2>1, <2>2
<1>3. ASSUME NEW s \in Servers, ConnectTo(s) PROVE IInv'
  <2>1. CASE connected
    BY <1>3, <2>1, ClientUnchanged DEF ConnectTo, Returns, IInv, ClientTypes
  <2>2. CASE ~connected
    BY <1>3, <2>2, OpensKeepsInvariant DEF ConnectTo
  <2>3. QED
    BY <2>1, <2>2
<1>4. CASE Connect
  <2>1. CASE connected
    BY <1>4, <2>1, ClientUnchanged DEF Connect, Returns, IInv, ClientTypes
  <2>2. CASE ~connected
    <3>1. settings \in Servers \union {NoServer}
      BY DEF IInv, ClientTypes
    <3>2. Opens(settings)
      BY <1>4, <2>2 DEF Connect
    <3>3. PICK s \in Servers \union {NoServer} : s = settings
      BY <3>1
    <3>4. Opens(s)
      BY <3>2, <3>3 DEF Opens
    <3>5. QED
      BY <2>2, <3>4, OpensKeepsInvariant
  <2>3. QED
    BY <2>1, <2>2
<1>5. CASE Disconnect
  <2>1. CASE connected
    BY <1>5, <2>1, ClientUnchanged DEF Disconnect, Returns, IInv, ClientTypes
  <2>2. CASE Crashes
    BY <2>2, ClientUnchanged DEF Crashes
  <2>3. CASE ~connected /\ ~Crashes
    <3>1. /\ UNCHANGED <<alive, connected, handle, inits, settings, peer>>
          /\ UNCHANGED undefined
      BY <1>5, <2>3, Zenon DEF Disconnect, Returns
    <3>2. open' = open \ {handle}
      BY <1>5, <2>3, Zenon DEF Disconnect
    <3>3. open' \subseteq 1 .. inits'
      BY <3>1, <3>2 DEF IInv, ClientTypes
    <3>4. QED
      BY <2>3, <3>1, <3>3, Zenon DEF IInv, ClientTypes,
                        ConnectedHandlesAreOpen, SettingsAreOfTheConnection
  <2>4. QED
    BY <2>1, <2>2, <2>3
<1>6. CASE Destroy
  BY <1>6, Zenon DEF Destroy, Returns, IInv, ClientTypes, ConnectedHandlesAreOpen,
              SettingsAreOfTheConnection
<1>7. CASE Query
  <2>1. UNCHANGED client /\ undefined' \in BOOLEAN
    BY <1>7 DEF Query, QueryFails, Returns, Crashes, IInv, ClientTypes
  <2>2. QED
    BY <2>1, ClientUnchanged
<1>8. CASE QueryRaw
  <2>1. UNCHANGED client /\ undefined' \in BOOLEAN
    BY <1>8 DEF QueryRaw, Returns, Crashes, IInv, ClientTypes
  <2>2. QED
    BY <2>1, ClientUnchanged
<1>9. ASSUME NEW t \in Tables \union {""},
             \/ \E i, d \in BOOLEAN : CreateParameterTable(t, i, d)
             \/ EmptyParameterTable(t)
             \/ \E m \in Contents : SetParameters(t, m)
             \/ BackupParameterTable(t)
             \/ GetTableParameters(t)
      PROVE  IInv'
  BY <1>9, TableCallsKeepClient, ClientUnchanged
<1>10. QED
  BY <1>1, <1>2, <1>3, <1>4, <1>5, <1>6, <1>7, <1>8, <1>9 DEF Next

(***************************************************************************)
(* The inductive invariant holds in every behaviour.                       *)
(***************************************************************************)
THEOREM ClientInvariant == Spec => []IInv
<1>1. Init => IInv
  <2> SUFFICES ASSUME Init PROVE IInv
    OBVIOUS
  <2>2. inits = 0 /\ handle = 0 /\ open = {}
    BY DEF Init, Null
  <2>3. /\ inits \in 0 .. MaxHandles /\ handle \in 0 .. inits
        /\ open \subseteq 1 .. inits
    BY <2>2, DBAssumption
  <2>4. connected = FALSE /\ alive = TRUE /\ undefined = FALSE
    BY DEF Init
  <2>5. settings = NoServer /\ peer = NoServer
    BY DEF Init
  <2>6. ClientTypes
    BY <2>3, <2>4, <2>5, Zenon DEF ClientTypes
  <2>7. QED
    BY <2>4, <2>6, Zenon DEF Init, IInv, ClientTypes, ConnectedHandlesAreOpen,
                       SettingsAreOfTheConnection
<1>2. QED
  BY <1>1, StepKeepsInvariant, PTL DEF Spec

(***************************************************************************)
(* Queries go to an open handle, whichever calls failed before, for any    *)
(* number of connections (DBInterface.cc:54-106).                          *)
(***************************************************************************)
THEOREM HandlesInUseAreOpen == Spec => []ConnectedHandlesAreOpen
<1>1. IInv => ConnectedHandlesAreOpen
  BY DEF IInv
<1>2. QED
  BY <1>1, ClientInvariant, PTL

(***************************************************************************)
(* While connected, the getters give the settings of the connection        *)
(* (DBInterface.cc:119-129).                                               *)
(***************************************************************************)
THEOREM SettingsStay == Spec => []SettingsAreOfTheConnection
<1>1. IInv => SettingsAreOfTheConnection
  BY DEF IInv
<1>2. QED
  BY <1>1, ClientInvariant, PTL
-----------------------------------------------------------------------------
Hosts == {"%", "localhost", HostName}

Pushers == {"push-parameters", "set-parameter"}

Waits(p) == at[p] \in {"begin", "connected"}

LocalOK ==
  /\ DOMAIN at = Processes /\ DOMAIN todo = Processes /\ DOMAIN sessions = Processes

StepOf(p) ==
  \/ ConnectsAsRoot(p) \/ CreatesDatabase(p)
  \/ LooksForReader(p) \/ Executes(p)
  \/ ReadsAccounts(p) \/ DropsAccount(p)
  \/ ReadsArguments(p) \/ StartsSection(p) \/ StoresSection(p) \/ EndsSections(p)
  \/ OpensDump(p) \/ PrintsTable(p) \/ SavesTable(p)

LEMMA AccountsOfUsers == \A user : AccountsOf(user) = {<<user, h>> : h \in Hosts}
BY DEF AccountsOf, Hosts

\* What a step of p leaves to the others, and that it does not start again.
LEMMA StepsAreLocal ==
  ASSUME LocalOK, NEW p \in Processes, StepOf(p)
  PROVE  /\ LocalOK' /\ UNCHANGED arguments
         /\ \A q \in Processes \ {p} :
              /\ at'[q] = at[q] /\ todo'[q] = todo[q]
              /\ sessions'[q] = sessions[q]
         /\ ~Waits(p) => ~Waits(p)'
<1> USE DEF LocalOK, Goes, Ended, Waits, Runs
<1>1. CASE ConnectsAsRoot(p)
  BY <1>1 DEF ConnectsAsRoot
<1>2. CASE CreatesDatabase(p)
  BY <1>2 DEF CreatesDatabase
<1>3. CASE LooksForReader(p)
  BY <1>3 DEF LooksForReader
<1>4. CASE Executes(p)
  BY <1>4 DEF Executes
<1>5. CASE ReadsAccounts(p)
  BY <1>5 DEF ReadsAccounts
<1>6. CASE DropsAccount(p)
  BY <1>6 DEF DropsAccount
<1>7. CASE ReadsArguments(p)
  BY <1>7 DEF ReadsArguments
<1>8. CASE StartsSection(p)
  BY <1>8 DEF StartsSection, Connects, Skips, OpensSession
<1>9. CASE StoresSection(p)
  BY <1>9 DEF StoresSection
<1>10. CASE EndsSections(p)
  BY <1>10 DEF EndsSections
<1>11. CASE OpensDump(p)
  BY <1>11 DEF OpensDump, OpensSession
<1>12. CASE PrintsTable(p)
  BY <1>12 DEF PrintsTable
<1>13. CASE SavesTable(p)
  BY <1>13 DEF SavesTable
<1> QED
  BY <1>1, <1>2, <1>3, <1>4, <1>5, <1>6, <1>7, <1>8, <1>9, <1>10, <1>11, <1>12, <1>13
     DEF StepOf

\* The accounts of users have their hosts, and are finitely many.
AccountsOK ==
  IsFiniteSet(accounts) /\ \A a \in accounts : a \in AccountsOf(a[1])

Statements(user) ==
  {Creation(Reader), Creation(user)} \union
  {Grant(u, h, privilege) : u \in {Reader, user}, h \in Hosts, privilege \in {"all", "select"}}

StatementsOf(p) == Statements(arguments[p].user)

\* The grants that create-user promises.
Required(p) ==
  {Grant(Reader, h, "select") : h \in Hosts} \union
  {Grant(arguments[p].user, h, "all") : h \in Hosts}

Removed(user) ==
  \E q \in Processes :
    arguments[q].program = "rm-user" /\ arguments[q].user = user /\ ~Waits(q)

\* What create-user has still to do is what is not granted.
Provided(p, g) ==
  \/ <<g.account, arguments[p].db, g.privilege>> \in grants
  \/ at[p] = "executing" /\ g \in Range(todo[p])
  \/ g.account[1] # Reader /\ Removed(arguments[p].user)

CreatesOK(p) ==
  arguments[p].program = "create-user" =>
    /\ at[p] \in {"begin", "connected", "executing"} \union Ends
    /\ at[p] = "executing" => todo[p] \in Seq(StatementsOf(p)) /\ todo[p] # <<>>
    /\ at[p] \in {"executing", "exit 0"} => \A g \in Required(p) : Provided(p, g)

\* rm-user drops the accounts of its user, who is not the reader.
DropsOK(p) ==
  arguments[p].program = "rm-user" =>
    /\ at[p] \in {"begin", "connected", "dropping"} \union Ends
    /\ at[p] \in {"connected", "dropping"} => arguments[p].user # Reader
    /\ at[p] = "dropping" =>
         todo[p] \in Seq(AccountsOf(arguments[p].user)) /\ todo[p] # <<>>

\* The inductive invariant of CreatedUsersCanWork.
UsersInv ==
  LocalOK /\ AccountsOK /\ \A p \in Processes : CreatesOK(p) /\ DropsOK(p)

LEMMA AccountsAreFinite == ASSUME NEW user PROVE IsFiniteSet(AccountsOf(user))
<1>1. IsFiniteSet({user}) /\ IsFiniteSet({"%", "localhost", HostName})
  <2>1. /\ IsFiniteSet({user}) /\ IsFiniteSet({"%"}) /\ IsFiniteSet({"localhost"})
        /\ IsFiniteSet({HostName})
    BY FS_Singleton
  <2>2. IsFiniteSet(({"%"} \union {"localhost"}) \union {HostName})
    BY <2>1, FS_Union
  <2>3. {"%", "localhost", HostName} = ({"%"} \union {"localhost"}) \union {HostName}
    OBVIOUS
  <2> QED BY <2>1, <2>2, <2>3
<1> QED BY <1>1, FS_Product DEF AccountsOf

\* Only rm-user takes privileges away, those of one account of its user.
LEMMA GrantsStay ==
  ASSUME UsersInv, NEW p \in Processes, StepOf(p)
  PROVE  \/ grants \subseteq grants'
         \/ /\ arguments[p].program = "rm-user" /\ ~Waits(p) /\ arguments[p].user # Reader
            /\ \A g \in grants : g[1][1] # arguments[p].user => g \in grants'
<1>1. CASE DropsAccount(p)
  <2>1. /\ arguments[p].program = "rm-user" /\ at[p] = "dropping"
        /\ \/ grants' = grants \/ grants' = {g \in grants : g[1] # Head(todo[p])}
    BY <1>1 DEF DropsAccount, Runs, Ended, server
  <2>2. /\ arguments[p].user # Reader /\ todo[p] \in Seq(AccountsOf(arguments[p].user))
        /\ todo[p] # <<>>
    BY <2>1 DEF UsersInv, DropsOK
  <2>3. Head(todo[p]) \in AccountsOf(arguments[p].user)
    BY <2>2, HeadTailProperties
  <2>4. Head(todo[p])[1] = arguments[p].user
    BY <2>3 DEF AccountsOf
  <2> QED BY <2>1, <2>2, <2>4 DEF Waits
<1>2. CASE Executes(p)
  BY <1>2 DEF Executes, CreatesAccounts, Gives, Ended, server
<1>3. CASE ~DropsAccount(p) /\ ~Executes(p)
  <2>1. UNCHANGED grants
    BY <1>3 DEF StepOf, ConnectsAsRoot, CreatesDatabase, LooksForReader, ReadsAccounts,
         ReadsArguments, StartsSection, Connects, Skips, StoresSection, EndsSections,
         OpensDump, PrintsTable, SavesTable, Ended, server
  <2> QED BY <2>1
<1> QED BY <1>1, <1>2, <1>3

\* What another program does leaves what create-user has provided.
LEMMA OthersStayProvided ==
  ASSUME UsersInv, NEW p \in Processes, StepOf(p), NEW q \in Processes,
         NEW g \in Required(q), Provided(q, g), at'[q] = at[q], todo'[q] = todo[q]
  PROVE  Provided(q, g)'
<1>1. UNCHANGED arguments /\ \A r \in Processes : ~Waits(r) => ~Waits(r)'
  BY StepsAreLocal DEF UsersInv, Waits
<1>2. Removed(arguments[q].user) => Removed(arguments[q].user)'
  BY <1>1 DEF Removed
<1>3. g.account[1] \in {Reader, arguments[q].user}
  BY DEF Required, Grant
<1>4. CASE <<g.account, arguments[q].db, g.privilege>> \in grants
  <2> DEFINE t == <<g.account, arguments[q].db, g.privilege>>
  <2>1. t \in grants /\ t[1] = g.account
    BY <1>4
  <2> HIDE DEF t
  <2>2. \/ t \in grants'
        \/ /\ arguments[p].program = "rm-user" /\ ~Waits(p)'
           /\ arguments[p].user # Reader /\ g.account[1] = arguments[p].user
    BY <1>1, <2>1, GrantsStay
  <2>3. CASE t \in grants'
    BY <1>1, <2>3 DEF Provided, t
  <2>4. CASE /\ arguments[p].program = "rm-user" /\ ~Waits(p)'
             /\ arguments[p].user # Reader /\ g.account[1] = arguments[p].user
    BY <1>1, <1>3, <2>4 DEF Provided, Removed
  <2> QED BY <2>2, <2>3, <2>4
<1> QED BY <1>1, <1>2, <1>4 DEF Provided

LEMMA AccountsStayOK ==
  ASSUME UsersInv, NEW p \in Processes, StepOf(p)
  PROVE  AccountsOK'
<1>1. CASE UNCHANGED accounts
  BY <1>1 DEF UsersInv, AccountsOK
<1>2. ASSUME NEW user, CreatesAccounts(user) PROVE AccountsOK'
  <2>1. accounts' = accounts \union AccountsOf(user)
    BY <1>2 DEF CreatesAccounts
  <2>2. \A a \in AccountsOf(user) : a[1] = user
    BY DEF AccountsOf
  <2>3. IsFiniteSet(accounts')
    BY <2>1, AccountsAreFinite, FS_Union DEF UsersInv, AccountsOK
  <2> QED BY <2>1, <2>2, <2>3 DEF UsersInv, AccountsOK
<1>3. CASE Executes(p)
  BY <1>1, <1>2, <1>3 DEF Executes, Gives, Ended, server
<1>4. CASE DropsAccount(p)
  <2>1. accounts' \subseteq accounts
    BY <1>4 DEF DropsAccount, Ended, server
  <2> QED BY <2>1, FS_Subset DEF UsersInv, AccountsOK
<1>5. CASE ~DropsAccount(p) /\ ~Executes(p)
  <2>1. UNCHANGED accounts
    BY <1>5 DEF StepOf, ConnectsAsRoot, CreatesDatabase, LooksForReader, ReadsAccounts,
         ReadsArguments, StartsSection, Connects, Skips, StoresSection, EndsSections,
         OpensDump, PrintsTable, SavesTable, Ended, server
  <2> QED BY <1>1, <2>1
<1> QED BY <1>3, <1>4, <1>5

\* The rows of a user are in some order.
LEMMA RowsAreAccounts ==
  ASSUME AccountsOK, NEW user, NEW rows \in RowsOf(user)
  PROVE  rows \in Seq(AccountsOf(user))
<1> DEFINE R == {a \in accounts : a[1] = user}
<1>1. IsFiniteSet(R) /\ R \subseteq AccountsOf(user)
  BY FS_Subset DEF AccountsOK
<1>2. Cardinality(R) \in Nat
  BY <1>1, FS_CardinalityType
<1>3. rows \in [1 .. Cardinality(R) -> R]
  BY DEF RowsOf
<1> HIDE DEF R
<1>4. \A i \in 1 .. Cardinality(R) : rows[i] \in AccountsOf(user)
  BY <1>1, <1>3
<1>5. rows = [i \in 1 .. Cardinality(R) |-> rows[i]]
  BY <1>3
<1> QED BY <1>2, <1>4, <1>5, IsASeq

LEMMA DropsStayOK ==
  ASSUME UsersInv, NEW p \in Processes, StepOf(p)
  PROVE  DropsOK(p)'
<1> DEFINE user == arguments[p].user
<1>1. UNCHANGED arguments /\ p \in DOMAIN at /\ p \in DOMAIN todo
  BY StepsAreLocal DEF UsersInv, LocalOK
<1>2. SUFFICES ASSUME arguments[p].program = "rm-user"
      PROVE  /\ at'[p] \in {"begin", "connected", "dropping"} \union Ends
             /\ at'[p] \in {"connected", "dropping"} => user # Reader
             /\ at'[p] = "dropping" => todo'[p] \in Seq(AccountsOf(user)) /\ todo'[p] # <<>>
  BY <1>1 DEF DropsOK
<1>3. DropsOK(p) /\ AccountsOK
  BY DEF UsersInv
<1>4. CASE ConnectsAsRoot(p)
  BY <1>1, <1>2, <1>4 DEF ConnectsAsRoot, Ended, Goes, RefusesReader, Ends
<1>5. CASE ReadsAccounts(p)
  <2>1. at[p] = "connected" /\ user # Reader
    BY <1>2, <1>3, <1>5 DEF ReadsAccounts, Runs, DropsOK
  <2>2. CASE at'[p] = "exit 1"
    BY <2>2 DEF Ends
  <2>3. ASSUME NEW rows \in RowsOf(user), todo' = [todo EXCEPT ![p] = rows],
               Goes(p, IF rows = <<>> THEN "exit 0" ELSE "dropping")
        PROVE  /\ at'[p] \in {"dropping"} \union Ends
               /\ at'[p] = "dropping" => todo'[p] \in Seq(AccountsOf(user)) /\ todo'[p] # <<>>
    BY <1>1, <1>3, <2>3, RowsAreAccounts DEF Goes, Ends
  <2> QED BY <1>1, <1>5, <2>1, <2>2, <2>3 DEF ReadsAccounts, Ended, Goes
<1>6. CASE DropsAccount(p)
  <2>1. /\ at[p] = "dropping" /\ user # Reader
        /\ todo[p] \in Seq(AccountsOf(user)) /\ todo[p] # <<>>
    BY <1>2, <1>3, <1>6 DEF DropsAccount, Runs, DropsOK
  <2>2. CASE Ended(p, "exit 1")
    BY <1>1, <2>2 DEF Ended, Goes, Ends
  <2>3. CASE /\ todo' = [todo EXCEPT ![p] = Tail(@)]
             /\ Goes(p, IF Len(todo[p]) = 1 THEN "exit 0" ELSE "dropping")
    <3>1. todo'[p] = Tail(todo[p]) /\ Tail(todo[p]) \in Seq(AccountsOf(user))
      BY <1>1, <2>1, <2>3, HeadTailProperties
    <3>2. Len(todo[p]) # 1 => Tail(todo[p]) # <<>>
      BY <2>1, TailOf
    <3> QED BY <1>1, <2>1, <2>3, <3>1, <3>2 DEF Goes, Ends
  <2> QED BY <1>6, <2>2, <2>3 DEF DropsAccount
<1>7. CASE /\ ~ConnectsAsRoot(p) /\ ~ReadsAccounts(p) /\ ~DropsAccount(p)
  <2>1. at[p] \in {"begin", "connected", "dropping"} \union Ends
    BY <1>2, <1>3 DEF DropsOK
  <2> QED BY <1>2, <1>7, <2>1
       DEF StepOf, CreatesDatabase, LooksForReader, Executes, ReadsArguments, StartsSection,
         StoresSection, EndsSections, OpensDump, PrintsTable, SavesTable, Runs, Ends
<1> QED BY <1>4, <1>5, <1>6, <1>7

\* What CreatesOK(q) needs after a step, when the options stay.
LEMMA CreatesNext ==
  ASSUME UNCHANGED arguments, NEW q,
         arguments[q].program = "create-user" =>
           /\ at'[q] \in {"begin", "connected", "executing"} \union Ends
           /\ at'[q] = "executing" => todo'[q] \in Seq(StatementsOf(q)) /\ todo'[q] # <<>>
           /\ at'[q] \in {"executing", "exit 0"} => \A g \in Required(q) : Provided(q, g)'
  PROVE  CreatesOK(q)'
<1>1. Required(q)' = Required(q)
  BY DEF Required
<1>2. StatementsOf(q)' = StatementsOf(q)
  BY DEF StatementsOf
<1>3. Ends' = Ends
  BY DEF Ends
<1>4. CASE arguments[q].program = "create-user"
  <2> DEFINE R == Required(q)
  <2>1. at'[q] \in {"executing", "exit 0"} => \A g \in R : Provided(q, g)'
    BY <1>4
  <2>2. at'[q] \in {"executing", "exit 0"} => (\A g \in Required(q) : Provided(q, g))'
    BY <1>1, <2>1
  <2> QED BY <1>1, <1>2, <1>3, <1>4, <2>2 DEF CreatesOK
<1> QED BY <1>4 DEF CreatesOK

\* A statement that was executed is provided.
LEMMA CreatesStayOK ==
  ASSUME UsersInv, NEW p \in Processes, StepOf(p)
  PROVE  CreatesOK(p)'
<1> DEFINE user == arguments[p].user
           S == StatementsOf(p)
<1>1. UNCHANGED arguments /\ p \in DOMAIN at /\ p \in DOMAIN todo
  BY StepsAreLocal DEF UsersInv, LocalOK
<1>2. SUFFICES ASSUME arguments[p].program = "create-user"
      PROVE  /\ at'[p] \in {"begin", "connected", "executing"} \union Ends
             /\ at'[p] = "executing" => todo'[p] \in Seq(S) /\ todo'[p] # <<>>
             /\ at'[p] \in {"executing", "exit 0"} => \A g \in Required(p) : Provided(p, g)'
  BY <1>1, CreatesNext
<1>3. CreatesOK(p)
  BY DEF UsersInv
<1>4. CASE ConnectsAsRoot(p)
  BY <1>1, <1>2, <1>4 DEF ConnectsAsRoot, Ended, Goes, Ends
<1>5. CASE Ended(p, "exit 1")
  BY <1>1, <1>5 DEF Ended, Goes, Ends
<1>6. CASE LooksForReader(p) /\ ~Ended(p, "exit 1")
  <2> DEFINE start == IF \E a \in accounts : a[1] = Reader THEN <<>> ELSE <<Creation(Reader)>>
             list == start \o <<Creation(user)>> \o Grants(user, "all") \o Grants(Reader, "select")
  <2>1. at'[p] = "executing" /\ todo'[p] = list
    BY <1>1, <1>6 DEF LooksForReader, Goes
  <2>2. start \in Seq(S) /\ <<Creation(user)>> \in Seq(S)
    <3>1. Creation(Reader) \in S /\ Creation(user) \in S
      BY DEF StatementsOf, Statements
    <3>2. \A x \in S : <<x>> \in Seq(S)
      OBVIOUS
    <3> HIDE DEF S
    <3> QED BY <3>1, <3>2, EmptySeq
  <2>3. Grants(user, "all") \in Seq(S) /\ Grants(Reader, "select") \in Seq(S)
    BY DEF StatementsOf, Statements, Grants, Hosts
  <2>4. /\ list \in Seq(S) /\ list # <<>>
        /\ Range(Grants(user, "all")) \union Range(Grants(Reader, "select")) \subseteq Range(list)
    <3> DEFINE a == start \o <<Creation(user)>>
               b == Grants(user, "all")
               c == Grants(Reader, "select")
    <3>1. a \in Seq(S) /\ b \in Seq(S) /\ c \in Seq(S) /\ Len(b) = 3
      BY <2>2, <2>3, ConcatProperties DEF Grants
    <3>2. list = (a \o b) \o c
      OBVIOUS
    <3> HIDE DEF a, b, c, list, S
    <3>3. a \o b \in Seq(S) /\ Range(a \o b) = Range(a) \union Range(b)
      BY <3>1, ConcatProperties, RangeConcatenation
    <3>4. list \in Seq(S) /\ Range(list) = Range(a \o b) \union Range(c)
      <4> DEFINE d == a \o b
      <4>1. d \in Seq(S) /\ list = d \o c
        BY <3>2, <3>3
      <4> HIDE DEF d
      <4>2. d \o c \in Seq(S) /\ Range(d \o c) = Range(d) \union Range(c)
        BY <3>1, <4>1, ConcatProperties, RangeConcatenation
      <4> QED BY <4>1, <4>2 DEF d
    <3>5. Len(list) # 0
      BY <3>1, <3>2, <3>3, ConcatProperties, LenProperties
    <3>6. list # <<>>
      BY <3>5, EmptySeq
    <3> QED BY <3>3, <3>4, <3>6 DEF b, c
  <2>5. Required(p) \subseteq Range(Grants(user, "all")) \union Range(Grants(Reader, "select"))
    <3>1. ASSUME NEW u, NEW privilege, NEW h \in Hosts
          PROVE  Grant(u, h, privilege) \in Range(Grants(u, privilege))
      <4> DEFINE b == Grants(u, privilege)
      <4>1. /\ DOMAIN b = 1 .. 3 /\ b[1] = Grant(u, "%", privilege)
            /\ b[2] = Grant(u, "localhost", privilege) /\ b[3] = Grant(u, HostName, privilege)
        BY DEF Grants
      <4> HIDE DEF b
      <4>2. b[1] \in Range(b) /\ b[2] \in Range(b) /\ b[3] \in Range(b)
        BY <4>1 DEF Range
      <4> QED BY <4>1, <4>2 DEF Hosts, b
    <3> QED BY <3>1 DEF Required
  <2> HIDE DEF list
  <2> QED BY <2>1, <2>4, <2>5 DEF Provided
<1>7. CASE Executes(p) /\ ~Ended(p, "exit 1")
  <2> DEFINE s == Head(todo[p])
  <2>1. /\ at[p] = "executing" /\ todo[p] \in Seq(S) /\ todo[p] # <<>>
        /\ \A g \in Required(p) : Provided(p, g)
    BY <1>2, <1>3, <1>7 DEF Executes, Runs, CreatesOK
  <2>2. /\ todo'[p] = Tail(todo[p]) /\ at'[p] = IF Len(todo[p]) = 1 THEN "exit 0" ELSE "executing"
        /\ \/ s.kind = "create" /\ UNCHANGED grants
           \/ grants' = grants \union {<<s.account, arguments[p].db, s.privilege>>}
    BY <1>1, <1>7 DEF Executes, Goes, CreatesAccounts, Gives
  <2>3. /\ Tail(todo[p]) \in Seq(S) /\ (Len(todo[p]) # 1 => Tail(todo[p]) # <<>>)
        /\ (Len(todo[p]) = 1 => Tail(todo[p]) = <<>>)
        /\ Range(todo[p]) = {s} \union Range(Tail(todo[p]))
    <3> DEFINE l == todo[p]
    <3>1. l \in Seq(S) /\ l # <<>>
      BY <2>1
    <3> HIDE DEF l, S
    <3>2. /\ Tail(l) \in Seq(S) /\ Len(Tail(l)) = Len(l) - 1 /\ Len(l) \in Nat \ {0}
          /\ \A i \in 1 .. Len(Tail(l)) : Tail(l)[i] = l[i + 1]
          /\ Head(l) = l[1]
      BY <3>1, HeadTailProperties, EmptySeq
    <3>3. /\ DOMAIN l = 1 .. Len(l) /\ DOMAIN Tail(l) = 1 .. Len(Tail(l))
      BY <3>1, <3>2, LenProperties
    <3>4. Range(l) = {Head(l)} \union Range(Tail(l))
      <4>1. ASSUME NEW i \in DOMAIN l PROVE l[i] \in {Head(l)} \union Range(Tail(l))
        <5>1. CASE i = 1
          BY <3>2, <5>1
        <5>2. CASE i # 1
          <6>1. i - 1 \in DOMAIN Tail(l) /\ Tail(l)[i - 1] = l[i]
            BY <3>2, <3>3, <5>2
          <6> QED BY <6>1 DEF Range
        <5> QED BY <5>1, <5>2
      <4>2. ASSUME NEW i \in DOMAIN Tail(l) PROVE Tail(l)[i] \in Range(l)
        <5>1. i + 1 \in DOMAIN l /\ Tail(l)[i] = l[i + 1]
          BY <3>2, <3>3
        <5> QED BY <5>1 DEF Range
      <4>3. Head(l) \in Range(l)
        <5>1. 1 \in DOMAIN l
          BY <3>2, <3>3
        <5> QED BY <3>2, <5>1 DEF Range
      <4> QED BY <4>1, <4>2, <4>3 DEF Range
    <3> QED BY <3>1, <3>2, <3>4, TailOf DEF l
  <2>4. ASSUME NEW g \in Required(p) PROVE Provided(p, g)'
    <3>1. g.kind # "create"
      BY DEF Required, Grant
    <3>2. Removed(user) => Removed(user)'
      BY <1>1, StepsAreLocal DEF UsersInv, Removed, Waits
    <3>3. CASE g = s
      BY <1>1, <2>2, <3>1, <3>3 DEF Provided
    <3>4. CASE g # s /\ g \in Range(todo[p])
      <4>1. g \in Range(todo'[p])
        BY <2>2, <2>3, <3>4
      <4>2. Len(todo[p]) # 1
        BY <2>3, <3>4 DEF Range
      <4> QED BY <2>2, <4>1, <4>2 DEF Provided
    <3>5. CASE g \notin Range(todo[p])
      BY <1>1, <2>1, <2>2, <3>2, <3>5 DEF Provided
    <3> QED BY <3>3, <3>4, <3>5
  <2> QED BY <2>2, <2>3, <2>4 DEF Ends
<1>8. CASE ~ConnectsAsRoot(p) /\ ~LooksForReader(p) /\ ~Executes(p)
  <2>1. at[p] \in {"begin", "connected", "executing"} \union Ends
    BY <1>2, <1>3 DEF CreatesOK
  <2> QED BY <1>2, <1>8, <2>1
       DEF StepOf, CreatesDatabase, ReadsAccounts, DropsAccount, ReadsArguments, StartsSection,
         StoresSection, EndsSections, OpensDump, PrintsTable, SavesTable, Runs, Ends
<1> QED BY <1>4, <1>5, <1>6, <1>7, <1>8

LEMMA UsersInvKept == UsersInv /\ [ProgramsNext]_programVars => UsersInv'
<1> SUFFICES ASSUME UsersInv, [ProgramsNext]_programVars PROVE UsersInv'
  OBVIOUS
<1>1. CASE UNCHANGED programVars
  <2>1. UNCHANGED <<arguments, at, todo, sessions, accounts, grants>>
    BY <1>1 DEF programVars, local, server
  <2>2. LocalOK' /\ AccountsOK'
    BY <2>1 DEF UsersInv, LocalOK, AccountsOK
  <2>3. ASSUME NEW p \in Processes PROVE CreatesOK(p)'
    <3>1. \A g : Provided(p, g) => Provided(p, g)'
      BY <2>1 DEF Provided, Removed, Waits
    <3> QED BY <2>1, <3>1, CreatesNext DEF UsersInv, CreatesOK
  <2>4. ASSUME NEW p \in Processes PROVE DropsOK(p)'
    BY <2>1 DEF UsersInv, DropsOK
  <2> QED BY <2>2, <2>3, <2>4 DEF UsersInv
<1>2. ASSUME NEW p \in Processes, StepOf(p) PROVE UsersInv'
  <2>1. LocalOK' /\ AccountsOK'
    BY <1>2, StepsAreLocal, AccountsStayOK DEF UsersInv
  <2>2. CreatesOK(p)' /\ DropsOK(p)'
    BY <1>2, CreatesStayOK, DropsStayOK
  <2>3. ASSUME NEW q \in Processes, q # p PROVE CreatesOK(q)' /\ DropsOK(q)'
    <3>1. at'[q] = at[q] /\ todo'[q] = todo[q] /\ UNCHANGED arguments
      BY <1>2, <2>3, StepsAreLocal DEF UsersInv
    <3>2. \A g \in Required(q) : Provided(q, g) => Provided(q, g)'
      BY <1>2, <3>1, OthersStayProvided
    <3>3. CreatesOK(q)'
      BY <3>1, <3>2, CreatesNext DEF UsersInv, CreatesOK
    <3> QED BY <3>1, <3>3 DEF UsersInv, DropsOK
  <2> QED BY <2>1, <2>2, <2>3 DEF UsersInv
<1> QED BY <1>1, <1>2 DEF ProgramsNext, StepOf

(***************************************************************************)
(* For any programs, users and order of their queries: a user made by a    *)
(* create-user that exits with 0 can work until rm-user is given it, and   *)
(* the dumps can always read (create-user.cc:106-149, rm-user.cc:57-111).  *)
(***************************************************************************)
THEOREM CreatedUsersStayAble == ProgramsSpec => []CreatedUsersCanWork
<1>1. ProgramsInit => UsersInv
  BY FS_EmptySet DEF ProgramsInit, UsersInv, LocalOK, AccountsOK, CreatesOK, DropsOK
<1>2. UsersInv => CreatedUsersCanWork
  <2> SUFFICES ASSUME UsersInv, NEW p \in Processes,
                      arguments[p].program = "create-user", at[p] = "exit 0"
               PROVE  LET a == arguments[p]
                      IN /\ \A r \in AccountsOf(Reader) : <<r, a.db, "select">> \in grants
                         /\ Removed(a.user) \/ \A u \in AccountsOf(a.user) : <<u, a.db, "all">> \in grants
    BY DEF CreatedUsersCanWork, Removed, Waits
  <2>1. \A g \in Required(p) : Provided(p, g)
    BY DEF UsersInv, CreatesOK
  <2>2. ASSUME NEW r \in AccountsOf(Reader) PROVE <<r, arguments[p].db, "select">> \in grants
    <3>1. PICK h \in Hosts : r = <<Reader, h>>
      BY AccountsOfUsers
    <3> DEFINE g == Grant(Reader, h, "select")
    <3>2. g \in Required(p) /\ g.account = r /\ g.privilege = "select" /\ r[1] = Reader
      BY <3>1 DEF Required, Grant
    <3> HIDE DEF g
    <3> QED BY <2>1, <3>2 DEF Provided
  <2>3. ASSUME NEW u \in AccountsOf(arguments[p].user), ~Removed(arguments[p].user)
        PROVE  <<u, arguments[p].db, "all">> \in grants
    <3>1. PICK h \in Hosts : u = <<arguments[p].user, h>>
      BY AccountsOfUsers
    <3> DEFINE g == Grant(arguments[p].user, h, "all")
    <3>2. g \in Required(p) /\ g.account = u /\ g.privilege = "all"
      BY <3>1 DEF Required, Grant
    <3> HIDE DEF g
    <3> QED BY <2>1, <2>3, <3>2 DEF Provided
  <2> QED BY <2>2, <2>3
<1> QED BY <1>1, <1>2, UsersInvKept, PTL DEF ProgramsSpec
-----------------------------------------------------------------------------
\* The sections that a program was given.
Given(a) ==
  LET S == Sections(a)
  IN  /\ S \in Seq(Range(S))
      /\ \A i \in DOMAIN S :
           /\ S[i].parameters \in Seq(Range(S[i].parameters))
           /\ \A j \in DOMAIN S[i].parameters : S[i].parameters[j].value \in Values

\* The place of c in the table of a section.
Hits(a, s, c) == s.table = c[2] /\ Known(a, s.db) /\ LoginOf(a, s.db).db = c[1]

Named(entries, n) == {j \in DOMAIN entries : entries[j].name = n}

LEMMA LastOfName ==
  ASSUME NEW entries, entries \in Seq(Range(entries)), NEW n \in Parameters,
         Named(entries, n) # {}
  PROVE  \E j \in Named(entries, n) :
           /\ \A i \in Named(entries, n) : i <= j
           /\ MapOf(entries)[n] = entries[j].value
<1> DEFINE I == Named(entries, n)
           latest == CHOOSE i \in I : \A j \in I : j <= i
<1>1. Len(entries) \in Nat /\ I \in SUBSET (1 .. Len(entries))
  BY LenProperties DEF Named
<1>2. \E x \in I : \A y \in I : y <= x
  <2> HIDE DEF I
  <2> QED BY <1>1, GreatestExists DEF I
<1>3. latest \in I /\ \A j \in I : j <= latest
  BY <1>2
<1>4. MapOf(entries)[n] = entries[latest].value
  BY DEF MapOf, Named
<1> HIDE DEF latest
<1> QED BY <1>3, <1>4

LEMMA NoneOfName ==
  ASSUME NEW entries, NEW n \in Parameters
  PROVE  Named(entries, n) = {} => MapOf(entries)[n] = NoValue
BY DEF MapOf, Named

\* The entries of one more section.
LEMMA EntriesNext ==
  ASSUME NEW a, NEW k \in Nat, NEW c
  PROVE  LET s == Sections(a)[k + 1]
         IN Entries(a, k + 1, c) = Entries(a, k, c) \union
              (IF Hits(a, s, c) THEN {k + 1} \X Named(s.parameters, c[3]) ELSE {})
<1> DEFINE S == Sections(a)
           H(n) == {i \in 1 .. n : Hits(a, S[i], c)}
           E(n) == {e \in UNION {{i} \X DOMAIN S[i].parameters : i \in H(n)} :
                      S[e[1]].parameters[e[2]].name = c[3]}
<1>1. Entries(a, k + 1, c) = E(k + 1) /\ Entries(a, k, c) = E(k)
  BY DEF Entries, Hits
<1>2. H(k + 1) = H(k) \union (IF Hits(a, S[k + 1], c) THEN {k + 1} ELSE {})
  <2>1. 1 .. k + 1 = (1 .. k) \union {k + 1}
    OBVIOUS
  <2> QED BY <2>1
<1> HIDE DEF S, H
<1>3. E(k + 1) = E(k) \union
        (IF Hits(a, S[k + 1], c) THEN {k + 1} \X Named(S[k + 1].parameters, c[3]) ELSE {})
  BY <1>2 DEF Named
<1> QED BY <1>1, <1>3 DEF S

\* One more section gives a cell its last entry of the name, or leaves it.
LEMMA MeantNext ==
  ASSUME NEW a, Given(a), NEW k \in Nat, k < Len(Sections(a)), NEW c \in Cells
  PROVE  LET s == Sections(a)[k + 1]
             m == MapOf(s.parameters)
         IN Meant(a, k + 1, c) = IF Hits(a, s, c) /\ m[c[3]] # NoValue THEN m[c[3]]
                                 ELSE Meant(a, k, c)
<1> DEFINE s == Sections(a)[k + 1]
           m == MapOf(s.parameters)
           N == Named(s.parameters, c[3])
           E == Entries(a, k + 1, c)
           D == Entries(a, k, c)
<1>1. c[3] \in Parameters
  BY DEF Cells
<1>2. /\ s.parameters \in Seq(Range(s.parameters))
      /\ \A j \in DOMAIN s.parameters : s.parameters[j].value \in Values
  <2>1. k + 1 \in DOMAIN Sections(a)
    BY LenProperties DEF Given
  <2> QED BY <2>1 DEF Given
<1>3. E = D \union (IF Hits(a, s, c) THEN {k + 1} \X N ELSE {})
  BY EntriesNext
<1>4. CASE ~(Hits(a, s, c) /\ N # {})
  <2>1. E = D
    BY <1>3, <1>4
  <2> DEFINE V(X) ==
        LET latest == CHOOSE e \in X : \A f \in X : f[1] < e[1] \/ (f[1] = e[1] /\ f[2] <= e[2])
        IN IF X = {} THEN NoValue ELSE Sections(a)[latest[1]].parameters[latest[2]].value
  <2>2. Meant(a, k + 1, c) = Meant(a, k, c)
    <3>1. Meant(a, k + 1, c) = V(E) /\ Meant(a, k, c) = V(D)
      BY DEF Meant
    <3> HIDE DEF V, E, D
    <3> QED BY <2>1, <3>1
  <2>3. N = {} => m[c[3]] = NoValue
    BY <1>1, NoneOfName
  <2> QED BY <1>4, <2>2, <2>3
<1>5. CASE Hits(a, s, c) /\ N # {}
  <2>1. PICK j \in N : (\A i \in N : i <= j) /\ m[c[3]] = s.parameters[j].value
    BY <1>1, <1>2, <1>5, LastOfName
  <2>2. N \subseteq Nat
    BY <1>2, LenProperties DEF Named
  <2>3. \A e \in D : e[1] \in 1 .. k
    BY DEF Entries
  <2>4. E = D \union ({k + 1} \X N)
    BY <1>3, <1>5
  <2> DEFINE After(e, f) == f[1] < e[1] \/ (f[1] = e[1] /\ f[2] <= e[2])
             latest == CHOOSE e \in E : \A f \in E : After(e, f)
             l == <<k + 1, j>>
  <2>5. Meant(a, k + 1, c) = Sections(a)[latest[1]].parameters[latest[2]].value
    <3>1. E # {}
      <4> HIDE DEF D, E, N
      <4>1. <<k + 1, j>> \in E
        BY <2>4
      <4> QED BY <4>1
    <3> QED BY <3>1 DEF Meant
  <2>6. m[c[3]] \in Values
    BY <1>2, <2>1 DEF Named
  <2> HIDE DEF E, D, N, m, s
  <2>7. l \in E /\ l[1] = k + 1 /\ l[2] = j
    BY <2>4
  <2>8. ASSUME NEW f \in E PROVE After(l, f)
    <3>1. CASE f \in D
      BY <2>3, <2>7, <3>1
    <3>2. CASE f \in {k + 1} \X N
      BY <2>1, <2>7, <3>2
    <3> QED BY <2>4, <3>1, <3>2
  <2>9. ASSUME NEW e \in E, \A f \in E : After(e, f) PROVE e = l
    <3>1. After(e, l)
      BY <2>7, <2>9
    <3>2. e \notin D
      BY <2>3, <2>7, <3>1
    <3>3. e \in {k + 1} \X N
      BY <2>4, <3>2
    <3>4. e[1] = k + 1 /\ e[2] \in N /\ e = <<e[1], e[2]>>
      BY <3>3
    <3>5. j <= e[2] /\ e[2] <= j
      BY <2>1, <2>7, <3>1, <3>4
    <3>6. e[2] = j
      BY <2>1, <2>2, <3>4, <3>5
    <3> QED BY <3>4, <3>6
  <2>10. latest = l
    <3> HIDE DEF After, l
    <3> QED BY <2>7, <2>8, <2>9
  <2>11. Meant(a, k + 1, c) = Sections(a)[k + 1].parameters[j].value
    BY <2>5, <2>7, <2>10
  <2>12. Meant(a, k + 1, c) = m[c[3]]
    BY <2>1, <2>11 DEF s
  <2> QED BY <1>5, <2>6, <2>12, TablesAssumption DEF s, m
<1> QED BY <1>4, <1>5

LEMMA NothingMeant == \A a, c : Meant(a, 0, c) = NoValue
<1> TAKE a, c
<1>1. Entries(a, 0, c) = {}
  BY DEF Entries
<1> QED BY <1>1 DEF Meant
-----------------------------------------------------------------------------
\* The server's tables, and that those of the cells that were written exist.
StoredOK ==
  /\ DOMAIN stored = Databases
  /\ \A d \in Databases : DOMAIN stored[d] = Tables
  /\ \A c \in Cells : writers[c].all # {} => stored[c[1]][c[2]] # Absent

LEMMA TableCreated ==
  ASSUME StoredOK, NEW d, NEW t, CreatesTable(d, t), UNCHANGED writers
  PROVE  /\ StoredOK'
         /\ \A c \in Cells :
              writers[c].all # {} => stored'[c[1]][c[2]][c[3]] = stored[c[1]][c[2]][c[3]]
<1>1. /\ DOMAIN stored' = Databases
      /\ \A e \in Databases : DOMAIN stored'[e] = Tables
  BY DEF StoredOK, CreatesTable
<1>2. \A e \in Databases, u \in Tables :
        stored[e][u] # Absent => stored'[e][u] = stored[e][u]
  BY DEF StoredOK, CreatesTable
<1>3. \A c \in Cells : c[1] \in Databases /\ c[2] \in Tables
  BY DEF Cells
<1> QED BY <1>1, <1>2, <1>3 DEF StoredOK

LEMMA RowsWritten ==
  ASSUME StoredOK, NEW p, NEW d, NEW t, NEW m, Writes(p, d, t, m)
  PROVE  /\ StoredOK'
         /\ \A c \in Cells :
              IF c[1] = d /\ c[2] = t /\ m[c[3]] # NoValue
              THEN /\ writers'[c].all = writers[c].all \union {p} /\ writers'[c].last = p
                   /\ stored'[c[1]][c[2]][c[3]] = m[c[3]]
              ELSE /\ writers'[c] = writers[c]
                   /\ stored'[c[1]][c[2]][c[3]] = stored[c[1]][c[2]][c[3]]
<1>1. /\ DOMAIN stored' = Databases
      /\ \A e \in Databases : DOMAIN stored'[e] = Tables
  BY DEF StoredOK, Writes
<1>2. \A c \in Cells : c[1] \in Databases /\ c[2] \in Tables /\ c[3] \in Parameters
  BY DEF Cells
<1>3. ASSUME NEW c \in Cells
      PROVE  stored'[c[1]][c[2]] = IF c[1] = d /\ c[2] = t THEN Replacing(stored[d][t], m)
                                   ELSE stored[c[1]][c[2]]
  BY <1>2 DEF StoredOK, Writes
<1>4. ASSUME NEW c \in Cells
      PROVE  Replacing(stored[d][t], m)[c[3]] =
               IF m[c[3]] = NoValue THEN stored[d][t][c[3]] ELSE m[c[3]]
  BY <1>2 DEF Replacing
<1>5. ASSUME NEW c \in Cells
      PROVE  IF c[1] = d /\ c[2] = t /\ m[c[3]] # NoValue
             THEN writers'[c].all = writers[c].all \union {p} /\ writers'[c].last = p
             ELSE writers'[c] = writers[c]
  BY DEF Writes
<1>6. ASSUME NEW c \in Cells, writers'[c].all # {} PROVE stored'[c[1]][c[2]] # Absent
  <2>1. CASE c[1] = d /\ c[2] = t
    <3>1. c[3] \in DOMAIN Replacing(stored[d][t], m)
      BY <1>2 DEF Replacing
    <3>2. DOMAIN Absent = {}
      BY EmptySeq DEF Absent
    <3> QED BY <1>3, <2>1, <3>1, <3>2
  <2>2. CASE ~(c[1] = d /\ c[2] = t)
    BY <1>3, <1>5, <1>6, <2>2 DEF StoredOK
  <2> QED BY <2>1, <2>2
<1> QED BY <1>1, <1>3, <1>4, <1>5, <1>6 DEF StoredOK
-----------------------------------------------------------------------------
Kept(c) ==
  /\ writers'[c] = writers[c]
  /\ writers[c].all # {} => stored'[c[1]][c[2]][c[3]] = stored[c[1]][c[2]][c[3]]

WrittenBy(c, p) == writers'[c].all = writers[c].all \union {p} /\ writers'[c].last = p

\* A step writes cells only for its own process, and only to store a section.
LEMMA StepsWrite ==
  ASSUME StoredOK, NEW p \in Processes, StepOf(p)
  PROVE  /\ StoredOK'
         /\ \A c \in Cells : Kept(c) \/ WrittenBy(c, p)
         /\ ~StoresSection(p) => \A c \in Cells : Kept(c)
<1>1. CASE UNCHANGED <<stored, writers>>
  <2>1. StoredOK'
    BY <1>1 DEF StoredOK
  <2>2. \A c \in Cells : Kept(c)
    BY <1>1 DEF Kept
  <2> QED BY <2>1, <2>2
<1>2. ASSUME NEW d, NEW t, CreatesTable(d, t), UNCHANGED writers
      PROVE  StoredOK' /\ \A c \in Cells : Kept(c)
  BY <1>2, TableCreated DEF Kept
<1>3. ASSUME NEW d, NEW t, NEW m, Writes(p, d, t, m)
      PROVE  StoredOK' /\ \A c \in Cells : Kept(c) \/ WrittenBy(c, p)
  BY <1>3, RowsWritten DEF Kept, WrittenBy
<1>4. CASE StoresSection(p)
  BY <1>1, <1>3, <1>4 DEF StoresSection, Ended, server
<1>5. CASE StartsSection(p)
  BY <1>1, <1>2, <1>5 DEF StartsSection, Connects, Skips, Ended, server
<1>6. CASE ~StoresSection(p) /\ ~StartsSection(p)
  <2>1. UNCHANGED <<stored, writers>>
    BY <1>6 DEF StepOf, ConnectsAsRoot, CreatesDatabase, LooksForReader, Executes,
         ReadsAccounts, DropsAccount, ReadsArguments, EndsSections, OpensDump, PrintsTable,
         SavesTable, Ended, server
  <2> QED BY <1>1, <1>6, <2>1
<1> QED BY <1>4, <1>5, <1>6

\* What p pushed stays what it pushed while others write.
LEMMA PushedStays ==
  ASSUME UNCHANGED arguments, NEW p, NEW k, Pushed(p, k),
         \A c \in Cells : Kept(c) \/ \E q : q # p /\ WrittenBy(c, q)
  PROVE  Pushed(p, k)'
<1>1. SUFFICES ASSUME NEW c \in Cells
      PROVE  LET mine == p \in writers'[c].all
                 meant == Meant(arguments[p], k, c)
             IN /\ mine <=> meant # NoValue
                /\ (mine /\ writers'[c].last = p) => stored'[c[1]][c[2]][c[3]] = meant
  BY DEF Pushed, Cells
<1>2. /\ p \in writers[c].all <=> Meant(arguments[p], k, c) # NoValue
      /\ (p \in writers[c].all /\ writers[c].last = p) =>
           stored[c[1]][c[2]][c[3]] = Meant(arguments[p], k, c)
  BY DEF Pushed
<1>3. CASE Kept(c)
  BY <1>2, <1>3 DEF Kept
<1>4. ASSUME NEW q, q # p, WrittenBy(c, q)
      PROVE  /\ p \in writers'[c].all <=> p \in writers[c].all
             /\ writers'[c].last # p
  BY <1>4 DEF WrittenBy
<1> QED BY <1>2, <1>3, <1>4

\* l is what is left of the sections S after the first k.
Rest(l, S, k) ==
  l \in Seq(Range(S)) /\ Len(l) = Len(S) - k /\ \A i \in 1 .. Len(l) : l[i] = S[k + i]

LEMMA RestNext ==
  ASSUME NEW S, S \in Seq(Range(S)), NEW k \in 0 .. Len(S), NEW l, Rest(l, S, k), l # <<>>
  PROVE  k < Len(S) /\ Head(l) = S[k + 1] /\ Rest(Tail(l), S, k + 1)
<1>1. l \in Seq(Range(S)) /\ Len(S) \in Nat /\ Len(l) \in Nat /\ Len(l) = Len(S) - k
  BY LenProperties DEF Rest
<1>2. Len(l) # 0
  BY <1>1, EmptySeq
<1>3. /\ Head(l) = l[1] /\ Tail(l) \in Seq(Range(S)) /\ Len(Tail(l)) = Len(l) - 1
      /\ \A i \in 1 .. Len(Tail(l)) : Tail(l)[i] = l[i + 1]
  BY <1>1, HeadTailProperties
<1>4. Head(l) = S[k + 1]
  BY <1>1, <1>2, <1>3 DEF Rest
<1>5. ASSUME NEW i \in 1 .. Len(Tail(l)) PROVE Tail(l)[i] = S[k + 1 + i]
  <2>1. i + 1 \in 1 .. Len(l) /\ k + (i + 1) = k + 1 + i
    BY <1>1, <1>3
  <2> QED BY <1>3, <2>1 DEF Rest
<1> QED BY <1>1, <1>2, <1>3, <1>4, <1>5 DEF Rest

\* Where a program that pushes is in its sections.
PushOK(p) ==
  LET a == arguments[p]  S == Sections(a)
  IN a.program \in Pushers =>
       /\ at[p] \in {"begin", "section", "table"} \union Ends
       /\ at[p] = "begin" => Pushed(p, 0)
       /\ at[p] \in {"section", "table"} =>
            \E k \in 0 .. Len(S) : Pushed(p, k) /\ Rest(todo[p], S, k)
       /\ at[p] = "table" => todo[p] # <<>> /\ Known(a, Head(todo[p]).db)
       /\ at[p] = "exit 0" => Pushed(p, Len(S))
       /\ at[p] \in Ends => \E k \in 0 .. Len(S) : Pushed(p, k)
       /\ \A id \in DOMAIN sessions[p] : Known(a, id)

\* The inductive invariant of PushesStoreTheirSections.
PushInv ==
  LocalOK /\ arguments \in Workloads /\ StoredOK /\ \A p \in Processes : PushOK(p)

\* What PushOK(p) needs after a step, when the options stay.
LEMMA PushNext ==
  ASSUME UNCHANGED arguments, NEW p,
         arguments[p].program \in Pushers =>
           /\ at'[p] \in {"begin", "section", "table"} \union Ends
           /\ at'[p] = "begin" => Pushed(p, 0)'
           /\ at'[p] \in {"section", "table"} =>
                \E k \in 0 .. Len(Sections(arguments[p])) :
                  Pushed(p, k)' /\ Rest(todo'[p], Sections(arguments[p]), k)
           /\ at'[p] = "table" =>
                todo'[p] # <<>> /\ Known(arguments[p], Head(todo'[p]).db)
           /\ at'[p] = "exit 0" =>
                \A k : k = Len(Sections(arguments[p])) => Pushed(p, k)'
           /\ at'[p] \in Ends => \E k \in 0 .. Len(Sections(arguments[p])) : Pushed(p, k)'
           /\ \A id \in DOMAIN sessions'[p] : Known(arguments[p], id)
  PROVE  PushOK(p)'
BY DEF PushOK, Pushers, Ends

\* WorkloadsAssumption, of the arguments in use.
LEMMA GivenSections ==
  ASSUME PushInv, NEW p \in Processes, arguments[p].program \in Pushers
  PROVE  Given(arguments[p])
BY WorkloadsAssumption DEF PushInv, Given, Pushers

\* A section that is skipped or stored is one more that was pushed.
LEMMA PushedNext ==
  ASSUME StoredOK, UNCHANGED arguments, NEW p, Given(arguments[p]), NEW k \in Nat,
         k < Len(Sections(arguments[p])), Pushed(p, k),
         LET s == Sections(arguments[p])[k + 1]
         IN \/ s.parameters = <<>> /\ \A c \in Cells : Kept(c)
            \/ /\ Known(arguments[p], s.db)
               /\ Writes(p, LoginOf(arguments[p], s.db).db, s.table, MapOf(s.parameters))
  PROVE  Pushed(p, k + 1)'
<1> DEFINE a == arguments[p]
           s == Sections(a)[k + 1]
           m == MapOf(s.parameters)
<1>1. SUFFICES ASSUME NEW c \in Cells
      PROVE  LET mine == p \in writers'[c].all
                 meant == Meant(a, k + 1, c)
             IN /\ mine <=> meant # NoValue
                /\ (mine /\ writers'[c].last = p) => stored'[c[1]][c[2]][c[3]] = meant
  BY DEF Pushed, Cells
<1>2. /\ p \in writers[c].all <=> Meant(a, k, c) # NoValue
      /\ (p \in writers[c].all /\ writers[c].last = p) =>
           stored[c[1]][c[2]][c[3]] = Meant(a, k, c)
  BY DEF Pushed
<1>3. Meant(a, k + 1, c) = IF Hits(a, s, c) /\ m[c[3]] # NoValue THEN m[c[3]] ELSE Meant(a, k, c)
  BY MeantNext
<1>4. CASE s.parameters = <<>> /\ \A d \in Cells : Kept(d)
  <2>1. m[c[3]] = NoValue
    <3>1. Named(<<>>, c[3]) = {} /\ c[3] \in Parameters
      BY EmptySeq DEF Named, Cells
    <3> QED BY <1>4, <3>1, NoneOfName
  <2>2. Kept(c)
    BY <1>4
  <2> HIDE DEF s, m
  <2> QED BY <1>2, <1>3, <2>1, <2>2 DEF Kept
<1>5. CASE Known(a, s.db) /\ Writes(p, LoginOf(a, s.db).db, s.table, m)
  <2> HIDE DEF m
  <2>1. IF c[1] = LoginOf(a, s.db).db /\ c[2] = s.table /\ m[c[3]] # NoValue
        THEN /\ writers'[c].all = writers[c].all \union {p} /\ writers'[c].last = p
             /\ stored'[c[1]][c[2]][c[3]] = m[c[3]]
        ELSE /\ writers'[c] = writers[c]
             /\ stored'[c[1]][c[2]][c[3]] = stored[c[1]][c[2]][c[3]]
    BY <1>5, RowsWritten
  <2>2. Hits(a, s, c) <=> c[1] = LoginOf(a, s.db).db /\ c[2] = s.table
    BY <1>5 DEF Hits
  <2> HIDE DEF s, a
  <2> QED BY <1>2, <1>3, <2>1, <2>2
<1> QED BY <1>4, <1>5

\* A step of a program that pushes takes it to the next of its sections.
LEMMA PushStaysOK ==
  ASSUME PushInv, NEW p \in Processes, StepOf(p)
  PROVE  PushOK(p)'
<1> DEFINE a == arguments[p]
           S == Sections(a)
           Stays ==
             /\ at'[p] \in {"section", "table"} \union Ends
             /\ at'[p] \in {"section", "table"} =>
                  \E k \in 0 .. Len(S) : Pushed(p, k)' /\ Rest(todo'[p], S, k)
             /\ at'[p] = "table" => todo'[p] # <<>> /\ Known(a, Head(todo'[p]).db)
             /\ at'[p] = "exit 0" => \A k : k = Len(S) => Pushed(p, k)'
             /\ at'[p] \in Ends => \E k \in 0 .. Len(S) : Pushed(p, k)'
             /\ \A id \in DOMAIN sessions'[p] : Known(a, id)
<1>1. /\ UNCHANGED arguments /\ p \in DOMAIN at /\ p \in DOMAIN todo /\ p \in DOMAIN sessions
  BY StepsAreLocal DEF PushInv, LocalOK
<1>2. /\ StoredOK /\ PushOK(p)
      /\ ~StoresSection(p) => \A c \in Cells : Kept(c)
  BY StepsWrite DEF PushInv
<1>3. SUFFICES ASSUME a.program \in Pushers
      PROVE  Stays
  BY <1>1, PushNext DEF Ends
<1>4. Given(a) /\ S \in Seq(Range(S)) /\ Len(S) \in Nat
  BY <1>3, GivenSections, LenProperties DEF Given
<1>5. ~StoresSection(p) => \A k : Pushed(p, k) => Pushed(p, k)'
  BY <1>1, <1>2, PushedStays
<1>6. \A id \in DOMAIN sessions[p] : Known(a, id)
  BY <1>2, <1>3 DEF PushOK
<1>7. ASSUME at[p] \in {"section", "table"}
      PROVE  \E k \in 0 .. Len(S) : Pushed(p, k) /\ Rest(todo[p], S, k)
  BY <1>2, <1>3, <1>7 DEF PushOK
<1> HIDE DEF a, S, Stays
<1>8. ASSUME NEW how \in Ends, Ended(p, how), NEW k \in 0 .. Len(S), Pushed(p, k),
             how = "exit 0" => k = Len(S)
      PROVE  Stays
  <2>1. \A c \in Cells : Kept(c)
    BY <1>8 DEF Ended, server, Kept
  <2>2. \A j : Pushed(p, j) => Pushed(p, j)'
    BY <1>1, <2>1, PushedStays
  <2>3. at'[p] = how /\ sessions' = sessions
    BY <1>1, <1>8 DEF Ended, Goes
  <2>4. how = "exit 0" => Pushed(p, Len(S))
    BY <1>8
  <2>5. \E j \in 0 .. Len(S) : Pushed(p, j)'
    BY <1>8, <2>2
  <2>6. how = "exit 0" => \A j : j = Len(S) => Pushed(p, j)'
    BY <2>2, <2>4
  <2>7. how \notin {"section", "table"}
    BY DEF Ends
  <2> QED BY <1>6, <2>3, <2>5, <2>6, <2>7 DEF Stays, Ends
<1>9. CASE ReadsArguments(p)
  <2>1. Pushed(p, 0)
    BY <1>2, <1>3, <1>9 DEF PushOK, ReadsArguments, a
  <2>0. 0 \in 0 .. Len(S)
    BY <1>4
  <2>2. CASE Ended(p, "exit 1") \/ Ended(p, "abort")
    <3>1. PICK k \in 0 .. Len(S) : Pushed(p, k)
      BY <2>0, <2>1
    <3> QED BY <1>8, <2>2, <3>1 DEF Ends
  <2>3. CASE todo' = [todo EXCEPT ![p] = S] /\ Goes(p, "section") /\ UNCHANGED <<sessions, server>>
    <3>1. Rest(S, S, 0)
      BY <1>4 DEF Rest
    <3>2. Pushed(p, 0)'
      <4>1. \A c \in Cells : Kept(c)
        BY <2>3 DEF server, Kept
      <4> QED BY <1>1, <2>1, <4>1, PushedStays
    <3> QED BY <1>1, <1>6, <2>0, <2>3, <3>1, <3>2 DEF Goes, Ends, Stays
  <2> QED BY <1>9, <2>2, <2>3 DEF ReadsArguments, a, S
<1>10. CASE StartsSection(p)
  <2>1. at[p] = "section" /\ todo[p] # <<>>
    BY <1>10 DEF StartsSection
  <2>2. PICK k \in 0 .. Len(S) : Pushed(p, k) /\ Rest(todo[p], S, k)
    BY <1>7, <2>1
  <2> DEFINE s == Head(todo[p])
  <2>3. CASE Ended(p, "exit 1") \/ Ended(p, "abort")
    BY <1>8, <2>2, <2>3 DEF Ends
  <2>4. CASE s.parameters = <<>> /\ Skips(p)
    <3>1. k < Len(S) /\ s = S[k + 1] /\ Rest(Tail(todo[p]), S, k + 1)
      BY <1>4, <2>1, <2>2, RestNext
    <3>2. \A c \in Cells : Kept(c)
      BY <2>4 DEF Skips, server, Kept
    <3>3. Pushed(p, k + 1)'
      <4>1. S[k + 1].parameters = <<>>
        BY <2>4, <3>1
      <4>2. k \in Nat /\ k < Len(S) /\ Pushed(p, k)
        BY <1>4, <2>2, <3>1
      <4> HIDE DEF s
      <4> QED BY <1>1, <1>2, <1>4, <3>2, <4>1, <4>2, PushedNext DEF a, S
    <3>4. /\ todo'[p] = Tail(todo[p]) /\ at'[p] = "section" /\ sessions' = sessions
      BY <1>1, <2>4 DEF Skips, Goes
    <3>5. k + 1 \in 0 .. Len(S)
      BY <1>4, <3>1
    <3> QED BY <1>6, <3>1, <3>3, <3>4, <3>5 DEF Ends, Stays
  <2>5. CASE Known(a, s.db) /\ Connects(p, s.db) /\ ~Ended(p, "exit 1") /\ ~Ended(p, "abort")
    <3>1. /\ todo' = todo /\ at'[p] = "section" /\ DOMAIN sessions'[p] = DOMAIN sessions[p] \union {s.db}
          /\ UNCHANGED server
      BY <1>1, <2>5 DEF Connects, OpensSession, Goes
    <3>2. Pushed(p, k)'
      <4>1. \A c \in Cells : Kept(c)
        BY <3>1 DEF server, Kept
      <4> QED BY <1>1, <2>2, <4>1, PushedStays
    <3> QED BY <1>6, <2>2, <2>5, <3>1, <3>2 DEF Ends, Stays
  <2>6. CASE /\ s.db \in DOMAIN sessions[p] /\ Goes(p, "table")
             /\ UNCHANGED <<todo, sessions>> /\ ~StoresSection(p)
    <3>1. Known(a, s.db) /\ at'[p] = "table"
      BY <1>1, <1>6, <2>6 DEF Goes
    <3> QED BY <1>5, <1>6, <2>1, <2>2, <2>6, <3>1 DEF Ends, Stays
  <2>7. ~StoresSection(p)
    BY <2>1 DEF StoresSection
  <2> QED BY <1>10, <2>3, <2>4, <2>5, <2>6, <2>7 DEF StartsSection, a
<1>11. CASE StoresSection(p)
  <2>1. at[p] = "table" /\ todo[p] # <<>> /\ Known(a, Head(todo[p]).db)
    BY <1>2, <1>3, <1>11 DEF StoresSection, PushOK, a
  <2>2. PICK k \in 0 .. Len(S) : Pushed(p, k) /\ Rest(todo[p], S, k)
    BY <1>7, <2>1
  <2> DEFINE s == Head(todo[p])
  <2>3. CASE Ended(p, "exit 1")
    BY <1>8, <2>2, <2>3 DEF Ends
  <2>4. CASE /\ Writes(p, LoginOf(a, s.db).db, s.table, MapOf(s.parameters))
             /\ todo' = [todo EXCEPT ![p] = Tail(@)] /\ Goes(p, "section") /\ UNCHANGED sessions
    <3>1. k < Len(S) /\ s = S[k + 1] /\ Rest(Tail(todo[p]), S, k + 1)
      BY <1>4, <2>1, <2>2, RestNext
    <3>2. Pushed(p, k + 1)'
      <4>1. /\ Known(a, S[k + 1].db)
            /\ Writes(p, LoginOf(a, S[k + 1].db).db, S[k + 1].table, MapOf(S[k + 1].parameters))
        BY <2>1, <2>4, <3>1
      <4>2. k \in Nat /\ k < Len(S) /\ Pushed(p, k)
        BY <1>4, <2>2, <3>1
      <4> HIDE DEF s
      <4> QED BY <1>1, <1>2, <1>4, <4>1, <4>2, PushedNext DEF a, S
    <3>3. todo'[p] = Tail(todo[p]) /\ at'[p] = "section"
      BY <1>1, <2>4 DEF Goes
    <3>4. k + 1 \in 0 .. Len(S)
      BY <1>4, <3>1
    <3> QED BY <1>6, <2>4, <3>1, <3>2, <3>3, <3>4 DEF Ends, Stays
  <2> QED BY <1>11, <2>3, <2>4 DEF StoresSection, a
<1>12. CASE EndsSections(p)
  <2>1. /\ at[p] = "section" /\ todo[p] = <<>>
        /\ Ended(p, "exit 0") \/ Ended(p, "exit 1")
    BY <1>12 DEF EndsSections
  <2>2. PICK k \in 0 .. Len(S) : Pushed(p, k) /\ Rest(todo[p], S, k)
    BY <1>7, <2>1
  <2>3. k = Len(S)
    <3>1. Len(S) - k = 0
      BY <2>1, <2>2, EmptySeq DEF Rest
    <3> QED BY <1>4, <2>2, <3>1
  <2> QED BY <1>8, <2>1, <2>2, <2>3 DEF Ends
<1>13. CASE /\ ~ReadsArguments(p) /\ ~StartsSection(p)
            /\ ~StoresSection(p) /\ ~EndsSections(p)
  BY <1>3, <1>13 DEF StepOf, ConnectsAsRoot, CreatesDatabase, LooksForReader, Executes,
       ReadsAccounts, DropsAccount, OpensDump, PrintsTable, SavesTable, Runs, Pushers, a
<1> QED BY <1>9, <1>10, <1>11, <1>12, <1>13

LEMMA PushInvKept == PushInv /\ [ProgramsNext]_programVars => PushInv'
<1> SUFFICES ASSUME PushInv, [ProgramsNext]_programVars PROVE PushInv'
  OBVIOUS
<1>1. CASE UNCHANGED programVars
  <2>1. UNCHANGED <<arguments, at, todo, sessions, stored, writers>>
    BY <1>1 DEF programVars, local, server
  <2>2. LocalOK' /\ arguments' \in Workloads /\ StoredOK'
    BY <2>1 DEF PushInv, LocalOK, StoredOK
  <2>3. ASSUME NEW p \in Processes PROVE PushOK(p)'
    <3>1. \A c \in Cells : Kept(c)
      BY <2>1 DEF Kept
    <3>2. \A k : Pushed(p, k) => Pushed(p, k)'
      BY <2>1, <3>1, PushedStays
    <3> QED BY <2>1, <3>2, PushNext DEF PushInv, PushOK
  <2> QED BY <2>2, <2>3 DEF PushInv
<1>2. ASSUME NEW p \in Processes, StepOf(p) PROVE PushInv'
  <2>1. LocalOK' /\ arguments' \in Workloads /\ StoredOK'
    BY <1>2, StepsAreLocal, StepsWrite DEF PushInv
  <2>2. PushOK(p)'
    BY <1>2, PushStaysOK
  <2>3. ASSUME NEW q \in Processes, q # p PROVE PushOK(q)'
    <3>1. at'[q] = at[q] /\ todo'[q] = todo[q] /\ sessions'[q] = sessions[q] /\ UNCHANGED arguments
      BY <1>2, <2>3, StepsAreLocal DEF PushInv
    <3>2. \A c \in Cells : Kept(c) \/ WrittenBy(c, p)
      BY <1>2, StepsWrite DEF PushInv
    <3>3. \A k : Pushed(q, k) => Pushed(q, k)'
      BY <2>3, <3>1, <3>2, PushedStays
    <3> QED BY <3>1, <3>3, PushNext DEF PushInv, PushOK
  <2> QED BY <2>1, <2>2, <2>3 DEF PushInv
<1> QED BY <1>1, <1>2 DEF ProgramsNext, StepOf

(***************************************************************************)
(* For any files, tables and programs side by side: what a program that    *)
(* pushes leaves is its first sections, each of them whole, and all of     *)
(* them if it exits with 0 (push-parameters.cc:110-196).                   *)
(***************************************************************************)
THEOREM PushedSectionsAreStored == ProgramsSpec => []PushesStoreTheirSections
<1>1. ProgramsInit => PushInv
  <2> SUFFICES ASSUME ProgramsInit PROVE PushInv
    OBVIOUS
  <2>1. LocalOK /\ arguments \in Workloads
    BY DEF ProgramsInit, LocalOK
  <2>2. StoredOK /\ \A c \in Cells : writers[c].all = {}
    BY DEF ProgramsInit, StoredOK, Cells
  <2>3. \A p : Pushed(p, 0)
    BY <2>2, NothingMeant DEF Pushed
  <2>4. ASSUME NEW p \in Processes PROVE PushOK(p)
    <3>1. at[p] = "begin" /\ DOMAIN sessions[p] = {}
      BY EmptySeq DEF ProgramsInit
    <3> QED BY <2>3, <3>1 DEF PushOK, Ends
  <2> QED BY <2>1, <2>2, <2>4 DEF PushInv
<1>2. PushInv => PushesStoreTheirSections
  BY DEF PushInv, PushOK, PushesStoreTheirSections, Pushers
<1> QED BY <1>1, <1>2, PushInvKept, PTL DEF ProgramsSpec
-----------------------------------------------------------------------------
\* open() without overwrite chooses a name that no file has.
LEMMA FreeNamesAreFree ==
  ASSUME NEW base, NEW run, HasFreeName(base, run)
  PROVE  FreeName(base, run) \notin DOMAIN disk
<1>1. CASE File(base, NoRun, NoId) \notin DOMAIN disk
  BY <1>1 DEF FreeName
<1>2. CASE File(base, NoRun, NoId) \in DOMAIN disk
  <2> DEFINE free == {i \in 0 .. MaxId : File(base, run, i) \notin DOMAIN disk}
             first == CHOOSE i \in free : \A j \in free : i <= j
  <2>1. free # {}
    BY <1>2 DEF HasFreeName
  <2>2. free \in SUBSET Nat
    OBVIOUS
  <2>3. \E i \in free : \A j \in free : i <= j
    <3> HIDE DEF free
    <3> QED BY <2>1, <2>2, LeastExists
  <2>4. first \in free
    BY <2>3
  <2>5. FreeName(base, run) = File(base, run, first)
    BY <1>2 DEF FreeName
  <2> QED BY <2>4, <2>5
<1> QED BY <1>1, <1>2

\* The files that were opened exist; the one being opened without overwrite is
\* none of them, though another program may have created it.
FilesOK ==
  /\ own \subseteq DOMAIN disk
  /\ state = "opening" => mode \in Modes /\ (~overwrite => current \notin own)
  /\ state = "open" => current \in own

\* The places below top that the objects in W take.
PlacesOf(W, top) == {<<top \o x[1], x[2]>> : x \in W}

\* What W adds to the content c below top: w chooses among objects of one name.
LEMMA WithObjectsFacts ==
  ASSUME NEW c, NEW top, NEW P, NEW W, NEW d \in WithObjects(c, top, P, W)
  PROVE  /\ c.dirs \subseteq d.dirs
         /\ DOMAIN d.objects = DOMAIN c.objects \union PlacesOf(W, top)
         /\ \A k \in PlacesOf(W, top) :
              \E x \in W : k = <<top \o x[1], x[2]>> /\ d.objects[k] = x[3]
<1> DEFINE K == PlacesOf(W, top)
<1>1. PICK w \in {f \in [K -> W] : \A k \in DOMAIN f : k = <<top \o f[k][1], f[k][2]>>} :
        d = [dirs    |-> c.dirs \union {top \o p : p \in P},
             objects |-> [k \in DOMAIN c.objects \union K |->
                            IF k \in DOMAIN w THEN w[k][3] ELSE c.objects[k]]]
  BY DEF WithObjects, PlacesOf
<1> HIDE DEF K
<1>2. DOMAIN w = K /\ \A k \in K : w[k] \in W /\ k = <<top \o w[k][1], w[k][2]>>
  OBVIOUS
<1>3. /\ d.dirs = c.dirs \union {top \o p : p \in P}
      /\ d.objects = [k \in DOMAIN c.objects \union K |->
                        IF k \in K THEN w[k][3] ELSE c.objects[k]]
  BY <1>1, <1>2
<1>4. DOMAIN d.objects = DOMAIN c.objects \union K /\ \A k \in K : d.objects[k] = w[k][3]
  BY <1>3
<1> QED BY <1>2, <1>3, <1>4 DEF K

\* Archives only add to a file.
LEMMA ContentGrows ==
  ASSUME NEW s, NEW c, NEW top, NEW refs, NEW d \in Archived(s, c, top, refs)
  PROVE  c.dirs \subseteq d.dirs /\ DOMAIN c.objects \subseteq DOMAIN d.objects
<1> DEFINE P == Reached(s, c, top)
           W == Written(s, P, refs)
<1>1. d \in WithObjects(c, top, P, W)
  BY DEF Archived
<1> HIDE DEF P, W
<1> QED BY <1>1, WithObjectsFacts

LEMMA FilesStart == ArchiverInit => FilesOK
BY DEF ArchiverInit, FilesOK

LEMMA ArchiveFacts ==
  ASSUME FilesOK, NEW s \in Storages, NEW top, NEW refs, Archive(s, top, refs)
  PROVE  \/ disk' = disk
         \/ /\ state = "open"
            /\ \E c \in Archived(s, disk[current], top, refs) :
                 disk' = [disk EXCEPT ![current] = c]
BY DEF Archive

LEMMA FilesStay == FilesOK /\ [ArchiverNext]_archiverVars => FilesOK'
<1> SUFFICES ASSUME FilesOK, [ArchiverNext]_archiverVars PROVE FilesOK'
  OBVIOUS
<1>1. ASSUME NEW b, NEW r, NEW m \in Modes, NEW o \in BOOLEAN, Open(b, r, m, o) PROVE FilesOK'
  <2>1. CASE o
    BY <1>1, <2>1 DEF Open, FilesOK
  <2>2. CASE ~o
    <3>1. current' \notin DOMAIN disk
      BY <1>1, <2>2, FreeNamesAreFree DEF Open
    <3> QED BY <1>1, <3>1 DEF Open, FilesOK
  <2> QED BY <2>1, <2>2
<1>2. CASE OpenRefused \/ Close
  BY <1>2 DEF OpenRefused, Close, FilesOK
<1>3. CASE OpenFile
  BY <1>3 DEF OpenFile, FilesOK
<1>4. ASSUME NEW f, OtherCreates(f) PROVE FilesOK'
  BY <1>4 DEF OtherCreates, archive, FilesOK
<1>5. ASSUME NEW s \in Storages, NEW top, NEW refs, Archive(s, top, refs) PROVE FilesOK'
  <2>1. DOMAIN disk' = DOMAIN disk
    BY <1>5, ArchiveFacts
  <2> QED BY <1>5, <2>1 DEF Archive, archive, FilesOK
<1>6. CASE UNCHANGED archiverVars
  BY <1>6 DEF archiverVars, archive, FilesOK
<1> QED BY <1>1, <1>2, <1>3, <1>4, <1>5, <1>6 DEF ArchiverNext

\* What ArchivesArePreserved says of the file f.
Preserves(f) ==
  \/ OpenFile /\ overwrite /\ mode = "RECREATE" /\ f = current
  \/ /\ f \in DOMAIN disk'
     /\ disk[f].dirs \subseteq disk'[f].dirs
     /\ DOMAIN disk[f].objects \subseteq DOMAIN disk'[f].objects

LEMMA StepsPreserve ==
  ASSUME FilesOK, ArchiverNext, NEW f \in own
  PROVE  Preserves(f)
<1>1. f \in DOMAIN disk
  BY DEF FilesOK
<1>2. CASE disk' = disk
  BY <1>1, <1>2 DEF Preserves
<1>3. CASE OpenFile
  <2>1. CASE f = current
    BY <1>1, <1>2, <1>3, <2>1 DEF OpenFile, FilesOK, Modes, Preserves
  <2>2. CASE f # current
    BY <1>1, <1>3, <2>2 DEF OpenFile, Preserves
  <2> QED BY <2>1, <2>2
<1>4. ASSUME NEW g, OtherCreates(g) PROVE Preserves(f)
  BY <1>1, <1>4 DEF OtherCreates, Preserves
<1>5. ASSUME NEW s \in Storages, NEW top, NEW refs, Archive(s, top, refs) PROVE Preserves(f)
  <2>1. ASSUME NEW c \in Archived(s, disk[current], top, refs),
               disk' = [disk EXCEPT ![current] = c]
        PROVE  Preserves(f)
    <3>1. CASE f = current
      BY <1>1, <2>1, <3>1, ContentGrows DEF Preserves
    <3>2. CASE f # current
      BY <1>1, <2>1, <3>2 DEF Preserves
    <3> QED BY <3>1, <3>2
  <2> QED BY <1>2, <1>5, <2>1, ArchiveFacts
<1> QED BY <1>2, <1>3, <1>4, <1>5 DEF ArchiverNext, Open, OpenRefused, Close

(***************************************************************************)
(* Whatever is archived, opened again and created by others, a file that   *)
(* was opened keeps every directory and object it had, unless it is        *)
(* opened again to be overwritten (Archiver.cc:57-104, 182-228).           *)
(***************************************************************************)
THEOREM ArchivesStay == ArchiverSpec => ArchivesArePreserved
<1>1. FilesOK /\ [ArchiverNext]_archiverVars => [\A f \in own : Preserves(f)]_archiverVars
  BY StepsPreserve
<1> QED BY <1>1, FilesStart, FilesStay, PTL DEF ArchiverSpec, ArchivesArePreserved, Preserves
-----------------------------------------------------------------------------
\* Below one directory, different paths are different.
LEMMA SameBelow ==
  ASSUME NEW top \in TopDirs, NEW a \in Paths, NEW b \in Paths, top \o a = top \o b
  PROVE  a = b
<1> DEFINE S == Range(top) \union Range(a) \union Range(b)
<1>1. top \in Seq(S) /\ a \in Seq(S) /\ b \in Seq(S)
  BY ArchiverAssumption, SeqMonotonic
<1> HIDE DEF S
<1> QED BY <1>1, ConcatSimplifications

\* Nothing is missing from an archive of which no directory is in the way.
LEMMA ClearArchives ==
  ASSUME NEW s \in Storages, NEW c, NEW top \in TopDirs, NEW refs \in BOOLEAN,
         NEW d \in Archived(s, c, top, refs),
         \A p \in s.dirs : ~Taken(c, top \o p)
  PROVE  Missing(s, d, top) = {}
<1> DEFINE P == Reached(s, c, top)
           W == Written(s, P, refs)
           K == PlacesOf(W, top)
<1>1. P = s.dirs
  BY DEF Reached
<1>0. d \in WithObjects(c, top, P, W)
  BY DEF Archived
<1>12. \A x \in W : \/ \E y \in Takes(s) : x = <<y[1], y[2], s.objects[y]>>
                    \/ \E y \in Referenced : x = <<y[1], Suffixed[y[2]], Reference>>
  BY DEF Written
<1>13. \A x \in Takes(s) : x[1] \in s.dirs => <<x[1], x[2], s.objects[x]>> \in W
  BY <1>1 DEF Written
<1> HIDE DEF P, W
<1>2. /\ K \subseteq DOMAIN d.objects
      /\ \A k \in K : \E x \in W : k = <<top \o x[1], x[2]>> /\ d.objects[k] = x[3]
  BY <1>0, WithObjectsFacts
<1>3. SUFFICES ASSUME NEW e \in Missing(s, d, top) PROVE FALSE
  OBVIOUS
<1> DEFINE k == <<top \o e[1], e[2]>>
<1>4. /\ e \in Takes(s) /\ (k \in DOMAIN d.objects => d.objects[k] # s.objects[e])
      /\ \A r \in Referenced : r[1] = e[1] => Suffixed[r[2]] # e[2]
  BY DEF Missing
<1>5. e \in Elements /\ e[1] \in s.dirs /\ e = <<e[1], e[2]>>
  BY <1>4, ArchiverAssumption DEF Takes, Storages
<1>6. <<e[1], e[2], s.objects[e]>> \in W
  BY <1>4, <1>5, <1>13
<1>7. k \in K
  <2> DEFINE x == <<e[1], e[2], s.objects[e]>>
  <2>1. x \in W /\ k = <<top \o x[1], x[2]>>
    BY <1>6
  <2> HIDE DEF x
  <2> QED BY <2>1 DEF PlacesOf
<1> HIDE DEF K
<1>8. PICK w \in W : /\ top \o w[1] = top \o e[1] /\ w[2] = e[2]
                     /\ k \in DOMAIN d.objects /\ d.objects[k] = w[3]
  BY <1>2, <1>7
<1> HIDE DEF k
<1>9. CASE \E x \in Takes(s) : w = <<x[1], x[2], s.objects[x]>>
  <2>1. PICK x \in Takes(s) : w = <<x[1], x[2], s.objects[x]>>
    BY <1>9
  <2>2. x \in Elements /\ x = <<x[1], x[2]>> /\ x[1] \in Paths /\ e[1] \in Paths
    BY <1>5, ArchiverAssumption DEF Takes
  <2>5. w[1] = x[1] /\ w[2] = x[2] /\ w[3] = s.objects[x]
    BY <2>1
  <2>6. top \o x[1] = top \o e[1]
    BY <1>8, <2>5
  <2>3. x[1] = e[1] /\ x[2] = e[2]
    BY <1>8, <2>2, <2>5, <2>6, SameBelow
  <2>4. x = e
    BY <1>5, <2>2, <2>3
  <2> QED BY <1>4, <1>8, <2>4, <2>5
<1>10. CASE \E x \in Referenced : w = <<x[1], Suffixed[x[2]], Reference>>
  <2>1. PICK x \in Referenced : w = <<x[1], Suffixed[x[2]], Reference>>
    BY <1>10
  <2>2. x[1] \in Paths /\ e[1] \in Paths
    BY <1>5, ArchiverAssumption
  <2>5. w[1] = x[1] /\ w[2] = Suffixed[x[2]]
    BY <2>1
  <2>6. top \o x[1] = top \o e[1]
    BY <1>8, <2>5
  <2>3. x[1] = e[1] /\ Suffixed[x[2]] = e[2]
    BY <1>8, <2>2, <2>5, <2>6, SameBelow
  <2> QED BY <1>4, <2>3
<1>11. \/ \E x \in Takes(s) : w = <<x[1], x[2], s.objects[x]>>
       \/ \E x \in Referenced : w = <<x[1], Suffixed[x[2]], Reference>>
  BY <1>8, <1>12
<1> QED BY <1>9, <1>10, <1>11

(***************************************************************************)
(* An archive of which no directory is in the way has every object that    *)
(* the selector took, for any storages, references and names in the file   *)
(* (Archiver.cc:182-230).                                                  *)
(***************************************************************************)
THEOREM FirstArchivesAreComplete == ArchiverSpec => []FirstArchiveIsComplete
<1>1. ArchiverInit => FirstArchiveIsComplete
  <2>1. NoneYet.missing = {}
    BY DEF NoneYet
  <2> QED BY <2>1 DEF ArchiverInit, FirstArchiveIsComplete
<1>2. FirstArchiveIsComplete /\ [ArchiverNext]_archiverVars => FirstArchiveIsComplete'
  <2> SUFFICES ASSUME FirstArchiveIsComplete, [ArchiverNext]_archiverVars
               PROVE  FirstArchiveIsComplete'
    OBVIOUS
  <2>1. CASE last' = last \/ last' = NoneYet
    BY <2>1 DEF NoneYet, FirstArchiveIsComplete
  <2>2. ASSUME NEW s \in Storages, NEW top \in TopDirs, NEW refs \in BOOLEAN,
               Archive(s, top, refs)
        PROVE  FirstArchiveIsComplete'
    <3>1. ASSUME NEW c \in Archived(s, disk[current], top, refs),
                 last' = [clear   |-> \A p \in s.dirs : ~Taken(disk[current], top \o p),
                          missing |-> Missing(s, c, top)]
          PROVE  FirstArchiveIsComplete'
      <4>1. last'.clear => \A p \in s.dirs : ~Taken(disk[current], top \o p)
        BY <3>1
      <4>2. last'.missing = Missing(s, c, top)
        BY <3>1
      <4> QED BY <4>1, <4>2, ClearArchives DEF FirstArchiveIsComplete
    <3> QED BY <2>1, <2>2, <3>1 DEF Archive
  <2> QED BY <2>1, <2>2
       DEF ArchiverNext, archiverVars, Open, OpenRefused, OpenFile, Close, OtherCreates
<1> QED BY <1>1, <1>2, PTL DEF ArchiverSpec
=============================================================================
