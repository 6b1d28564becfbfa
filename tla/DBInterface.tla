----------------------------- MODULE DBInterface -----------------------------
(***************************************************************************)
(* DBInterface (DBInterface.cc): one handle of the MySQL client library,   *)
(* opened by connect(), used by queries, and the tables of parameters that *)
(* the queries change.  The library and the server are external: a handle  *)
(* is allocated by mysql_init() and released by mysql_close(), and any     *)
(* call to the server may fail.                                            *)
(***************************************************************************)
EXTENDS ParameterTables, Integers, FiniteSets

CONSTANTS
  Servers,     \* what set() is given: host, user, password and data base
  NoServer,    \* the empty strings of a new DBInterface
  MaxHandles   \* bound: calls of mysql_init() that succeed

ASSUME DBAssumption == NoServer \notin Servers /\ MaxHandles \in Nat \ {0}

Null == 0

VARIABLES
  alive,      \* the DBInterface is not destroyed
  connected,  \* m_isConnected
  handle,     \* m_pMySQL: Null, or the number of a handle
  inits,      \* handles allocated so far
  open,       \* the handles not closed yet
  settings,   \* m_host, m_user, m_password and m_database
  peer,       \* the settings the connection was made with
  tables,     \* on the server: Absent, or the value of each parameter
  raw,        \* what queryRaw() last gave: "none" or "freed"
  undefined,  \* a released handle or a null row was used
  status      \* the last status code returned

data   == <<tables, raw>>
client == <<alive, connected, handle, inits, open, settings, peer>>
vars   == <<client, data, undefined, status>>

Init ==
  /\ alive = TRUE /\ connected = FALSE
  /\ handle = Null /\ inits = 0 /\ open = {}
  /\ settings = NoServer /\ peer = NoServer
  /\ tables \in [Tables -> {Absent, Empty}]
  /\ raw = "none" /\ undefined = FALSE /\ status = "SUCCESS"

Returns(s) == status' = s /\ UNCHANGED undefined

Crashes ==
  /\ undefined' = TRUE
  /\ UNCHANGED <<client, data, status>>
-----------------------------------------------------------------------------
Set(s) ==
  IF connected
  THEN Returns("NOT_ALLOWED") /\ UNCHANGED <<client, data>>
  ELSE /\ settings' = s /\ Returns("SUCCESS")
       /\ UNCHANGED <<alive, connected, handle, inits, open, peer, data>>

InitFails ==
  /\ handle' = Null
  /\ Returns("FAILURE")
  /\ UNCHANGED <<connected, inits, open, peer>>

NewHandle == inits < MaxHandles /\ inits' = inits + 1 /\ handle' = inits'

\* The handler of connect() when it does not reset m_isConnected.
HandshakeFailsConnected ==
  /\ NewHandle
  /\ connected' \in BOOLEAN
  /\ Returns("FAILURE")
  /\ UNCHANGED <<open, peer>>

\* mysql_real_connect() or the query USE fails: the handle is closed, and
\* m_pMySQL keeps it.
HandshakeFails ==
  /\ NewHandle
  /\ connected' = FALSE
  /\ Returns("FAILURE")
  /\ UNCHANGED <<open, peer>>

Handshake ==
  /\ NewHandle
  /\ open' = open \union {inits'}
  /\ connected' = TRUE /\ peer' = settings'
  /\ Returns("SUCCESS")

\* connect() of an object that is not connected and has the settings s.
Opens(s) ==
  /\ settings' = s
  /\ InitFails \/ HandshakeFails \/ Handshake
  /\ UNCHANGED <<alive, data>>

Connect ==
  \/ /\ connected
     /\ Returns("ALREADY_INITIALIZED") /\ UNCHANGED <<client, data>>
  \/ ~connected /\ Opens(settings)

\* connect() with settings: set(), then connect() if it returned SUCCESS.
ConnectTo(s) ==
  \/ connected /\ Returns("NOT_ALLOWED") /\ UNCHANGED <<client, data>>
  \/ ~connected /\ Opens(s)

\* The test of disconnect() is for a connection, not against one, and
\* m_pMySQL keeps the handle that was closed.
Disconnect ==
  \/ /\ connected
     /\ Returns("UNCHANGED") /\ UNCHANGED <<client, data>>
  \/ ~connected /\ handle \notin open \union {Null} /\ Crashes
  \/ /\ ~connected /\ handle \in open \union {Null}
     /\ open' = open \ {handle}
     /\ Returns("SUCCESS")
     /\ UNCHANGED <<alive, connected, handle, inits, settings, peer, data>>

Destroy ==
  /\ alive' = FALSE
  /\ Returns(IF connected THEN "UNCHANGED" ELSE status)
  /\ UNCHANGED <<connected, handle, inits, open, settings, peer, data>>
-----------------------------------------------------------------------------
\* A call that needs a connection and a table's name (t = "" for none).
Refused(t) ==
  /\ \/ ~connected /\ Returns("NOT_INITIALIZED")
     \/ connected /\ t = "" /\ Returns("INVALID_PARAMETER")
  /\ UNCHANGED <<client, data>>

Ready(t) == connected /\ t \in Tables

QueryFails == Returns("FAILURE") /\ UNCHANGED <<client, data>>

Stores(t, content) ==
  /\ tables' = [tables EXCEPT ![t] = content]
  /\ UNCHANGED <<client, raw>>

\* The query CREATE, of a table that was just dropped or not.
Creates(t, ifNotExists, before) ==
  \/ before = Absent /\ Stores(t, Empty) /\ Returns("SUCCESS")
  \/ /\ before # Absent
     /\ Returns(IF ifNotExists THEN "SUCCESS" ELSE "FAILURE")
     /\ UNCHANGED <<client, data>>

\* DROP and CREATE are two queries: the first may stand without the second.
CreateParameterTable(t, ifNotExists, drop) ==
  \/ Refused(t)
  \/ Ready(t) /\ QueryFails
  \/ Ready(t) /\ ~drop /\ Creates(t, ifNotExists, tables[t])
  \/ /\ Ready(t) /\ drop
     /\ \/ Stores(t, Absent) /\ Returns("FAILURE")
        \/ Stores(t, Empty) /\ Returns("SUCCESS")

EmptyParameterTable(t) ==
  \/ Refused(t)
  \/ Ready(t) /\ QueryFails
  \/ /\ Ready(t) /\ tables[t] # Absent
     /\ Stores(t, Empty) /\ Returns("SUCCESS")

SetParameters(t, m) ==
  \/ Refused(t)
  \/ Ready(t) /\ m = Empty /\ Returns("INVALID_PARAMETER") /\ UNCHANGED <<client, data>>
  \/ Ready(t) /\ m # Empty /\ QueryFails
  \/ /\ Ready(t) /\ m # Empty /\ tables[t] # Absent
     /\ Stores(t, Replacing(tables[t], m)) /\ Returns("SUCCESS")

\* One query of two statements, which the server refuses on a connection
\* made without CLIENT_MULTI_STATEMENTS (the last argument of
\* mysql_real_connect() is 0).
BackupParameterTable(t) == Refused(t) \/ (Ready(t) /\ QueryFails)

\* getTableParameters() and dumpParameterTable(), which change nothing here.
GetTableParameters(t) ==
  \/ Refused(t)
  \/ Ready(t) /\ QueryFails
  \/ /\ Ready(t) /\ tables[t] # Absent
     /\ Returns("SUCCESS") /\ UNCHANGED <<client, data>>
-----------------------------------------------------------------------------
\* execute(), query() and queryVector() of a statement that changes no table;
\* query() follows the null row of a result that has none.
Query ==
  \/ ~connected /\ Returns("NOT_INITIALIZED") /\ UNCHANGED <<client, data>>
  \/ /\ connected
     /\ \/ QueryFails
        \/ Returns("SUCCESS") /\ UNCHANGED <<client, data>>
        \/ Crashes

\* The row given is released with the result it belongs to.
QueryRaw ==
  \/ /\ ~connected
     /\ raw' = "none" /\ Returns("NOT_INITIALIZED")
     /\ UNCHANGED <<client, tables>>
  \/ /\ connected
     /\ \/ /\ raw' = "none" /\ Returns("FAILURE")
           /\ UNCHANGED <<client, tables>>
        \/ /\ raw' = "freed" /\ Returns("SUCCESS")
           /\ UNCHANGED <<client, tables>>
        \/ Crashes

Next ==
  /\ alive /\ ~undefined
  /\ \/ \E s \in Servers : Set(s) \/ ConnectTo(s)
     \/ Connect \/ Disconnect \/ Destroy
     \/ Query \/ QueryRaw
     \/ \E t \in Tables \union {""} :
          \/ \E i, d \in BOOLEAN : CreateParameterTable(t, i, d)
          \/ EmptyParameterTable(t)
          \/ \E m \in Contents : SetParameters(t, m)
          \/ BackupParameterTable(t)
          \/ GetTableParameters(t)

Spec == Init /\ [][Next]_vars
-----------------------------------------------------------------------------
(***************************************************************************)
(* Queries go to a handle that is open: the object says it is connected    *)
(* only while m_pMySQL is a handle that connect() did not close again      *)
(* (the exception handler of connect(), DBInterface.cc:82-89).             *)
(***************************************************************************)
ConnectedHandlesAreOpen == connected => handle \in open

(***************************************************************************)
(* The host, user and data base that the getters give while connected are  *)
(* those of the connection: set() refuses to change them (DBInterface.cc   *)
(* :121).                                                                  *)
(***************************************************************************)
SettingsAreOfTheConnection == connected => peer = settings

(***************************************************************************)
(* "Use disconnect() first and then connect()" (DBInterface.h:82): to call *)
(* disconnect() is safe whatever connect() returned before.                *)
(***************************************************************************)
DisconnectIsSafe == [][Disconnect => ~undefined']_vars
=============================================================================
