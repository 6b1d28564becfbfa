--------------------------- MODULE ParameterTables ---------------------------
(***************************************************************************)
(* What a table of parameters holds (the queries of DBInterface.cc): a     *)
(* value for some of the names, or the table does not exist.               *)
(***************************************************************************)
CONSTANTS
  Tables,      \* the names of tables
  Parameters,  \* the names of parameters
  Values,      \* the values of parameters
  NoValue      \* a parameter that is not in a table

ASSUME TablesAssumption == NoValue \notin Values

Absent == <<>>   \* a table that does not exist

Contents == [Parameters -> Values \union {NoValue}]
Empty    == [p \in Parameters |-> NoValue]

\* The values of m over the contents c.
Replacing(c, m) == [p \in Parameters |-> IF m[p] = NoValue THEN c[p] ELSE m[p]]
=============================================================================
