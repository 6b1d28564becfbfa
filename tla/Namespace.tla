------------------------------ MODULE Namespace ------------------------------
(***************************************************************************)
(* What Storage<T> promises its callers: a name space of directories, each *)
(* known by the names that lead to it from the root, the entries stored in *)
(* them, and one current directory.  Storage implements this module; how   *)
(* directories are allocated, found and freed does not appear here.        *)
(***************************************************************************)
EXTENDS SequencesExt

CONSTANTS Names, Objects

VARIABLES
  dirs,      \* the paths of the directories
  cwd,       \* the path of the current directory
  entries    \* <<p, o>>: object o is stored in directory p

vars == <<dirs, cwd, entries>>

Init ==
  /\ dirs = {<<>>}
  /\ cwd = <<>>
  /\ entries = {}

Make(p, n) ==
  /\ dirs' = dirs \cup {Append(p, n)}
  /\ UNCHANGED <<cwd, entries>>

Go(p) ==
  /\ cwd' = p
  /\ UNCHANGED <<dirs, entries>>

Put(p, o) ==
  /\ entries' = entries \cup {<<p, o>>}
  /\ UNCHANGED <<dirs, cwd>>

Take(p, o) ==
  /\ entries' = entries \ {<<p, o>>}
  /\ UNCHANGED <<dirs, cwd>>

\* A directory goes with everything below it, never from under the current one.
RemoveTree(p) ==
  /\ p # <<>>
  /\ ~IsPrefix(p, cwd)
  /\ dirs' = {q \in dirs : ~IsPrefix(p, q)}
  /\ entries' = {e \in entries : ~IsPrefix(p, e[1])}
  /\ UNCHANGED cwd

Clear ==
  /\ dirs' = {<<>>}
  /\ cwd' = <<>>
  /\ entries' = {}

Next ==
  \/ \E p \in dirs :
       \/ \E n \in Names : Make(p, n)
       \/ \E o \in Objects : Put(p, o) \/ Take(p, o)
       \/ Go(p)
       \/ RemoveTree(p)
  \/ Clear

Spec == Init /\ [][Next]_vars
=============================================================================
