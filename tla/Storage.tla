------------------------------- MODULE Storage -------------------------------
(***************************************************************************)
(* The directory tree of dqm4hep::core::Storage<T> (Storage.h) and of the  *)
(* Directory<T> objects it is made of (Directory.h).                       *)
(*                                                                         *)
(* A Directory is held by std::shared_ptr: its parent lists it in          *)
(* m_subdirs and every child points back to it with m_parent.  A member of *)
(* Dirs is one Directory object; heap holds those that are allocated.  A   *)
(* directory's name and parent never change once it is built, so path[d],  *)
(* the names from the root down, is computed once and stands for           *)
(* Directory::fullPath().                                                  *)
(*                                                                         *)
(* The operations that follow a path (mkdir, cd, find, add, remove, rmdir) *)
(* share the variable call: Call enters the operation, one action is taken *)
(* per turn of its loop over the path's components, and an End action is   *)
(* what it does once the loop is over.                                     *)
(***************************************************************************)
EXTENDS Naturals, SequencesExt

CONSTANTS
  Dirs,        \* identities of Directory objects (bounds what is allocated)
  Root,        \* m_rootDirectory
  NoDir,       \* the null DirectoryPtr
  Names,       \* names of directories
  Objects,     \* identities of the objects stored, by ObjectPtr
  NoObject,
  PathArgs,    \* the directory names the caller passes
  StartsWith   \* <<m, n>> \in StartsWith: the text of n starts with that of m

Dot     == "."
DotDot  == ".."
Illegal == "?"   \* a component that contains a special character

Components == Names \cup {Dot, DotDot, Illegal}

ASSUME StorageAssumption ==
  /\ Root \in Dirs
  /\ NoDir \notin Dirs
  /\ NoObject \notin Objects
  /\ Names \cap {Dot, DotDot, Illegal} = {}
  /\ PathArgs \subseteq [absolute : BOOLEAN, comps : Seq(Components)]
  /\ StartsWith \subseteq Names \X Names
  /\ \A n \in Names : <<n, n>> \in StartsWith

VARIABLES
  heap,      \* the Directory objects allocated and not yet destroyed
  parent,    \* m_parent
  path,      \* the names from the root to the directory
  subdirs,   \* m_subdirs
  contents,  \* m_contents
  current,   \* m_currentDirectory
  call       \* the operation in progress and the last status code returned

tree == <<heap, parent, path, subdirs>>
vars == <<heap, parent, path, subdirs, contents, current, call>>

(***************************************************************************)
(* Paths.  The empty string is the relative path without components.       *)
(***************************************************************************)
IsEmptyPath(p) == ~p.absolute /\ p.comps = <<>>
IsValidPath(p) == \A i \in DOMAIN p.comps : p.comps[i] # Illegal

StartOf(p) == IF p.absolute THEN Root ELSE current

\* std::string::find of the text of path p in the text of path q: all the
\* components of p match whole ones of q, but for the last one, which only
\* has to be the beginning of a component.  "/" occurs in every full path.
OccursIn(p, q) ==
  \/ p = <<>>
  \/ \E i \in 0 .. Len(q) - Len(p) :
       /\ \A j \in 1 .. Len(p) - 1 : p[j] = q[i + j]
       /\ <<Last(p), q[i + Len(p)]>> \in StartsWith

(***************************************************************************)
(* Directory: what is reachable, and what the reference counts keep.       *)
(***************************************************************************)
\* The members of h that the lists of sub-directories lead to from the root.
Reachable(h, sub) ==
  {d \in h : \A S \in SUBSET h :
     Root \in S /\ (\A x \in S : sub[x] \subseteq S) => d \in S}

Attached == Reachable(heap, subdirs)

Child(d, n) == {e \in subdirs[d] : Last(path[e]) = n}

\* The directories still allocated once the others' reference counts have
\* dropped to zero: each is pinned, or listed or pointed at by one of them.
Kept(sub, pinned) ==
  UNION {S \in SUBSET heap : \A y \in S :
           y \in pinned \/ \E x \in S : y \in sub[x] \/ parent[x] = y}

\* The directories out of the tree that only own each other.
Lost == UNION {S \in SUBSET (heap \ Attached) : \A y \in S :
                 \E x \in S : y \in subdirs[x] \/ parent[x] = y}
-----------------------------------------------------------------------------
Ops == {"mkdir", "cd", "find", "add", "remove", "rmdir"}

Statuses == {"SUCCESS", "INVALID_PARAMETER", "NOT_ALLOWED", "NOT_FOUND",
             "FAILURE", "UNCHANGED", "ALREADY_PRESENT", "INVALID_PTR"}

Idle(status) ==
  [op |-> "none", phase |-> "none", arg |-> <<>>, rest |-> <<>>,
   cursor |-> NoDir, obj |-> NoObject, status |-> status]

IsIdle == call.op = "none"

Return(status) == call' = Idle(status)

\* The phase that an operation starts with: add() is mkdir(), then find().
FirstPhase(op) == IF op \in {"mkdir", "add"} THEN "create" ELSE "walk"

Init ==
  /\ heap     = {Root}
  /\ parent   = [d \in Dirs |-> NoDir]
  /\ path     = [d \in Dirs |-> <<>>]
  /\ subdirs  = [d \in Dirs |-> {}]
  /\ contents = [d \in Dirs |-> {}]
  /\ current  = Root
  /\ call     = Idle("SUCCESS")

\* The early returns on the argument, and the status code of each.
Rejects(op, p, status) ==
  \/ /\ status = "INVALID_PARAMETER"
     /\ ~IsValidPath(p) \/ (IsEmptyPath(p) /\ op \in {"mkdir", "add"})
  \/ status = "NOT_ALLOWED" /\ IsEmptyPath(p) /\ op = "rmdir"

Reject(op, p) ==
  /\ IsIdle
  /\ \E status \in Statuses : Rejects(op, p, status) /\ Return(status)
  /\ UNCHANGED <<tree, contents, current>>

\* Bound: an operation that creates directories is called only when there are
\* identities left for them.
CanAllocate(op, p) ==
  op \in {"mkdir", "add"} => Cardinality(Dirs \ heap) >= Len(p.comps)

\* cd("") goes to the root, find("") stays where it is.
Call(op, p, o) ==
  /\ IsIdle
  /\ \A status \in Statuses : ~Rejects(op, p, status)
  /\ CanAllocate(op, p)
  /\ call' = [op |-> op, phase |-> FirstPhase(op), arg |-> p, rest |-> p.comps,
              cursor |-> IF op = "cd" /\ IsEmptyPath(p) THEN Root ELSE StartOf(p),
              obj |-> o, status |-> "SUCCESS"]
  /\ UNCHANGED <<tree, contents, current>>
-----------------------------------------------------------------------------
(* One turn of the loop over the components of the path.                   *)

Walking == ~IsIdle /\ call.rest # <<>>

Advance(d) == call' = [call EXCEPT !.cursor = d, !.rest = Tail(@)]

StepDot ==
  /\ Walking /\ Head(call.rest) = Dot
  /\ Advance(call.cursor)
  /\ UNCHANGED <<tree, contents, current>>

StepUp ==
  /\ Walking /\ Head(call.rest) = DotDot
  /\ IF call.cursor = Root THEN Return("FAILURE")
                           ELSE Advance(parent[call.cursor])
  /\ UNCHANGED <<tree, contents, current>>

StepDown ==
  /\ Walking /\ Head(call.rest) \in Names
  /\ \E e \in Child(call.cursor, Head(call.rest)) : Advance(e)
  /\ UNCHANGED <<tree, contents, current>>

StepNotFound ==
  /\ Walking /\ Head(call.rest) \in Names
  /\ call.phase = "walk"
  /\ Child(call.cursor, Head(call.rest)) = {}
  /\ Return("NOT_FOUND")
  /\ UNCHANGED <<tree, contents, current>>

\* Directory::mkdir does not look for the name first.
MustCreateUnchecked(d, n) == TRUE

\* Storage::mkdir creates the sub-directory that hasChild() does not find.
MustCreate(d, n) == Child(d, n) = {}

StepCreate ==
  /\ Walking /\ Head(call.rest) \in Names
  /\ call.phase = "create"
  /\ MustCreate(call.cursor, Head(call.rest))
  /\ \E d \in Dirs \ heap :
       /\ heap'     = heap \cup {d}
       /\ parent'   = [parent EXCEPT ![d] = call.cursor]
       /\ path'     = [path EXCEPT ![d] =
                         Append(path[call.cursor], Head(call.rest))]
       /\ subdirs'  = [subdirs EXCEPT ![call.cursor] = @ \cup {d}]
       /\ Advance(d)
  /\ UNCHANGED <<contents, current>>
-----------------------------------------------------------------------------
(* What each operation does when the loop is over.                         *)

Arrived(op) == call.op = op /\ call.rest = <<>>

EndMkdir ==
  /\ Arrived("mkdir")
  /\ Return("SUCCESS")
  /\ UNCHANGED <<tree, contents, current>>

\* find(), dirExists(), findObject() and containsObject() change nothing.
EndFind ==
  /\ Arrived("find")
  /\ Return("SUCCESS")
  /\ UNCHANGED <<tree, contents, current>>

EndCd ==
  /\ Arrived("cd")
  /\ current' = call.cursor
  /\ Return("SUCCESS")
  /\ UNCHANGED <<tree, contents>>

\* add() that goes on from where its mkdir() has arrived.
EndAddMkdirInPlace ==
  /\ Arrived("add") /\ call.phase = "create"
  /\ call' = [call EXCEPT !.phase = "walk", !.rest = call.arg.comps]
  /\ UNCHANGED <<tree, contents, current>>

\* add() starts over with find() when its mkdir() has succeeded.
EndAddMkdir ==
  /\ Arrived("add") /\ call.phase = "create"
  /\ call' = [call EXCEPT !.phase = "walk", !.rest = call.arg.comps,
                          !.cursor = StartOf(call.arg)]
  /\ UNCHANGED <<tree, contents, current>>

AddTo(d, o) ==
  IF o = NoObject THEN Return("INVALID_PTR") /\ UNCHANGED contents
  ELSE IF o \in contents[d] THEN Return("ALREADY_PRESENT") /\ UNCHANGED contents
  ELSE Return("SUCCESS") /\ contents' = [contents EXCEPT ![d] = @ \cup {o}]

RemoveFrom(d, o) ==
  IF o \in contents[d]
  THEN Return("SUCCESS") /\ contents' = [contents EXCEPT ![d] = @ \ {o}]
  ELSE Return("NOT_FOUND") /\ UNCHANGED contents

EndAdd ==
  /\ Arrived("add") /\ call.phase = "walk"
  /\ AddTo(call.cursor, call.obj)
  /\ UNCHANGED <<tree, current>>

EndRemove ==
  /\ Arrived("remove")
  /\ RemoveFrom(call.cursor, call.obj)
  /\ UNCHANGED <<tree, current>>

\* rmdir() that compares the two directories and not their paths.
RefusedOnlyCurrent(d) == d = Root \/ d = current

Refused(d) == d = Root \/ OccursIn(path[d], path[current])

\* A Directory that nothing refers to any more is destroyed with its contents.
Free(h, kept) ==
  /\ heap'     = h
  /\ parent'   = [d \in Dirs |-> IF d \in h THEN parent[d] ELSE NoDir]
  /\ path'     = [d \in Dirs |-> IF d \in h THEN path[d] ELSE <<>>]
  /\ contents' = [d \in Dirs |-> IF d \in h THEN kept[d] ELSE {}]

Unlink(d) ==
  LET sub == [subdirs EXCEPT ![parent[d]] = @ \ {d}]
  IN  /\ subdirs' = sub
      /\ Free(Kept(sub, {Root, current}), contents)

EndRmdir ==
  /\ Arrived("rmdir")
  /\ IF Refused(call.cursor)
     THEN /\ Return(IF call.cursor = Root THEN "NOT_ALLOWED" ELSE "FAILURE")
          /\ UNCHANGED <<tree, contents>>
     ELSE Return("SUCCESS") /\ Unlink(call.cursor)
  /\ UNCHANGED current
-----------------------------------------------------------------------------
(* The operations without a path.                                          *)

CdRoot ==
  /\ IsIdle
  /\ current' = Root
  /\ UNCHANGED <<tree, contents, call>>

GoUp ==
  /\ IsIdle
  /\ IF current = Root
     THEN Return("UNCHANGED") /\ UNCHANGED current
     ELSE Return("SUCCESS") /\ current' = parent[current]
  /\ UNCHANGED <<tree, contents>>

AddHere(o) ==
  /\ IsIdle
  /\ AddTo(current, o)
  /\ UNCHANGED <<tree, current>>

RemoveHere(o) ==
  /\ IsIdle
  /\ RemoveFrom(current, o)
  /\ UNCHANGED <<tree, current>>

Emptied(f) == [d \in Dirs |-> IF d \in Attached THEN {} ELSE f[d]]

\* clear() that forgets to go back to the root.
ClearKeepingCurrent ==
  /\ subdirs' = Emptied(subdirs)
  /\ Free(Kept(Emptied(subdirs), {Root, current}), Emptied(contents))
  /\ UNCHANGED current

\* clear() that empties the root only.
ClearTopOnly ==
  /\ subdirs' = [subdirs EXCEPT ![Root] = {}]
  /\ Free(Kept(subdirs', {Root}), [contents EXCEPT ![Root] = {}])
  /\ current' = Root

\* Directory::clear() empties every directory below the root, the deepest
\* first; the current directory is then the root.
ClearTree ==
  /\ subdirs' = Emptied(subdirs)
  /\ Free(Kept(Emptied(subdirs), {Root}), Emptied(contents))
  /\ current' = Root

Clear ==
  /\ IsIdle
  /\ ClearTree
  /\ UNCHANGED call
-----------------------------------------------------------------------------
Request ==
  \/ \E op \in Ops, p \in PathArgs : Reject(op, p)
  \/ \E op \in Ops \ {"add", "remove"}, p \in PathArgs : Call(op, p, NoObject)
  \/ \E p \in PathArgs, o \in Objects \cup {NoObject} :
       Call("add", p, o) \/ Call("remove", p, o)

Step == StepDot \/ StepUp \/ StepDown \/ StepNotFound \/ StepCreate

End == \/ EndMkdir \/ EndFind \/ EndCd \/ EndAddMkdir
       \/ EndAdd \/ EndRemove \/ EndRmdir

Direct ==
  \/ CdRoot \/ GoUp \/ Clear
  \/ \E o \in Objects \cup {NoObject} : AddHere(o) \/ RemoveHere(o)

Next == Request \/ Step \/ End \/ Direct

Spec == Init /\ [][Next]_vars
-----------------------------------------------------------------------------
Calls == [op : Ops, phase : {"create", "walk"}, arg : PathArgs,
          rest : Seq(Components), cursor : Dirs,
          obj : Objects \cup {NoObject}, status : {"SUCCESS"}]

CallOK ==
  IF IsIdle THEN call.status \in Statuses /\ call = Idle(call.status)
            ELSE call \in Calls

\* The members of a Storage and of its Directory objects have their types.
TypeOK ==
  /\ heap \subseteq Dirs /\ Root \in heap
  /\ parent   \in [Dirs -> Dirs \cup {NoDir}]
  /\ path     \in [Dirs -> Seq(Names)]
  /\ subdirs  \in [Dirs -> SUBSET Dirs]
  /\ contents \in [Dirs -> SUBSET Objects]
  /\ current  \in Dirs
  /\ CallOK

\* The current directory, and the one that an operation has walked to, are in
\* the tree: rmdir() and clear() never take away a directory that is in use
\* (Storage.h, the test on m_currentDirectory in rmdir()).
CurrentAttached ==
  /\ current \in Attached
  /\ ~IsIdle => call.cursor \in Attached

\* A full path names one directory: mkdir(), called on its own or by add(),
\* never makes a second directory of the same name next to the first.
PathsAreUnique ==
  \A d, e \in Attached : path[d] = path[e] => d = e

\* The directory that a path means, in terms of names alone: `..' drops the
\* last name, and fails at the root.
Above == <<DotDot>>
Follow(q, c) ==
  IF q = Above \/ c = Dot THEN q
  ELSE IF c # DotDot THEN Append(q, c)
  ELSE IF q = <<>> THEN Above ELSE Front(q)

\* Where a path is after each of its components.
Along(from, comps) ==
  LET at[i \in 0 .. Len(comps)] ==
        IF i = 0 THEN from ELSE Follow(at[i - 1], comps[i])
  IN  at

From(p) == IF p.absolute THEN <<>> ELSE path[current]
Way(p)  == Along(From(p), p.comps)

IsPathOfOne(q) == \E d \in Attached : path[d] = q

PathExists(p) == \A i \in 0 .. Len(p.comps) : IsPathOfOne(Way(p)[i])

\* An operation gives up on its path only when a directory along it does not
\* exist, and mkdir() only when the path leaves the root; the find() of add(),
\* whose mkdir() has just succeeded on the same path, never gives up.
WalksGiveUpRightly ==
  [][(Walking /\ IsIdle') =>
       IF call.phase = "create"
       THEN Way(call.arg)[Len(call.arg.comps)] = Above
       ELSE call.op # "add" /\ ~PathExists(call.arg)]_vars

(***************************************************************************)
(* Storage implements the name space: a directory stands for its path.     *)
(***************************************************************************)
NS == INSTANCE Namespace WITH
  dirs    <- {path[d] : d \in Attached},
  cwd     <- path[current],
  entries <- UNION {{<<path[d], o>> : o \in contents[d]} : d \in Attached}

ImplementsNamespace == NS!Spec
=============================================================================
