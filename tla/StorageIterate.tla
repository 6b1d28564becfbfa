---------------------------- MODULE StorageIterate ----------------------------
(***************************************************************************)
(* Storage::iterate(), with which getObjects() and the functions of        *)
(* MonitorElementManager visit every object (Storage.h:407).  It calls a   *)
(* function per object, and that function may use the storage.             *)
(*                                                                         *)
(* One call of iterate() per directory is in progress, from the root to    *)
(* where the iteration is.  Each works on its own copy of the objects, and *)
(* then of the sub-directories, which it takes only after its objects.     *)
(* Copies are of shared_ptr: a directory that is removed stays allocated   *)
(* while a copy has it.                                                    *)
(*                                                                         *)
(* A run either follows paths (mode "paths", module Storage) or iterates;  *)
(* in an iteration, and before it, the operations of Storage are single    *)
(* steps on directories.                                                   *)
(***************************************************************************)
EXTENDS Storage

CONSTANTS
  PathObjects,  \* bound: the objects of the mode "paths"
  MaxPlaced,    \* bound: the places of objects in an iteration
  MaxChanges    \* bound: changes made by the functions of one iteration

ASSUME IterateAssumption ==
  PathObjects \subseteq Objects /\ {MaxPlaced, MaxChanges} \subseteq Nat

VARIABLES
  mode,      \* "paths", or of an iteration: "before", "on", "stopped", "complete"
  frames,    \* the calls of iterate() in progress
  calling,   \* the function is being called
  visited,   \* the calls so far: the directory and the object of each
  changes,   \* the changes so far
  placed,    \* <<d, o>> in the tree at some time of the iteration
  stayed     \* <<d, o>> in the tree all the time

iteration == <<mode, frames, calling, visited, changes, placed, stayed>>
storage == <<tree, contents, current, call>>

Top == Last(frames)

\* The copies of a call of iterate(): the objects left, the sub-directories, or
\* NotTaken, and those of them that are left.
NotTaken == {NoDir}
Frame(d) == [dir |-> d, objs |-> contents[d], subs |-> NotTaken, left |-> {}]

Placed == UNION {{d} \X contents[d] : d \in Attached}

IterateInit ==
  /\ Init
  /\ mode \in {"paths", "before"}
  /\ frames = <<>> /\ calling = FALSE /\ visited = <<>>
  /\ changes = 0 /\ placed = {} /\ stayed = {}
-----------------------------------------------------------------------------
\* The directories that copies and the storage itself hold.
Held == {Root, current} \union
        UNION {{f.dir} \union (f.subs \ {NoDir}) : f \in Range(frames)}

\* A directory that was visited and then destroyed is never made again: a new
\* one is another directory, so visited says which of them was meant.
Fresh == Dirs \ (heap \union {v[1] : v \in Range(visited)})

MakeDirectory(d, n) ==
  /\ MustCreate(d, n)
  /\ \E e \in Fresh :
       /\ heap'    = heap \union {e}
       /\ parent'  = [parent EXCEPT ![e] = d]
       /\ path'    = [path EXCEPT ![e] = Append(path[d], n)]
       /\ subdirs' = [subdirs EXCEPT ![d] = @ \union {e}]
  /\ UNCHANGED <<contents, current, call>>

AddObject(d, o) ==
  /\ Cardinality(Placed) < MaxPlaced
  /\ o \notin contents[d] /\ AddTo(d, o)
  /\ UNCHANGED <<tree, current>>

RemoveObject(d, o) ==
  /\ o \in contents[d] /\ RemoveFrom(d, o)
  /\ UNCHANGED <<tree, current>>

RemoveDirectory(d) ==
  /\ ~Refused(d)
  /\ subdirs' = [subdirs EXCEPT ![parent[d]] = @ \ {d}]
  /\ Free(Kept(subdirs', Held), contents)
  /\ UNCHANGED <<current, call>>

ClearAll ==
  /\ subdirs' = Emptied(subdirs)
  /\ Free(Kept(subdirs', Held), Emptied(contents))
  /\ current' = Root
  /\ UNCHANGED call

\* Before the iteration the tree is only built: that gives every tree.
Build ==
  /\ mode = "before"
  /\ \E d \in Attached : \/ \E n \in Names : MakeDirectory(d, n)
                         \/ \E o \in Objects : AddObject(d, o)
  /\ UNCHANGED iteration

\* The function is being called, and uses the storage.
Change ==
  /\ calling /\ changes < MaxChanges
  /\ \/ \E d \in Attached :
          \/ \E n \in Names : MakeDirectory(d, n)
          \/ \E o \in Objects : AddObject(d, o) \/ RemoveObject(d, o)
          \/ RemoveDirectory(d)
     \/ ClearAll
  /\ changes' = changes + 1
  /\ placed' = placed \union Placed'
  /\ stayed' = stayed \intersect Placed'
  /\ UNCHANGED <<mode, frames, calling, visited>>
-----------------------------------------------------------------------------
SetTop(f) == frames' = Append(Front(frames), f)

Begin ==
  /\ mode = "before" /\ mode' = "on"
  /\ frames' = <<Frame(Root)>>
  /\ placed' = Placed /\ stayed' = Placed
  /\ UNCHANGED <<storage, calling, visited, changes>>

InFrame == mode = "on" /\ ~calling

CallFunction ==
  /\ InFrame
  /\ \E o \in Top.objs :
       /\ SetTop([Top EXCEPT !.objs = @ \ {o}])
       /\ visited' = Append(visited, <<Top.dir, o>>)
  /\ calling' = TRUE
  /\ UNCHANGED <<storage, mode, changes, placed, stayed>>

\* Calls of iterate() have returned: their copies are destroyed, and with them
\* the directories that only they held.
DropCopies ==
  /\ UNCHANGED <<subdirs, current, call>>
  /\ Free(Kept(subdirs, Held'), contents)

FunctionReturnsTrue ==
  /\ calling /\ calling' = FALSE
  /\ UNCHANGED <<storage, mode, frames, visited, changes, placed, stayed>>

FunctionReturnsFalse ==
  /\ calling /\ calling' = FALSE
  /\ mode' = "stopped" /\ frames' = <<>>
  /\ DropCopies
  /\ UNCHANGED <<visited, changes, placed, stayed>>

TakeSubdirs ==
  /\ InFrame /\ Top.objs = {} /\ Top.subs = NotTaken
  /\ SetTop([Top EXCEPT !.subs = subdirs[Top.dir], !.left = subdirs[Top.dir]])
  /\ UNCHANGED <<storage, mode, calling, visited, changes, placed, stayed>>

Descend ==
  /\ InFrame /\ Top.subs # NotTaken
  /\ \E d \in Top.left :
       frames' = Append(Front(frames), [Top EXCEPT !.left = @ \ {d}])
                   \o <<Frame(d)>>
  /\ UNCHANGED <<storage, mode, calling, visited, changes, placed, stayed>>

\* iterate() that returns false for a directory without sub-directories.
LeaveStoppingAtLeaves ==
  /\ InFrame /\ Top.subs # NotTaken /\ Top.left = {}
  /\ frames' = IF Top.subs = {} THEN <<>> ELSE Front(frames)
  /\ mode' = IF frames' = <<>> THEN "complete" ELSE mode
  /\ DropCopies
  /\ UNCHANGED <<calling, visited, changes, placed, stayed>>

Leave ==
  /\ InFrame /\ Top.subs # NotTaken /\ Top.left = {}
  /\ frames' = Front(frames)
  /\ mode' = IF frames' = <<>> THEN "complete" ELSE mode
  /\ DropCopies
  /\ UNCHANGED <<calling, visited, changes, placed, stayed>>

\* The next iteration.
Again ==
  /\ mode \in {"stopped", "complete"} /\ mode' = "before"
  /\ visited' = <<>> /\ changes' = 0 /\ placed' = {} /\ stayed' = {}
  /\ UNCHANGED <<storage, frames, calling>>

Paths ==
  /\ mode = "paths" /\ Next
  /\ call'.obj \in PathObjects \union {NoObject}
  /\ \A d \in heap' : contents'[d] \subseteq PathObjects
  /\ UNCHANGED iteration

IterateNext ==
  \/ Paths
  \/ Build \/ Begin \/ Change
  \/ CallFunction \/ FunctionReturnsTrue \/ FunctionReturnsFalse
  \/ TakeSubdirs \/ Descend \/ Leave \/ Again

IterateSpec == IterateInit /\ [][IterateNext]_<<storage, iteration>>
-----------------------------------------------------------------------------
\* An iteration that is not stopped has called the function for every object
\* that stayed at its place, whatever the function added, removed or cleared
\* meanwhile (iterate(), Storage.h:407).  It calls it for each object of a
\* directory once, only for what was in the storage during the iteration, and
\* never goes on in a directory that was destroyed.
IterationIsComplete ==
  /\ mode = "complete" => stayed \subseteq Range(visited)
  /\ IsInjective(visited) /\ Range(visited) \subseteq placed
  /\ \A f \in Range(frames) : {f.dir} \union (f.subs \ {NoDir}) \subseteq heap

\* A directory without sub-directories, or emptied by clear(), is destroyed
\* with the last reference to it.  rmdir() of a directory that has some loses
\* it: it and they own each other (Directory.h, m_subdirs and m_parent).
Removes(r) == (Arrived("rmdir") /\ call.cursor = r) \/ (calling /\ RemoveDirectory(r))

\* Above a lost directory: what its m_parent, and theirs, lead to.
HeldByLost == Kept([d \in Dirs |-> {}], Lost)

\* Nothing else is ever lost: clear(), also in an iteration, breaks the cycles
\* of every directory in the tree before it lets go of them, and the ends of
\* operations and iterations leave nothing behind (Directory.h, clear()).
OnlyRmdirLoses ==
  [][\A d \in Lost' \ Lost :
       \/ d \in HeldByLost
       \/ \E r \in Attached : /\ Removes(r) /\ subdirs[r] # {}
                              /\ IsPrefix(path[r], path[d])]_tree

\* A directory that is removed is destroyed with what is below it ("A
\* directory is the owner of its sub-directories", Directory.h:42).
RemovedAreDestroyed == Lost = {}
=============================================================================
