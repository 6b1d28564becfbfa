------------------------------- MODULE Ownership -------------------------------
(***************************************************************************)
(* Who deletes what: PtrHandler (PtrHandler.h), the object and reference   *)
(* of a MonitorElement, the wrapped object of an EventBase<T> (Event.h)    *)
(* and the buffer of a BufferEvent.  Each is a slot: a pointer and whether *)
(* the slot owns what it points at.                                        *)
(*                                                                         *)
(* A slot of the set Objects is the buffer of a BufferEvent, an object     *)
(* itself, that clears it when it is deleted.  A PtrHandler has no         *)
(* destructor: what a destroyed element owns is never deleted.             *)
(*                                                                         *)
(* Callers give a plain pointer to one owner only, and never give an owner *)
(* the pointer it has: set() would delete the object and keep the pointer. *)
(***************************************************************************)
EXTENDS Naturals, FiniteSets

CONSTANTS
  Objects,   \* the objects and buffers that `new' can give (a bound)
  Null,
  Handles,   \* PtrHandlers of callers
  Elements,  \* MonitorElements
  Wrappers   \* EventBases

Members == {"object", "reference"}

ASSUME OwnershipAssumption ==
  /\ IsFiniteSet(Objects) /\ Null \notin Objects
  /\ Objects \intersect (Handles \union (Elements \X Members) \union Wrappers) = {}
  /\ Wrappers \intersect (Handles \union (Elements \X Members)) = {}

Slots == Handles \union (Elements \X Members) \union Wrappers \union Objects

VARIABLES
  heap,     \* the objects allocated and not deleted
  raw,      \* those that callers have to delete
  leaked,   \* those that nothing will delete
  slots     \* [ptr, owner] of each slot

memory == <<heap, raw, leaked, slots>>

Slot(p, own) == [ptr |-> p, owner |-> own]
Empty == Slot(Null, TRUE)

OwnershipInit ==
  /\ heap = {} /\ raw = {} /\ leaked = {}
  /\ slots = [s \in Slots |-> Empty]

Owned(s) == IF slots[s].owner THEN {slots[s].ptr} \ {Null} ELSE {}

\* delete of every object of a set, with the buffers of those that have one.
WithBuffers(S) == S \union UNION {Owned(o) : o \in S}

\* clear() leaves the flag as it is.
Cleared(s) == [slots[s] EXCEPT !.ptr = Null]

\* The slots of S are cleared, then those in the domain of new are set, to
\* objects that callers give away or that are just allocated.
Assign(S, new, given, fresh) ==
  LET freed == WithBuffers(UNION {Owned(s) : s \in S})
  IN  /\ heap' = (heap \ freed) \union fresh
      /\ slots' = [s \in Slots |-> IF s \in DOMAIN new THEN new[s]
                                   ELSE IF s \in S THEN Cleared(s)
                                   ELSE IF s \in freed THEN Empty ELSE slots[s]]
      /\ raw' = raw \ given
      /\ UNCHANGED leaked

\* What a caller may give a slot: an object to own, of those it has to delete,
\* or one to point at.
Gifts == {<<Slot(o, TRUE), {o}>> : o \in raw} \union
         {<<Slot(o, FALSE), {}>> : o \in raw} \union {<<Empty, {}>>}

\* New objects, with addresses that no slot still has.
Fresh(n) ==
  {S \in SUBSET (Objects \ (heap \union {slots[s].ptr : s \in Slots})) :
     Cardinality(S) = n}
-----------------------------------------------------------------------------
(* Callers.                                                                *)

New == \E S \in Fresh(1) : /\ heap' = heap \union S /\ raw' = raw \union S
                           /\ UNCHANGED <<leaked, slots>>

Delete(o) ==
  /\ o \in raw
  /\ heap' = heap \ WithBuffers({o}) /\ raw' = raw \ {o}
  /\ slots' = [slots EXCEPT ![o] = Empty]
  /\ UNCHANGED leaked

\* PtrHandler::set() and clear(), of callers' handles.
SetHandle(h) == \E g \in Gifts : Assign({h}, [s \in {h} |-> g[1]], g[2], {})
ClearHandle(h) == Assign({h}, [s \in {} |-> Empty], {}, {})

Take(h) ==
  /\ slots' = [slots EXCEPT ![h] = Cleared(h)]
  /\ raw' = raw \union Owned(h)
  /\ UNCHANGED <<heap, leaked>>
-----------------------------------------------------------------------------
(* MonitorElement.  What is given by PtrHandler is never owned.            *)

ByPointer == {g \in Gifts : g[1].owner}
ByHandle == {<<Slot(slots[h].ptr, FALSE), {}>> : h \in Handles}
ForElement == ByPointer \union ByHandle

\* setMonitorObject() and setReferenceObject().
SetPart(e, part) ==
  \E g \in ForElement : Assign({<<e, part>>}, [s \in {<<e, part>>} |-> g[1]], g[2], {})

SetBoth(e) ==
  \E how \in {ByPointer, ByHandle} : \E g, k \in how :
    /\ g[2] \intersect k[2] = {}
    /\ Assign({e} \X Members,
              [s \in {e} \X Members |-> IF s[2] = "object" THEN g[1] ELSE k[1]],
              g[2] \union k[2], {})

Reset(e) == Assign({e} \X Members, [s \in {} |-> Empty], {}, {})

\* fromDevice() and fromJson(): what was there is cleared, and up to two objects
\* are made, fewer if the reading fails.
ReadElement(e) ==
  \E parts \in SUBSET Members :
    \E S \in Fresh(Cardinality(parts)), f \in [parts -> Objects] :
      /\ {f[p] : p \in parts} = S
      /\ Assign({e} \X Members,
                [s \in {e} \X parts |-> Slot(f[s[2]], TRUE)], {}, S)

\* The last pointer to an element goes; its slot stands for the next element.
DestroyElement(e) ==
  /\ leaked' = leaked \union UNION {Owned(<<e, p>>) : p \in Members}
  /\ slots' = [s \in Slots |-> IF s \in {e} \X Members THEN Empty ELSE slots[s]]
  /\ UNCHANGED <<heap, raw>>
-----------------------------------------------------------------------------
(* Events.                                                                 *)

\* Event::setEvent<T>() of the wrapper's type, and EventBase::setEvent().
SetEvent(w) == \E g \in Gifts : Assign({w}, [s \in {w} |-> g[1]], g[2], {})

\* Event::setEvent<T>() that drops an object of another type.
SetOtherEventDropped(w) ==
  \E o \in raw : raw' = raw \ {o} /\ UNCHANGED <<heap, leaked, slots>>

\* Event::setEvent<T>() of another type: the object is deleted if it was to be
\* owned, and the wrapper keeps what it has.
SetOtherEvent(w) ==
  \E o \in raw : Delete(o)

\* make_shared() of the events: a wrapper of a new object.
CreateEvent(w) == slots[w] = Empty /\ \E S \in Fresh(1) : \E o \in S :
                    Assign({w}, [s \in {w} |-> Slot(o, TRUE)], {}, S)

\* EventBase::clear(), and its destructor.
ClearEvent(w) == Assign({w}, [s \in {} |-> Empty], {}, {})
DestroyEvent(w) == Assign({w}, [s \in {w} |-> Empty], {}, {})

\* The BufferEvent in a wrapper: copyBuffer(), moveBuffer(), handleBuffer() and
\* clear(); a null buffer changes nothing.
Buffered == {slots[w].ptr : w \in Wrappers} \intersect heap
Buffers == raw \ ({s \in Objects : slots[s] # Empty} \union Buffered)

CopyBuffer(o) == \E S \in Fresh(1) : \E b \in S :
                   Assign({o}, [s \in {o} |-> Slot(b, TRUE)], {}, S)
MoveBuffer(o) == \E b \in Buffers : Assign({o}, [s \in {o} |-> Slot(b, TRUE)], {b}, {})
HandleBuffer(o) == \E b \in Buffers : Assign({o}, [s \in {o} |-> Slot(b, FALSE)], {}, {})
ClearBuffer(o) == Assign({o}, [s \in {} |-> Empty], {}, {})
-----------------------------------------------------------------------------
OwnershipNext ==
  \/ New \/ \E o \in raw : Delete(o)
  \/ \E h \in Handles : SetHandle(h) \/ ClearHandle(h) \/ Take(h)
  \/ \E e \in Elements :
       \/ \E part \in Members : SetPart(e, part)
       \/ SetBoth(e) \/ Reset(e) \/ ReadElement(e) \/ DestroyElement(e)
  \/ \E w \in Wrappers :
       \/ SetEvent(w) \/ SetOtherEvent(w) \/ CreateEvent(w)
       \/ ClearEvent(w) \/ DestroyEvent(w)
  \/ \E o \in Buffered :
       \/ CopyBuffer(o) \/ MoveBuffer(o) \/ HandleBuffer(o) \/ ClearBuffer(o)

OwnershipSpec == OwnershipInit /\ [][OwnershipNext]_memory
-----------------------------------------------------------------------------
\* Every object has one owner, the caller, a slot or, for what a destroyed
\* element had, nobody, and no owner has an object that was deleted: nothing is
\* deleted twice, and nothing else is lost, by set(), clear(), take(), reset(),
\* failed readings, events of the wrong type and the three ways to give an event
\* a buffer (PtrHandler.h:125-148, Event.h:244-379, BufferEvent.cc:51-106).
ObjectsHaveOneOwner ==
  LET Owning(o) == {s \in Slots : o \in Owned(s)}
      OwnersOf(o) == Cardinality(Owning(o))
                     + Cardinality({o} \intersect raw) + Cardinality({o} \intersect leaked)
  IN  \A o \in Objects : OwnersOf(o) = IF o \in heap THEN 1 ELSE 0
=============================================================================
