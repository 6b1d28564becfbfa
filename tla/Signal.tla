-------------------------------- MODULE Signal --------------------------------
(***************************************************************************)
(* dqm4hep::core::Signal (Signal.h): a vector of callbacks that emit()     *)
(* walks with a pair of iterators taken once.  The callback in progress    *)
(* may itself emit, connect and disconnect on the same signal.             *)
(*                                                                         *)
(* The vector is modelled with its storage: store holds a pointer in every *)
(* slot that was ever written, size of them are elements.  erase() moves   *)
(* elements down and leaves the last slot as it was; push_back() beyond    *)
(* the capacity moves the elements and leaves every iterator dangling.     *)
(***************************************************************************)
EXTENDS Naturals, FiniteSets, SequencesExt

CONSTANTS
  Targets,    \* what can be connected: a function, or a method of an object
  Receivers,  \* the objects
  ReceiverOf, \* the object of a target; NoReceiver for a function
  NoReceiver,
  Conns,      \* identities of SignalT objects (bounds what is allocated)
  Freed,      \* in place of the target of a SignalT that has been deleted
  MaxDepth    \* bound: emissions nested in one another

ASSUME SignalAssumption ==
  /\ ReceiverOf \in [Targets -> Receivers \cup {NoReceiver}]
  /\ Freed \notin Targets
  /\ MaxDepth \in Nat \ {0}

VARIABLES
  store,      \* the slots of the vector's storage
  size,       \* the number of elements of m_callbacks
  capacity,
  target,     \* what each SignalT calls
  emissions,  \* the emissions in progress, the innermost last
  undefined   \* an emission has used a dangling iterator or a deleted SignalT

vars == <<store, size, capacity, target, emissions, undefined>>
vector == <<store, size, capacity, target>>

MethodsOf(r) == {t \in Targets : ReceiverOf[t] = r}

Callbacks == SubSeq(store, 1, size)
Connected == {target[store[i]] : i \in 1 .. size}

\* An emission: where its iterator and end iterator point, whether a callback
\* is running, whether a reallocation has left the iterators dangling; and, to
\* state properties, what it has to call, what it has called, and whether the
\* vector lost elements or moved under it.
NewFrame ==
  [next |-> 1, end |-> size, running |-> FALSE, dangling |-> FALSE,
   expected |-> [i \in 1 .. size |-> target[store[i]]],
   called |-> <<>>, disturbed |-> FALSE]

Emitting == emissions # <<>>
Top      == Last(emissions)

\* The caller, or the callback in progress, has the control.
InUserCode == ~undefined /\ (Emitting => Top.running)

Init ==
  /\ store = <<>> /\ size = 0 /\ capacity = 0
  /\ target = [c \in Conns |-> Freed]
  /\ emissions = <<>>
  /\ undefined = FALSE

Disturbed(moved) ==
  [k \in DOMAIN emissions |-> [emissions[k] EXCEPT !.disturbed = TRUE,
                                             !.dangling = @ \/ moved]]
-----------------------------------------------------------------------------
\* connect() that adds a target once more.
MayConnectAgain(t) == TRUE

MayConnect(t) == t \notin Connected

\* push_back(): past the capacity, the elements move to a larger storage.
PushBack(c) ==
  IF size < capacity
  THEN /\ store' = IF size < Len(store) THEN [store EXCEPT ![size + 1] = c]
                                        ELSE Append(store, c)
       /\ UNCHANGED <<capacity, emissions>>
  ELSE /\ store' = Append(Callbacks, c)
       /\ capacity' = IF capacity = 0 THEN 1 ELSE 2 * capacity
       /\ emissions' = Disturbed(TRUE)

Connect(t) ==
  /\ InUserCode
  /\ MayConnect(t)
  /\ \E c \in Conns :
       /\ target[c] = Freed
       /\ target' = [target EXCEPT ![c] = t]
       /\ PushBack(c)
  /\ size' = size + 1
  /\ UNCHANGED undefined

\* The elements at the places of K, in their order.
ElementsAt(K) ==
  [j \in 1 .. Cardinality(K) |->
     store[CHOOSE i \in K : Cardinality({k \in K : k <= i}) = j]]

\* Deletes the connections of the targets in T and erases them, first to last:
\* the slots given up keep the pointer that was in the last element.
EraseAll(T) ==
  LET kept == ElementsAt({i \in 1 .. size : target[store[i]] \notin T})
  IN  /\ size' = Len(kept)
      /\ store' = [i \in DOMAIN store |->
                     IF i <= Len(kept) THEN kept[i]
                     ELSE IF i <= size THEN store[size] ELSE store[i]]
      /\ target' = [c \in Conns |-> IF target[c] \in T THEN Freed ELSE target[c]]
      /\ emissions' = Disturbed(FALSE)

DisconnectTarget(t) ==
  /\ InUserCode
  /\ t \in Connected
  /\ EraseAll({t})
  /\ UNCHANGED <<capacity, undefined>>

DisconnectReceiver(r) ==
  /\ InUserCode
  /\ MethodsOf(r) \cap Connected # {}
  /\ EraseAll(MethodsOf(r))
  /\ UNCHANGED <<capacity, undefined>>

\* delete of every element, then clear(): no slot is overwritten.
DisconnectAll ==
  /\ InUserCode
  /\ size' = 0
  /\ target' = [c \in Conns |-> Freed]
  /\ emissions' = Disturbed(FALSE)
  /\ UNCHANGED <<store, capacity, undefined>>
-----------------------------------------------------------------------------
Emit ==
  /\ InUserCode
  /\ Len(emissions) < MaxDepth
  /\ emissions' = Append(emissions, NewFrame)
  /\ UNCHANGED <<vector, undefined>>

SetTop(f) == emissions' = [emissions EXCEPT ![Len(emissions)] = f]

Looping == ~undefined /\ Emitting /\ ~Top.running

\* emit() whose end is m_callbacks.end() at each turn.
AtLiveEnd(f) == f.next > size

\* endIter is taken before the loop.
AtEnd(f) == f.next > f.end

Call ==
  /\ Looping
  /\ ~Top.dangling /\ ~AtEnd(Top)
  /\ LET t == target[store[Top.next]]
     IN  IF t = Freed
         THEN undefined' = TRUE /\ UNCHANGED emissions
         ELSE /\ SetTop([Top EXCEPT !.running = TRUE, !.called = Append(@, t)])
              /\ UNCHANGED undefined
  /\ UNCHANGED vector

\* The loop reads or compares an iterator into the storage that was given up.
UseDanglingIterator ==
  /\ Looping
  /\ Top.dangling
  /\ undefined' = TRUE
  /\ UNCHANGED <<vector, emissions>>

CallbackReturns ==
  /\ ~undefined /\ Emitting /\ Top.running
  /\ SetTop([Top EXCEPT !.running = FALSE, !.next = @ + 1])
  /\ UNCHANGED <<vector, undefined>>

EndEmit ==
  /\ Looping
  /\ ~Top.dangling /\ AtEnd(Top)
  /\ emissions' = Front(emissions)
  /\ UNCHANGED <<vector, undefined>>

Next ==
  \/ \E t \in Targets : Connect(t) \/ DisconnectTarget(t)
  \/ \E r \in Receivers : DisconnectReceiver(r)
  \/ DisconnectAll
  \/ Emit \/ Call \/ CallbackReturns \/ UseDanglingIterator \/ EndEmit

Spec == Init /\ [][Next]_vars
-----------------------------------------------------------------------------
\* No target is connected twice, and no element is a deleted SignalT, also
\* when callbacks connect and disconnect (connect() and isConnected()).
ConnectedOnce ==
  /\ \A i, j \in 1 .. size : target[store[i]] = target[store[j]] => i = j
  /\ Freed \notin Connected

\* An emission calls what was connected when it began, each once and in the
\* order of connection, as long as no callback, of this emission or of one
\* nested in it, disconnects anything or makes the vector grow.  Emissions
\* nested in a callback do not change that, nor does a connect() that fits; and
\* the behaviour of the program is undefined only after such a callback.
EmissionsAreComplete ==
  /\ undefined => Top.disturbed
  /\ \A k \in DOMAIN emissions : LET f == emissions[k] IN
       ~f.disturbed =>
         /\ IsPrefix(f.called, f.expected)
         /\ (k = Len(emissions) /\ Looping /\ AtEnd(f)) => f.called = f.expected
=============================================================================
