---------------------------- MODULE StorageProofs ----------------------------
(***************************************************************************)
(* Theorems about Storage, and about iterations over it, for every set of  *)
(* directories, names, objects and path arguments.                         *)
(*                                                                         *)
(* The inductive invariant IInv says that m_subdirs and m_parent agree and *)
(* stay inside the heap, that a freed directory holds nothing, and that    *)
(* siblings have different names.  IterationInv adds the calls of          *)
(* iterate() in progress and what they have yet to visit.  WalkInv says    *)
(* how far a walk along a path has come: where that is on the way of the   *)
(* path is a recursive function, which is defined because the order of the *)
(* natural numbers is well-founded.                                        *)
(***************************************************************************)
EXTENDS StorageIterate, SequenceTheorems, WellFoundedInduction, TLAPS

HeapShape ==
  /\ path[Root] = <<>> /\ parent[Root] = NoDir
  /\ \A d \in heap \ {Root} : parent[d] \in heap
  /\ \A d \in Dirs \ heap : subdirs[d] = {}
  /\ \A d \in heap : \A e \in subdirs[d] :
       /\ e \in heap /\ e # Root
       /\ parent[e] = d
       /\ \E n \in Names : path[e] = Append(path[d], n)

SiblingsDiffer ==
  \A d \in heap : \A e, f \in subdirs[d] : path[e] = path[f] => e = f

ContentsShape ==
  /\ contents \in [Dirs -> SUBSET Objects]
  /\ \A d \in Dirs \ heap : contents[d] = {}

IInv == TypeOK /\ ContentsShape /\ HeapShape /\ SiblingsDiffer /\ CurrentAttached
-----------------------------------------------------------------------------
(* Reachability.                                                           *)

LEMMA ReachRoot ==
  ASSUME NEW h, NEW sub, Root \in h
  PROVE  Root \in Reachable(h, sub)
BY DEF Reachable

LEMMA ReachClosed ==
  ASSUME NEW h, NEW sub, NEW x \in Reachable(h, sub), NEW y \in sub[x], y \in h
  PROVE  y \in Reachable(h, sub)
BY DEF Reachable

LEMMA ReachLeast ==
  ASSUME NEW h, NEW sub, NEW S \in SUBSET h, Root \in S,
         \A x \in S : sub[x] \subseteq S
  PROVE  Reachable(h, sub) \subseteq S
BY DEF Reachable

\* A reachable directory other than the root is listed by a reachable one.
LEMMA ReachListed ==
  ASSUME NEW h, NEW sub, NEW d \in Reachable(h, sub), d # Root, Root \in h,
         \A x \in h : sub[x] \subseteq h
  PROVE  \E x \in Reachable(h, sub) : d \in sub[x]
<1> SUFFICES ASSUME \A x \in Reachable(h, sub) : d \notin sub[x]
             PROVE  FALSE
  OBVIOUS
<1> DEFINE S == Reachable(h, sub) \ {d}
<1>1. S \in SUBSET h
  BY DEF Reachable
<1>2. Root \in S
  BY ReachRoot
<1>3. \A x \in S : sub[x] \subseteq S
  BY ReachClosed, <1>1
<1> HIDE DEF S
<1>4. Reachable(h, sub) \subseteq S
  BY <1>1, <1>2, <1>3, ReachLeast
<1> QED
  BY <1>4 DEF S

\* The invariant gives every attached directory but the root an attached parent.
LEMMA AttachedParent ==
  ASSUME TypeOK, HeapShape, NEW d \in Attached, d # Root
  PROVE  parent[d] \in Attached /\ d \in subdirs[parent[d]] /\ d \in heap
<1>1. \A x \in heap : subdirs[x] \subseteq heap
  BY DEF HeapShape
<1>2. PICK x \in Attached : d \in subdirs[x]
  BY <1>1, ReachListed DEF Attached, TypeOK
<1>3. x \in heap
  BY DEF Attached, Reachable
<1> QED
  BY <1>2, <1>3 DEF HeapShape, Attached, Reachable
-----------------------------------------------------------------------------
(* Reference counts.                                                       *)

LEMMA KeptInHeap ==
  ASSUME NEW sub, NEW pinned
  PROVE  Kept(sub, pinned) \subseteq heap
BY DEF Kept

LEMMA KeptPinned ==
  ASSUME NEW sub, NEW pinned, NEW d \in heap, d \in pinned
  PROVE  d \in Kept(sub, pinned)
<1>1. {d} \in SUBSET heap
  OBVIOUS
<1> QED
  BY <1>1 DEF Kept

\* What a kept directory lists or points at is kept.
LEMMA KeptClosed ==
  ASSUME NEW sub, NEW pinned, NEW x \in Kept(sub, pinned),
         NEW y \in heap, y \in sub[x] \/ parent[x] = y
  PROVE  y \in Kept(sub, pinned)
<1>1. PICK S \in SUBSET heap :
        x \in S /\ \A z \in S : z \in pinned \/ \E w \in S : z \in sub[w] \/ parent[w] = z
  BY DEF Kept
<1> DEFINE T == S \cup {y}
<1>2. T \in SUBSET heap
  OBVIOUS
<1>3. \A z \in T : z \in pinned \/ \E w \in T : z \in sub[w] \/ parent[w] = z
  BY <1>1
<1>4. y \in T
  OBVIOUS
<1> HIDE DEF T
<1> QED
  BY <1>2, <1>3, <1>4 DEF Kept

\* A directory and one that it lists, which points back, keep each other.
LEMMA KeptCycle ==
  ASSUME NEW sub, NEW pinned, NEW d \in heap, NEW e \in heap,
         e \in sub[d], parent[e] = d
  PROVE  d \in Kept(sub, pinned)
<1> DEFINE T == {d, e}
<1>1. T \in SUBSET heap
  OBVIOUS
<1>2. \A z \in T : z \in pinned \/ \E w \in T : z \in sub[w] \/ parent[w] = z
  OBVIOUS
<1>3. d \in T
  OBVIOUS
<1> HIDE DEF T
<1> QED
  BY <1>1, <1>2, <1>3 DEF Kept
-----------------------------------------------------------------------------
(* Paths.                                                                  *)

\* The text of a path occurs in that of every path it is a prefix of.
LEMMA PrefixOccurs ==
  ASSUME NEW p \in Seq(Names), NEW q \in Seq(Names), IsPrefix(p, q)
  PROVE  OccursIn(p, q)
<1>1. CASE p = <<>>
  BY <1>1 DEF OccursIn
<1>2. CASE p # <<>>
  <2>1. Len(p) \in Nat \ {0} /\ Len(q) \in Nat /\ Len(p) <= Len(q)
    BY <1>2 DEF IsPrefix
  <2>2. \A j \in 1 .. Len(p) : p[j] = q[j]
    BY <2>1 DEF IsPrefix
  <2>3. 0 \in 0 .. Len(q) - Len(p)
    BY <2>1
  <2>4. \A j \in 1 .. Len(p) - 1 : p[j] = q[0 + j]
    BY <2>1, <2>2
  <2>5. <<Last(p), q[0 + Len(p)]>> \in StartsWith
    BY <2>1, <2>2, StorageAssumption DEF Last
  <2> QED
    BY <2>3, <2>4, <2>5 DEF OccursIn
<1> QED
  BY <1>1, <1>2

LEMMA PrefixSelf ==
  ASSUME NEW p \in Seq(Names)
  PROVE  IsPrefix(p, p)
BY DEF IsPrefix

LEMMA PrefixAppend ==
  ASSUME NEW p \in Seq(Names), NEW q \in Seq(Names), NEW n \in Names, IsPrefix(p, q)
  PROVE  IsPrefix(p, Append(q, n))
BY DEF IsPrefix
-----------------------------------------------------------------------------
(* What the steps do to the attached directories.                          *)

\* A step of mkdir() keeps every attached directory and attaches the new one.
LEMMA CreateAttaches ==
  ASSUME IInv, NEW c \in Attached, NEW d \in Dirs \ heap,
         heap' = heap \cup {d},
         subdirs' = [subdirs EXCEPT ![c] = @ \cup {d}]
  PROVE  Attached \subseteq Attached' /\ d \in Attached'
<1>1. c \in heap /\ heap \subseteq Dirs /\ Root \in heap /\ subdirs \in [Dirs -> SUBSET Dirs]
  BY DEF IInv, TypeOK, Attached, Reachable
<1>2. \A x \in heap : subdirs[x] \subseteq heap
  BY DEF IInv, HeapShape
<1>3. ASSUME NEW x \in Attached
      PROVE  x \in Attached'
  <2> SUFFICES ASSUME NEW S \in SUBSET heap', Root \in S,
                      \A y \in S : subdirs'[y] \subseteq S
               PROVE  x \in S
    BY <1>1 DEF Attached, Reachable
  <2>1. \A y \in heap : subdirs[y] \subseteq subdirs'[y]
    BY <1>1
  <2> DEFINE T == S \cap heap
  <2>2. T \in SUBSET heap /\ Root \in T
    BY <1>1
  <2>3. \A y \in T : subdirs[y] \subseteq T
    BY <1>2, <2>1
  <2> HIDE DEF T
  <2>4. x \in T
    BY <2>2, <2>3, ReachLeast DEF Attached
  <2> QED
    BY <2>4 DEF T
<1>4. d \in Attached'
  <2>1. c \in Attached' /\ d \in subdirs'[c] /\ d \in heap'
    BY <1>1, <1>3
  <2> QED
    BY <2>1, ReachClosed DEF Attached
<1> QED
  BY <1>3, <1>4

\* rmdir() detaches a directory and what is below it, nothing else: a
\* directory whose path does not begin with that of d stays attached.
LEMMA UnlinkKeepsOthers ==
  ASSUME IInv, NEW d \in Attached, d # Root, NEW c \in Attached,
         ~IsPrefix(path[d], path[c]), c \in heap',
         Root \in heap', heap' \subseteq heap,
         subdirs' = [subdirs EXCEPT ![parent[d]] = @ \ {d}]
  PROVE  c \in Attached'
<1>1. /\ path \in [Dirs -> Seq(Names)]
      /\ subdirs \in [Dirs -> SUBSET Dirs] /\ heap \subseteq Dirs
      /\ d \in Dirs
  BY DEF IInv, TypeOK, Attached, Reachable
<1> SUFFICES ASSUME NEW S \in SUBSET heap', Root \in S,
                    \A y \in S : subdirs'[y] \subseteq S
             PROVE  c \in S
  BY DEF Attached, Reachable
<1> DEFINE Below == {x \in heap : IsPrefix(path[d], path[x])}
           T == S \cup Below
<1>2. T \in SUBSET heap /\ Root \in T
  OBVIOUS
<1>3. ASSUME NEW x \in T, NEW y \in subdirs[x]
      PROVE  y \in T
  <2>1. x \in heap /\ x \in Dirs
    BY <1>1, <1>2
  <2>2. PICK n \in Names : path[y] = Append(path[x], n)
    BY <2>1 DEF IInv, HeapShape
  <2>3. y \in heap
    BY <2>1 DEF IInv, HeapShape
  <2>4. CASE x \in Below
    <3>1. IsPrefix(path[d], path[y])
      BY <1>1, <2>1, <2>2, <2>4, PrefixAppend
    <3> QED
      BY <2>3, <3>1
  <2>5. CASE x \in S /\ y # d
    <3>1. y \in subdirs'[x]
      BY <1>1, <2>1, <2>5
    <3> QED
      BY <2>5, <3>1
  <2>6. CASE y = d
    <3>1. IsPrefix(path[d], path[y])
      BY <1>1, <2>6, PrefixSelf
    <3> QED
      BY <2>3, <3>1
  <2> QED
    BY <2>4, <2>5, <2>6
<1> HIDE DEF T
<1>4. c \in T
  BY <1>2, <1>3, ReachLeast DEF Attached
<1> QED
  BY <1>4 DEF T
-----------------------------------------------------------------------------
(* The invariant is inductive.                                             *)

\* Steps that leave the tree alone: cursors and contents only.
LEMMA QuietStep ==
  ASSUME IInv, UNCHANGED tree, ContentsShape',
         current' \in Attached, CallOK',
         ~IsIdle' => call.cursor' \in Attached
  PROVE  IInv'
<1>1. Attached' = Attached /\ Attached \subseteq Dirs
  BY DEF tree, Attached, Reachable, IInv, TypeOK
<1>2. TypeOK'
  BY <1>1 DEF TypeOK, IInv, tree, ContentsShape
<1>3. HeapShape' /\ SiblingsDiffer'
  BY DEF HeapShape, SiblingsDiffer, IInv, tree
<1>4. CurrentAttached'
  BY <1>1 DEF CurrentAttached, IsIdle
<1> QED
  BY <1>2, <1>3, <1>4 DEF IInv

\* An operation that returns.
LEMMA ReturnStep ==
  ASSUME IInv, UNCHANGED tree, ContentsShape',
         current' \in Attached, NEW s \in Statuses, Return(s)
  PROVE  IInv'
<1>1. CallOK' /\ IsIdle'
  BY DEF CallOK, IsIdle, Return, Idle
<1> QED
  BY <1>1, QuietStep

\* A turn of the loop.
LEMMA AdvanceCall ==
  ASSUME call \in Calls, call.rest # <<>>, NEW d \in Dirs, Advance(d)
  PROVE  call' \in Calls /\ call'.op = call.op /\ call'.cursor = d
<1> DEFINE moved == [call EXCEPT !.cursor = d]
<1>1. moved \in Calls /\ moved.op = call.op /\ moved.cursor = d
  BY DEF Calls
<1>2. Tail(call.rest) \in Seq(Components)
  BY DEF Calls
<1>3. call' = [moved EXCEPT !.rest = Tail(call.rest)]
  BY Zenon DEF Advance
<1> HIDE DEF moved
<1> QED
  BY <1>1, <1>2, <1>3 DEF Calls

LEMMA AdvanceStep ==
  ASSUME IInv, UNCHANGED <<tree, contents, current>>, Walking,
         NEW d \in Attached, Advance(d)
  PROVE  IInv'
<1>1. d \in Dirs /\ call \in Calls /\ call.op # "none"
  BY DEF IInv, TypeOK, Attached, Reachable, CallOK, Walking, IsIdle
<1>2. call' \in Calls /\ call'.op = call.op /\ call'.cursor = d
  BY <1>1, AdvanceCall DEF Walking
<1>3. CallOK'
  BY <1>1, <1>2 DEF CallOK, IsIdle, Calls
<1>4. current' \in Attached /\ ContentsShape'
  BY DEF IInv, CurrentAttached, ContentsShape, tree
<1> QED
  BY <1>2, <1>3, <1>4, QuietStep

LEMMA InitIInv == Init => IInv
<1> SUFFICES ASSUME Init PROVE IInv
  OBVIOUS
<1>1. TypeOK
  BY StorageAssumption DEF Init, TypeOK, CallOK, IsIdle, Idle, Statuses
<1>2. HeapShape /\ SiblingsDiffer
  BY StorageAssumption DEF Init, HeapShape, SiblingsDiffer
<1>3. ContentsShape
  BY DEF Init, ContentsShape
<1>4. CurrentAttached
  BY ReachRoot DEF Init, CurrentAttached, Attached, IsIdle, Idle
<1> QED
  BY <1>1, <1>2, <1>3, <1>4 DEF IInv

LEMMA RejectStep ==
  ASSUME IInv, NEW op \in Ops, NEW p \in PathArgs, Reject(op, p)
  PROVE  IInv'
<1>1. ContentsShape' /\ current' \in Attached
  BY DEF Reject, IInv, ContentsShape, CurrentAttached, tree
<1> QED
  BY <1>1, ReturnStep DEF Reject

LEMMA CallStep ==
  ASSUME IInv, NEW op \in Ops, NEW p \in PathArgs,
         NEW o \in Objects \cup {NoObject}, Call(op, p, o)
  PROVE  IInv'
<1>1. UNCHANGED tree /\ ContentsShape' /\ current' \in Attached
  BY DEF Call, IInv, ContentsShape, CurrentAttached, tree
<1>2. StartOf(p) \in Attached /\ Root \in Attached /\ Attached \subseteq Dirs
  BY ReachRoot DEF StartOf, IInv, TypeOK, CurrentAttached, Attached, Reachable
<1>3. p.comps \in Seq(Components)
  BY StorageAssumption
<1>4. call' \in Calls /\ call'.cursor \in Attached /\ call'.op = op
  BY <1>2, <1>3 DEF Call, Calls, FirstPhase
<1>5. CallOK' /\ ~IsIdle'
  BY <1>4 DEF CallOK, IsIdle, Ops
<1> QED
  BY <1>1, <1>4, <1>5, QuietStep

LEMMA StepStep ==
  ASSUME IInv, StepDot \/ StepUp \/ StepDown \/ StepNotFound
  PROVE  IInv'
<1>1. ~IsIdle /\ call.cursor \in Attached /\ call.cursor \in heap
  BY DEF IInv, CurrentAttached, StepDot, StepUp, StepDown, StepNotFound, Walking,
         Attached, Reachable
<1>2. /\ current \in Attached
      /\ UNCHANGED <<contents, heap>> => ContentsShape'
  BY DEF IInv, CurrentAttached, ContentsShape
<1>3. CASE StepDot
  BY <1>1, <1>3, AdvanceStep DEF StepDot
<1>4. CASE StepUp
  <2>1. CASE call.cursor = Root
    BY <1>2, <1>4, <2>1, ReturnStep DEF StepUp, Statuses, tree
  <2>2. CASE call.cursor # Root
    <3>1. parent[call.cursor] \in Attached
      BY <1>1, <2>2, AttachedParent DEF IInv
    <3> QED
      BY <1>4, <2>2, <3>1, AdvanceStep DEF StepUp
  <2> QED
    BY <2>1, <2>2
<1>5. CASE StepDown
  <2>1. PICK e \in Child(call.cursor, Head(call.rest)) : Advance(e)
    BY <1>5 DEF StepDown
  <2>2. e \in Attached
    BY <1>1, ReachClosed DEF Child, Attached, IInv, HeapShape
  <2> QED
    BY <1>5, <2>1, <2>2, AdvanceStep DEF StepDown
<1>6. CASE StepNotFound
  BY <1>2, <1>6, ReturnStep DEF StepNotFound, Statuses, tree
<1> QED
  BY <1>3, <1>4, <1>5, <1>6

\* A new directory, listed by an attached one that has none of its name.
LEMMA NewDirectoryStep ==
  ASSUME IInv, NEW c \in Attached, NEW n \in Names, Child(c, n) = {},
         NEW d \in Dirs \ heap,
         heap' = heap \cup {d}, parent' = [parent EXCEPT ![d] = c],
         path' = [path EXCEPT ![d] = Append(path[c], n)],
         subdirs' = [subdirs EXCEPT ![c] = @ \cup {d}],
         UNCHANGED <<contents, current>>, CallOK', ~IsIdle' => call.cursor' = d
  PROVE  IInv'
<1>1. /\ heap'     = heap \cup {d}
      /\ parent'   = [parent EXCEPT ![d] = c]
      /\ path'     = [path EXCEPT ![d] = Append(path[c], n)]
      /\ subdirs'  = [subdirs EXCEPT ![c] = @ \cup {d}]
  OBVIOUS
<1>2. n \in Names /\ Child(c, n) = {} /\ UNCHANGED <<contents, current>>
  OBVIOUS
<1>3. c \in Attached /\ c \in heap /\ c \in Dirs /\ current \in Attached
  BY DEF IInv, TypeOK, CurrentAttached, Attached, Reachable
<1>4. d # Root /\ d # c /\ subdirs[d] = {}
  BY <1>3 DEF IInv, TypeOK, HeapShape
<1>5. CallOK' /\ (~IsIdle' => call.cursor' = d)
  OBVIOUS
<1> USE DEF IInv
<1>6. TypeOK'
  BY <1>1, <1>2, <1>3, <1>5 DEF TypeOK
<1>7. HeapShape'
  <2>1. path'[Root] = <<>> /\ parent'[Root] = NoDir
    BY <1>1, <1>4 DEF TypeOK, HeapShape
  <2>2. \A x \in heap' \ {Root} : parent'[x] \in heap'
    BY <1>1, <1>3 DEF TypeOK, HeapShape
  <2>3. \A x \in Dirs \ heap' : subdirs'[x] = {}
    BY <1>1, <1>3 DEF TypeOK, HeapShape
  <2>4. ASSUME NEW x \in heap', NEW e \in subdirs'[x]
        PROVE  /\ e \in heap' /\ e # Root /\ parent'[e] = x
               /\ \E m \in Names : path'[e] = Append(path'[x], m)
    <3>1. CASE e = d
      <4>1. x = c
        BY <1>1, <1>3, <1>4, <2>4, <3>1 DEF TypeOK, HeapShape
      <4> QED
        BY <1>1, <1>2, <1>3, <1>4, <3>1, <4>1 DEF TypeOK
    <3>2. CASE e # d
      <4>1. x \in heap /\ e \in subdirs[x]
        BY <1>1, <1>3, <1>4, <2>4, <3>2 DEF TypeOK
      <4>2. x # d /\ x \in Dirs /\ e \in Dirs
        BY <4>1 DEF TypeOK
      <4> QED
        BY <1>1, <3>2, <4>1, <4>2 DEF TypeOK, HeapShape
    <3> QED
      BY <3>1, <3>2
  <2> QED
    BY <2>1, <2>2, <2>3, <2>4 DEF HeapShape
<1>8. SiblingsDiffer'
  <2> SUFFICES ASSUME NEW x \in heap', NEW e \in subdirs'[x], NEW f \in subdirs'[x],
                      path'[e] = path'[f]
               PROVE  e = f
    BY DEF SiblingsDiffer
  <2>1. x # d
    BY <1>1, <1>3, <1>4 DEF TypeOK
  <2>2. x \in heap /\ x \in Dirs
    BY <1>1, <2>1 DEF TypeOK
  <2>3. \A y \in subdirs[x] : y # d /\ y \in Dirs /\ path'[y] = path[y]
    BY <1>1, <2>2 DEF TypeOK, HeapShape
  <2>4. CASE x # c
    BY <1>1, <2>2, <2>3, <2>4 DEF TypeOK, SiblingsDiffer
  <2>5. CASE x = c
    <3>1. \A y \in subdirs[c] : path[y] # Append(path[c], n)
      <4> SUFFICES ASSUME NEW y \in subdirs[c], path[y] = Append(path[c], n)
                   PROVE  FALSE
        OBVIOUS
      <4>1. Last(path[y]) = n
        BY <1>2, <1>3 DEF Last, TypeOK
      <4> QED
        BY <1>2, <4>1 DEF Child
    <3>2. path'[d] = Append(path[c], n)
      BY <1>1 DEF TypeOK
    <3>3. subdirs'[x] = subdirs[c] \cup {d}
      BY <1>1, <1>3, <2>5 DEF TypeOK
    <3>4. \A y \in subdirs[c] : path'[y] # path'[d]
      BY <2>3, <2>5, <3>1, <3>2
    <3>5. CASE e # d /\ f # d
      BY <1>3, <2>3, <2>5, <3>3, <3>5 DEF SiblingsDiffer
    <3>6. CASE e = d \/ f = d
      BY <3>3, <3>4, <3>6
    <3> QED
      BY <3>5, <3>6
  <2> QED
    BY <2>4, <2>5
<1>9. CurrentAttached'
  <2>1. Attached \subseteq Attached' /\ d \in Attached'
    BY <1>1, <1>3, CreateAttaches
  <2> QED
    BY <1>2, <1>3, <1>5, <2>1 DEF CurrentAttached
<1>10. ContentsShape'
  BY <1>1, <1>2 DEF ContentsShape
<1> QED
  BY <1>6, <1>7, <1>8, <1>9, <1>10

LEMMA CreateStep ==
  ASSUME IInv, StepCreate
  PROVE  IInv'
<1> DEFINE c == call.cursor
           n == Head(call.rest)
<1>1. PICK d \in Dirs \ heap :
        /\ heap'     = heap \cup {d}
        /\ parent'   = [parent EXCEPT ![d] = c]
        /\ path'     = [path EXCEPT ![d] = Append(path[c], n)]
        /\ subdirs'  = [subdirs EXCEPT ![c] = @ \cup {d}]
        /\ Advance(d)
  BY DEF StepCreate
<1>2. /\ Walking /\ n \in Names /\ Child(c, n) = {}
      /\ UNCHANGED <<contents, current>>
  BY DEF StepCreate, MustCreate
<1>3. c \in Attached
  BY <1>2 DEF IInv, CurrentAttached, Walking
<1>4. CallOK' /\ call.cursor' = d
  <2>1. call \in Calls /\ call.op # "none" /\ call.rest # <<>> /\ d \in Dirs
    BY <1>2 DEF IInv, TypeOK, CallOK, IsIdle, Walking
  <2>2. call' \in Calls /\ call'.op = call.op /\ call'.cursor = d
    BY <1>1, <2>1, AdvanceCall
  <2> QED
    BY <2>1, <2>2 DEF CallOK, IsIdle
<1> HIDE DEF c, n
<1> QED
  BY <1>1, <1>2, <1>3, <1>4, NewDirectoryStep

\* A step that takes names off the lists of sub-directories and frees what is
\* no longer held keeps the shape of the heap.
LEMMA FreeStep ==
  ASSUME IInv, NEW sub, NEW pinned, NEW kept \in [Dirs -> SUBSET Objects],
         sub \in [Dirs -> SUBSET Dirs], \A x \in Dirs : sub[x] \subseteq subdirs[x],
         Root \in pinned, subdirs' = sub, Free(Kept(sub, pinned), kept)
  PROVE  /\ heap' = Kept(sub, pinned) /\ heap' \subseteq heap /\ Root \in heap'
         /\ \A d \in heap' : path'[d] = path[d] /\ parent'[d] = parent[d]
         /\ HeapShape' /\ SiblingsDiffer' /\ ContentsShape'
         /\ current' \in Dirs /\ CallOK' => TypeOK'
<1> DEFINE h == Kept(sub, pinned)
<1>1. /\ heap' = h /\ h \subseteq heap /\ Root \in h /\ h \subseteq Dirs
  BY KeptInHeap, KeptPinned DEF Free, IInv, TypeOK
<1>2. /\ parent'   = [d \in Dirs |-> IF d \in h THEN parent[d] ELSE NoDir]
      /\ path'     = [d \in Dirs |-> IF d \in h THEN path[d] ELSE <<>>]
      /\ contents' = [d \in Dirs |-> IF d \in h THEN kept[d] ELSE {}]
  BY DEF Free
<1>3. ASSUME NEW x \in h, NEW y \in heap, y \in sub[x] \/ parent[x] = y
      PROVE  y \in h
  BY <1>3, KeptClosed
<1>4. ASSUME NEW x \in heap, NEW y \in heap, y \in sub[x], parent[y] = x
      PROVE  x \in h
  BY <1>4, KeptCycle
<1> HIDE DEF h
<1>5. \A d \in heap' : path'[d] = path[d] /\ parent'[d] = parent[d]
  BY <1>1, <1>2
<1>6. HeapShape'
  <2>1. path'[Root] = <<>> /\ parent'[Root] = NoDir
    BY <1>1, <1>5 DEF IInv, HeapShape
  <2>2. \A d \in heap' \ {Root} : parent'[d] \in heap'
    BY <1>1, <1>3, <1>5 DEF IInv, HeapShape
  <2>3. ASSUME NEW d \in Dirs \ heap', NEW e \in sub[d]
        PROVE  FALSE
    <3>1. e \in subdirs[d]
      OBVIOUS
    <3>2. d \in heap
      BY <3>1 DEF IInv, HeapShape
    <3>3. e \in heap /\ parent[e] = d
      BY <3>1, <3>2 DEF IInv, HeapShape
    <3> QED
      BY <1>1, <1>4, <3>2, <3>3
  <2>4. ASSUME NEW d \in heap', NEW e \in sub[d]
        PROVE  /\ e \in heap' /\ e # Root /\ parent'[e] = d
               /\ \E n \in Names : path'[e] = Append(path'[d], n)
    <3>1. d \in heap /\ d \in Dirs /\ e \in subdirs[d]
      BY <1>1
    <3>2. /\ e \in heap /\ e # Root /\ parent[e] = d
          /\ \E n \in Names : path[e] = Append(path[d], n)
      BY <3>1 DEF IInv, HeapShape
    <3>3. e \in heap'
      BY <1>1, <1>3, <3>2
    <3> QED
      BY <1>5, <3>2, <3>3
  <2> QED
    BY <2>1, <2>2, <2>3, <2>4 DEF HeapShape
<1>7. SiblingsDiffer'
  <2> SUFFICES ASSUME NEW d \in heap', NEW e \in sub[d], NEW f \in sub[d],
                      path'[e] = path'[f]
               PROVE  e = f
    BY DEF SiblingsDiffer
  <2>1. d \in heap /\ d \in Dirs /\ e \in subdirs[d] /\ f \in subdirs[d]
    BY <1>1
  <2>2. e \in heap' /\ f \in heap'
    BY <1>1, <1>3, <2>1 DEF IInv, HeapShape
  <2> QED
    BY <1>5, <2>1, <2>2 DEF IInv, SiblingsDiffer
<1>8. ASSUME current' \in Dirs, CallOK'
      PROVE  TypeOK'
  <2>1. heap' \subseteq Dirs /\ Root \in heap'
    BY <1>1
  <2>2. parent' \in [Dirs -> Dirs \cup {NoDir}] /\ path' \in [Dirs -> Seq(Names)]
    BY <1>2 DEF IInv, TypeOK
  <2>3. contents' \in [Dirs -> SUBSET Objects] /\ subdirs' \in [Dirs -> SUBSET Dirs]
    BY <1>2
  <2> QED
    BY <1>8, <2>1, <2>2, <2>3 DEF TypeOK
<1>9. ContentsShape'
  BY <1>1, <1>2 DEF ContentsShape
<1> QED
  BY <1>1, <1>5, <1>6, <1>7, <1>8, <1>9 DEF h

\* rmdir() frees what it detaches; the current directory is not below it.
LEMMA UnlinkStep ==
  ASSUME IInv, NEW d \in Attached, ~Refused(d), NEW pinned, {Root, current} \subseteq pinned,
         subdirs' = [subdirs EXCEPT ![parent[d]] = @ \ {d}],
         Free(Kept(subdirs', pinned), contents), UNCHANGED current, CallOK', IsIdle'
  PROVE  /\ IInv' /\ heap' = Kept(subdirs', pinned) /\ heap' \subseteq heap
         /\ \A x \in heap' : path'[x] = path[x] /\ parent'[x] = parent[x]
<1> DEFINE sub == [subdirs EXCEPT ![parent[d]] = @ \ {d}]
<1>1. current \in Attached /\ d # Root
  BY DEF IInv, CurrentAttached, Refused
<1>2. parent[d] \in Dirs /\ d \in heap /\ current \in heap
  BY <1>1, AttachedParent DEF IInv, TypeOK, Attached, Reachable
<1>3. /\ sub \in [Dirs -> SUBSET Dirs]
      /\ \A x \in Dirs : sub[x] \subseteq subdirs[x]
  BY DEF IInv, TypeOK
<1>4. subdirs' = sub /\ Free(Kept(sub, pinned), contents)
  OBVIOUS
<1>5. contents \in [Dirs -> SUBSET Objects] /\ current \in Dirs
  BY DEF IInv, TypeOK
<1>6. current \in Kept(sub, pinned)
  BY <1>2, KeptPinned
<1> HIDE DEF sub
<1>7. /\ heap' = Kept(sub, pinned) /\ heap' \subseteq heap /\ Root \in heap'
      /\ \A x \in heap' : path'[x] = path[x] /\ parent'[x] = parent[x]
      /\ HeapShape' /\ SiblingsDiffer' /\ ContentsShape'
      /\ current' \in Dirs /\ CallOK' => TypeOK'
  BY <1>3, <1>4, <1>5, FreeStep
<1>8. CallOK' /\ IsIdle'
  OBVIOUS
<1>9. current \in Attached'
  <2>1. ~IsPrefix(path[d], path[current])
    BY <1>2, <1>5, PrefixOccurs DEF Refused, IInv, TypeOK
  <2>2. current \in heap'
    BY <1>6, <1>7
  <2>3. subdirs' = [subdirs EXCEPT ![parent[d]] = @ \ {d}]
    BY <1>4 DEF sub
  <2> QED
    BY <1>1, <1>7, <2>1, <2>2, <2>3, UnlinkKeepsOthers
<1>10. CurrentAttached'
  BY <1>8, <1>9 DEF CurrentAttached
<1> QED
  BY <1>4, <1>5, <1>7, <1>8, <1>10 DEF IInv

\* clear() keeps the root, and what directories detached before it hold.
LEMMA EmptyStep ==
  ASSUME IInv, NEW pinned, Root \in pinned, subdirs' = Emptied(subdirs),
         Free(Kept(Emptied(subdirs), pinned), Emptied(contents)),
         current' = Root, UNCHANGED call, IsIdle
  PROVE  /\ IInv' /\ heap' = Kept(Emptied(subdirs), pinned) /\ heap' \subseteq heap
         /\ \A x \in heap' : path'[x] = path[x] /\ parent'[x] = parent[x]
<1> DEFINE sub == Emptied(subdirs)
<1>1. /\ sub \in [Dirs -> SUBSET Dirs] /\ Emptied(contents) \in [Dirs -> SUBSET Objects]
      /\ \A x \in Dirs : sub[x] \subseteq subdirs[x]
  BY DEF IInv, TypeOK, Emptied
<1>2. /\ subdirs' = sub /\ Free(Kept(sub, pinned), Emptied(contents))
      /\ current' = Root /\ call' = call /\ IsIdle
  OBVIOUS
<1> HIDE DEF sub
<1>3. /\ heap' = Kept(sub, pinned) /\ heap' \subseteq heap /\ Root \in heap'
      /\ \A x \in heap' : path'[x] = path[x] /\ parent'[x] = parent[x]
      /\ HeapShape' /\ SiblingsDiffer' /\ ContentsShape'
      /\ current' \in Dirs /\ CallOK' => TypeOK'
  BY <1>1, <1>2, FreeStep
<1>4. CallOK' /\ IsIdle'
  BY <1>2 DEF IInv, TypeOK, CallOK, IsIdle
<1>5. CurrentAttached'
  BY <1>2, <1>3, <1>4, ReachRoot DEF CurrentAttached, Attached
<1>6. heap' = Kept(Emptied(subdirs), pinned)
  BY <1>3 DEF sub
<1> QED
  BY <1>2, <1>3, <1>4, <1>5, <1>6, StorageAssumption DEF IInv

LEMMA ClearStep ==
  ASSUME IInv, Clear
  PROVE  IInv'
BY EmptyStep DEF Clear, ClearTree
-----------------------------------------------------------------------------
LEMMA EndStep ==
  ASSUME IInv, End
  PROVE  IInv'
<1>1. /\ ~IsIdle /\ call \in Calls /\ call.cursor \in Attached /\ call.cursor \in Dirs
      /\ current \in Attached /\ ContentsShape /\ call.cursor \in heap
      /\ UNCHANGED <<contents, heap>> => ContentsShape'
  BY DEF IInv, TypeOK, CallOK, Calls, CurrentAttached, ContentsShape, Attached, Reachable, End, EndMkdir, EndFind, EndCd,
         EndAddMkdir, EndAdd, EndRemove, EndRmdir, Arrived, IsIdle
<1>2. CASE EndMkdir \/ EndFind
  BY <1>1, <1>2, ReturnStep DEF EndMkdir, EndFind, Statuses, tree
<1>3. CASE EndCd
  BY <1>1, <1>3, ReturnStep DEF EndCd, Statuses, tree
<1>4. CASE EndAddMkdir
  <2>1. StartOf(call.arg) \in Attached /\ StartOf(call.arg) \in Dirs
    BY <1>1, ReachRoot DEF StartOf, IInv, TypeOK, Attached, Reachable
  <2>2. call.arg.comps \in Seq(Components)
    BY <1>1, StorageAssumption DEF Calls
  <2> DEFINE c1 == [call EXCEPT !.phase = "walk"]
  <2>3. c1 \in Calls /\ c1.op = "add"
    BY <1>1, <1>4 DEF Calls, EndAddMkdir, Arrived
  <2> DEFINE c2 == [c1 EXCEPT !.rest = call.arg.comps]
  <2>4. c2 \in Calls /\ c2.op = "add"
    <3> HIDE DEF c1
    <3> QED BY <2>2, <2>3 DEF Calls
  <2>5. call' = [c2 EXCEPT !.cursor = StartOf(call.arg)]
    BY <1>4, Zenon DEF EndAddMkdir
  <2> HIDE DEF c2
  <2>6. call' \in Calls /\ call'.op = "add" /\ call'.cursor = StartOf(call.arg)
    BY <2>1, <2>4, <2>5 DEF Calls
  <2>7. CallOK'
    BY <2>6 DEF CallOK, IsIdle
  <2> QED
    BY <1>1, <1>4, <2>1, <2>6, <2>7, QuietStep DEF EndAddMkdir, tree
<1>5. CASE EndAdd
  <2>1. /\ \E s \in Statuses : Return(s)
        /\ ContentsShape'
    BY <1>1, <1>5 DEF EndAdd, AddTo, Statuses, Calls, ContentsShape, tree
  <2> QED
    BY <1>1, <1>5, <2>1, ReturnStep DEF EndAdd
<1>6. CASE EndRemove
  <2>1. /\ \E s \in Statuses : Return(s)
        /\ ContentsShape'
    BY <1>1, <1>6 DEF EndRemove, RemoveFrom, Statuses, ContentsShape, tree
  <2> QED
    BY <1>1, <1>6, <2>1, ReturnStep DEF EndRemove
<1>7. CASE EndRmdir
  <2>1. CASE Refused(call.cursor)
    <3>1. \E s \in Statuses : Return(s)
      BY <1>7, <2>1 DEF EndRmdir, Statuses
    <3> QED
      BY <1>1, <1>7, <2>1, <3>1, ReturnStep DEF EndRmdir, tree
  <2>2. CASE ~Refused(call.cursor)
    <3> DEFINE d == call.cursor
    <3>1. /\ d \in Attached /\ ~Refused(d) /\ UNCHANGED current
          /\ subdirs' = [subdirs EXCEPT ![parent[d]] = @ \ {d}]
          /\ Free(Kept(subdirs', {Root, current}), contents)
      BY <1>1, <1>7, <2>2 DEF EndRmdir, Unlink
    <3>2. CallOK' /\ IsIdle'
      BY <1>7, <2>2 DEF EndRmdir, CallOK, IsIdle, Return, Idle, Statuses
    <3> HIDE DEF d
    <3> QED
      BY <3>1, <3>2, UnlinkStep
  <2> QED
    BY <2>1, <2>2
<1> QED
  BY <1>2, <1>3, <1>4, <1>5, <1>6, <1>7 DEF End

LEMMA DirectStep ==
  ASSUME IInv, Direct
  PROVE  IInv'
<1>1. /\ current \in Attached /\ Root \in Attached /\ Attached \subseteq Dirs
      /\ current \in heap /\ ContentsShape
      /\ UNCHANGED <<contents, heap>> => ContentsShape'
  BY ReachRoot DEF IInv, TypeOK, CurrentAttached, ContentsShape, Attached, Reachable
<1>2. CASE CdRoot
  BY <1>1, <1>2, QuietStep DEF tree, CdRoot, IInv, TypeOK, CallOK, IsIdle
<1>3. CASE GoUp
  <2>1. CASE current = Root
    BY <1>1, <1>3, <2>1, ReturnStep DEF GoUp, Statuses, tree
  <2>2. CASE current # Root
    <3>1. parent[current] \in Attached
      BY <1>1, <2>2, AttachedParent DEF IInv
    <3> QED
      BY <1>1, <1>3, <2>2, <3>1, ReturnStep DEF GoUp, Statuses, tree
  <2> QED
    BY <2>1, <2>2
<1>4. CASE Clear
  BY <1>4, ClearStep
<1>5. ASSUME NEW o \in Objects \cup {NoObject}, AddHere(o) \/ RemoveHere(o)
      PROVE  IInv'
  <2>1. /\ \E s \in Statuses : Return(s)
        /\ ContentsShape'
    BY <1>1, <1>5 DEF ContentsShape, tree, AddHere, RemoveHere, AddTo, RemoveFrom, Statuses
  <2> QED
    BY <1>1, <1>5, <2>1, ReturnStep DEF AddHere, RemoveHere
<1> QED
  BY <1>2, <1>3, <1>4, <1>5 DEF Direct

LEMMA RequestStep ==
  ASSUME IInv, Request
  PROVE  IInv'
BY RejectStep, CallStep DEF Request, Ops

LEMMA NextIInv == IInv /\ [Next]_vars => IInv'
<1> SUFFICES ASSUME IInv, [Next]_vars PROVE IInv'
  OBVIOUS
<1>1. CASE Request
  BY <1>1, RequestStep
<1>2. CASE Step
  BY <1>2, StepStep, CreateStep DEF Step
<1>3. CASE End
  BY <1>3, EndStep
<1>4. CASE Direct
  BY <1>4, DirectStep
<1>5. CASE UNCHANGED vars
  BY <1>5, QuietStep DEF vars, tree, IInv, TypeOK, ContentsShape, CurrentAttached,
       CallOK, IsIdle
<1> QED
  BY <1>1, <1>2, <1>3, <1>4, <1>5 DEF Next

\* The inductive invariant holds in every reachable state.
THEOREM Invariance == Spec => []IInv
BY InitIInv, NextIInv, PTL DEF Spec

\* The members of Storage and Directory have their types in every state.
THEOREM TypeCorrect == Spec => []TypeOK
<1>1. IInv => TypeOK
  BY DEF IInv
<1> QED
  BY <1>1, Invariance, PTL

\* No sequence of calls removes the current directory, or the one an operation
\* has reached, from the tree: rmdir()'s comparison of two path texts is coarse,
\* but it never lets a parent of the current directory go.
THEOREM CurrentStaysAttached == Spec => []CurrentAttached
<1>1. IInv => CurrentAttached
  BY DEF IInv
<1> QED
  BY <1>1, Invariance, PTL
-----------------------------------------------------------------------------
(* Paths identify attached directories.                                    *)

LEMMA AttachedPath ==
  ASSUME TypeOK, HeapShape, NEW d \in Attached, d # Root
  PROVE  \E x \in Attached, n \in Names :
           d \in subdirs[x] /\ path[d] = Append(path[x], n)
<1>1. parent[d] \in Attached /\ d \in subdirs[parent[d]] /\ parent[d] \in heap
  BY AttachedParent DEF Attached, Reachable
<1> QED
  BY <1>1 DEF HeapShape

LEMMA UniqueFromShape ==
  ASSUME TypeOK, HeapShape, SiblingsDiffer
  PROVE  PathsAreUnique
<1> DEFINE S == {d \in Attached : \A e \in Attached : path[d] = path[e] => d = e}
<1>1. /\ Attached \subseteq heap /\ heap \subseteq Dirs /\ Root \in Attached
      /\ \A d \in Dirs : path[d] \in Seq(Names)
  BY ReachRoot DEF TypeOK, Attached, Reachable
<1>2. S \in SUBSET heap
  BY <1>1
<1>3. Root \in S
  <2> SUFFICES ASSUME NEW e \in Attached, path[Root] = path[e], e # Root
               PROVE  FALSE
    BY <1>1
  <2>1. PICK x \in Attached, n \in Names : path[e] = Append(path[x], n)
    BY AttachedPath
  <2>2. path[x] \in Seq(Names)
    BY <1>1
  <2> QED
    BY <2>1, <2>2 DEF HeapShape
<1>4. ASSUME NEW x \in S, NEW y \in subdirs[x]
      PROVE  y \in S
  <2>1. x \in Attached /\ x \in heap
    BY <1>1
  <2>2. y \in heap /\ y # Root
    BY <2>1 DEF HeapShape
  <2>3. PICK n \in Names : path[y] = Append(path[x], n)
    BY <2>1 DEF HeapShape
  <2>4. y \in Attached
    BY <2>1, <2>2, ReachClosed DEF Attached
  <2>5. ASSUME NEW e \in Attached, path[y] = path[e]
        PROVE  y = e
    <3>1. e # Root
      BY <1>1, <2>1, <2>3, <2>5 DEF HeapShape
    <3>2. PICK z \in Attached, m \in Names : e \in subdirs[z] /\ path[e] = Append(path[z], m)
      BY <3>1, AttachedPath
    <3>3. path[x] \in Seq(Names) /\ path[z] \in Seq(Names)
      BY <1>1, <2>1
    <3>4. path[x] = path[z]
      <4>1. Append(path[x], n) = Append(path[z], m)
        BY <2>3, <2>5, <3>2
      <4> QED
        BY <3>3, <4>1, AppendInjective, SMTT(30)
    <3>5. x = z
      BY <3>4
    <3> QED
      BY <2>1, <2>5, <3>2, <3>5 DEF SiblingsDiffer
  <2> QED
    BY <2>4, <2>5
<1> HIDE DEF S
<1>5. Attached \subseteq S
  BY <1>2, <1>3, <1>4, ReachLeast DEF Attached
<1> QED
  BY <1>5 DEF PathsAreUnique, S

\* A full path names at most one directory of the tree, whatever mkdir(),
\* add(), rmdir() and clear() have done before.
THEOREM FullPathsAreUnique == Spec => []PathsAreUnique
<1>1. IInv => PathsAreUnique
  BY UniqueFromShape DEF IInv
<1> QED
  BY <1>1, Invariance, PTL
-----------------------------------------------------------------------------
(***************************************************************************)
(* Walks over a path.  WalkInv says how far the walk has come: the         *)
(* components left are the last ones of the path, the cursor is where the  *)
(* names before them lead to, and each of those names a directory.         *)
(***************************************************************************)

\* Induction: the naturals are well founded, so a set of them that has 0 and
\* with every number the next one has all of them.
LEMMA SmallestOf ==
  ASSUME NEW T \in SUBSET Nat, T # {}
  PROVE  \E n \in T : \A m \in T : n <= m
<1> DEFINE R == OpToRel(<, Nat)
<1>1. IsWellFoundedOn(R, Nat)
  BY NatLessThanWellFounded
<1>2. \A x, y \in Nat : x < y => <<x, y>> \in R
  BY DEF OpToRel
<1> HIDE DEF R
<1>3. PICK x \in T : \A y \in T : ~(<<y, x>> \in R)
  BY <1>1, WFMin
<1>4. \A y \in T : x \in Nat /\ y \in Nat /\ ~(y < x)
  BY <1>2, <1>3
<1> QED
  BY <1>4

LEMMA Induction ==
  ASSUME NEW S, 0 \in S, \A n \in Nat : n \in S => n + 1 \in S
  PROVE  Nat \subseteq S
<1> SUFFICES ASSUME Nat \ S # {} PROVE FALSE
  OBVIOUS
<1>1. PICK n \in Nat \ S : \A m \in Nat \ S : n <= m
  BY SmallestOf
<1>2. n # 0 /\ n - 1 \in Nat /\ n - 1 \in S
  BY <1>1
<1> QED
  BY <1>1, <1>2

\* The function that Along defines exists: a walk over n components is one over
\* n + 1 with another step.
IsWalk(g, from, comps, n) ==
  g = [i \in 0 .. n |-> IF i = 0 THEN from ELSE Follow(g[i - 1], comps[i])]

LEMMA WalksExist ==
  ASSUME NEW from, NEW comps, NEW n \in Nat
  PROVE  \E g : IsWalk(g, from, comps, n)
<1> DEFINE S == {m \in Nat : \E g : IsWalk(g, from, comps, m)}
<1>1. 0 \in S
  <2>1. IsWalk([i \in 0 .. 0 |-> from], from, comps, 0)
    BY DEF IsWalk
  <2> QED
    BY <2>1
<1>2. ASSUME NEW m \in Nat, m \in S PROVE m + 1 \in S
  <2>1. PICK g : IsWalk(g, from, comps, m)
    BY <1>2
  <2> DEFINE h == [i \in 0 .. m + 1 |-> IF i <= m THEN g[i] ELSE Follow(g[m], comps[m + 1])]
             k == [i \in 0 .. m + 1 |-> IF i = 0 THEN from ELSE Follow(h[i - 1], comps[i])]
  <2>2. \A i \in 0 .. m : g[i] = IF i = 0 THEN from ELSE Follow(g[i - 1], comps[i])
    BY <2>1 DEF IsWalk
  <2>3. ASSUME NEW i \in 0 .. m + 1 PROVE h[i] = k[i]
    <3>1. CASE i = 0
      BY <2>2, <3>1
    <3>2. CASE i \in 1 .. m
      <4>1. i - 1 \in 0 .. m + 1 /\ i - 1 <= m /\ i \in 0 .. m
        BY <3>2
      <4>2. h[i] = g[i] /\ h[i - 1] = g[i - 1]
        BY <4>1
      <4>3. k[i] = Follow(h[i - 1], comps[i])
        BY <3>2
      <4> HIDE DEF h, k
      <4> QED
        BY <2>2, <3>2, <4>1, <4>2, <4>3
    <3>3. CASE i = m + 1
      <4>1. m \in 0 .. m + 1 /\ i - 1 = m /\ i # 0 /\ ~(i <= m)
        BY <3>3
      <4>2. h[m] = g[m]
        BY <4>1
      <4>3. h[i] = Follow(g[m], comps[m + 1])
        BY <4>1
      <4>4. k[i] = Follow(h[i - 1], comps[i])
        BY <4>1
      <4> HIDE DEF h, k
      <4> QED
        BY <3>3, <4>1, <4>2, <4>3, <4>4
    <3> QED
      BY <3>1, <3>2, <3>3
  <2>4. h = k
    BY <2>3
  <2>5. IsWalk(h, from, comps, m + 1)
    BY <2>4, Zenon DEF IsWalk
  <2> QED
    BY <2>5
<1> HIDE DEF S
<1>3. n \in S
  BY <1>1, <1>2, Induction
<1> QED
  BY <1>3 DEF S

LEMMA AlongDef ==
  ASSUME NEW from, NEW comps \in Seq(Components)
  PROVE  /\ Along(from, comps)[0] = from
         /\ \A i \in 1 .. Len(comps) :
              Along(from, comps)[i] = Follow(Along(from, comps)[i - 1], comps[i])
<1>1. PICK g : IsWalk(g, from, comps, Len(comps))
  <2>1. Len(comps) \in Nat
    OBVIOUS
  <2> QED
    BY <2>1, WalksExist
<1>2. Along(from, comps) = CHOOSE f : IsWalk(f, from, comps, Len(comps))
  BY Zenon DEF Along, IsWalk
<1>3. IsWalk(Along(from, comps), from, comps, Len(comps))
  BY <1>1, <1>2, Zenon
<1> DEFINE a == Along(from, comps)
<1>4. a = [i \in 0 .. Len(comps) |-> IF i = 0 THEN from ELSE Follow(a[i - 1], comps[i])]
  BY <1>3, Zenon DEF IsWalk
<1> HIDE DEF a
<1>5. a[0] = from /\ \A i \in 1 .. Len(comps) : a[i] = Follow(a[i - 1], comps[i])
  BY <1>4
<1> QED
  BY <1>5 DEF a

\* How far the walk of an operation has come along its path.
Reached == Len(call.arg.comps) - Len(call.rest)

WalkInv ==
  ~IsIdle =>
    /\ Reached \in Nat
    /\ \A i \in 1 .. Len(call.rest) : call.rest[i] = call.arg.comps[Reached + i]
    /\ call.rest # <<>> => path[call.cursor] = Way(call.arg)[Reached]
    /\ \A i \in 0 .. Reached : IsPathOfOne(Way(call.arg)[i])
    /\ call.op = "add" /\ call.phase = "walk" => PathExists(call.arg)

LEMMA WayDef ==
  ASSUME NEW p \in PathArgs
  PROVE  /\ p.comps \in Seq(Components) /\ Len(p.comps) \in Nat
         /\ Way(p)[0] = From(p)
         /\ \A i \in 1 .. Len(p.comps) : Way(p)[i] = Follow(Way(p)[i - 1], p.comps[i])
<1>1. p.comps \in Seq(Components)
  BY StorageAssumption
<1> QED
  BY <1>1, AlongDef DEF Way

\* The way of a path is the same while the current directory is.
LEMMA SameWay ==
  ASSUME NEW p, UNCHANGED current, path'[current] = path[current]
  PROVE  Way(p)' = Way(p)
BY DEF Way, From

\* Names lead above the root, and then nowhere else.
LEMMA AboveForGood ==
  ASSUME NEW p \in PathArgs, NEW k \in 0 .. Len(p.comps), Way(p)[k] = Above
  PROVE  Way(p)[Len(p.comps)] = Above
<1> DEFINE S == {j \in Nat : k + j <= Len(p.comps) => Way(p)[k + j] = Above}
<1>1. 0 \in S
  OBVIOUS
<1>2. ASSUME NEW j \in Nat, j \in S PROVE j + 1 \in S
  <2> SUFFICES ASSUME k + (j + 1) <= Len(p.comps) PROVE Way(p)[k + (j + 1)] = Above
    OBVIOUS
  <2>1. Len(p.comps) \in Nat
    BY WayDef
  <2>2. Way(p)[k + j] = Above
    BY <1>2, <2>1
  <2>3. k + (j + 1) \in 1 .. Len(p.comps) /\ (k + (j + 1)) - 1 = k + j
    BY <2>1
  <2>4. Way(p)[k + (j + 1)] = Follow(Way(p)[k + j], p.comps[k + (j + 1)])
    BY <2>3, WayDef
  <2> QED
    BY <2>2, <2>4 DEF Follow
<1> HIDE DEF S
<1>3. Len(p.comps) - k \in Nat
  BY WayDef
<1>4. Len(p.comps) - k \in S
  BY <1>1, <1>2, <1>3, Induction
<1>5. Len(p.comps) \in Nat
  BY WayDef
<1> QED
  BY <1>3, <1>4, <1>5 DEF S

\* No directory has a path above the root.
LEMMA NoneAbove ==
  ASSUME IInv PROVE ~IsPathOfOne(Above)
<1> SUFFICES ASSUME NEW d \in Attached, path[d] = <<DotDot>> PROVE FALSE
  BY DEF IsPathOfOne, Above
<1>1. path[d] \in Seq(Names)
  BY DEF IInv, TypeOK, Attached, Reachable
<1>2. DotDot \in Names
  BY <1>1
<1> QED
  BY <1>2, StorageAssumption

\* A directory whose path is one name longer than that of another is below it.
LEMMA PathBelow ==
  ASSUME IInv, NEW c \in Attached, NEW n \in Names, IsPathOfOne(Append(path[c], n))
  PROVE  Child(c, n) # {}
<1>1. PICK d \in Attached : path[d] = Append(path[c], n)
  BY DEF IsPathOfOne
<1>2. \A x \in Attached : x \in Dirs /\ path[x] \in Seq(Names)
  BY DEF IInv, TypeOK, Attached, Reachable
<1>3. d # Root
  <2>1. path[Root] = <<>>
    BY DEF IInv, HeapShape
  <2> QED
    BY <1>1, <1>2, <2>1
<1>4. PICK x \in Attached, m \in Names : d \in subdirs[x] /\ path[d] = Append(path[x], m)
  BY <1>3, AttachedPath DEF IInv
<1>5. path[x] = path[c]
  <2>1. path[x] \in Seq(Names) /\ path[c] \in Seq(Names)
    BY <1>2
  <2>2. Append(path[x], m) = Append(path[c], n)
    BY <1>1, <1>4
  <2> QED
    BY <2>1, <2>2, AppendInjective
<1>6. x = c
  BY <1>5, UniqueFromShape DEF PathsAreUnique, IInv
<1>7. Last(path[d]) = n
  BY <1>1, <1>2 DEF Last
<1> QED
  BY <1>4, <1>6, <1>7 DEF Child

\* The component a walk is at, and where it leads.
LEMMA AtComponent ==
  ASSUME IInv, WalkInv, Walking
  PROVE  /\ call \in Calls /\ call.arg \in PathArgs /\ call.cursor \in Attached
         /\ call.rest \in Seq(Components) /\ Len(call.rest) \in Nat \ {0}
         /\ Reached \in Nat /\ Reached + 1 \in 1 .. Len(call.arg.comps)
         /\ call.arg.comps[Reached + 1] = Head(call.rest)
         /\ Way(call.arg)[Reached + 1] = Follow(path[call.cursor], Head(call.rest))
<1>1. call \in Calls /\ call.arg \in PathArgs /\ call.rest \in Seq(Components)
  BY DEF IInv, TypeOK, CallOK, Walking, Calls
<1>2. call.cursor \in Attached /\ call.rest # <<>>
  BY DEF IInv, CurrentAttached, Walking
<1>3. Len(call.rest) \in Nat \ {0}
  BY <1>1, <1>2
<1>4. /\ Reached \in Nat /\ call.rest[1] = call.arg.comps[Reached + 1]
      /\ path[call.cursor] = Way(call.arg)[Reached]
  BY <1>2, <1>3 DEF WalkInv, Walking
<1>5. Len(call.arg.comps) \in Nat
  BY <1>1, WayDef
<1>6. Reached + 1 \in 1 .. Len(call.arg.comps) /\ (Reached + 1) - 1 = Reached
  <2>1. \A a, b, r \in Nat : b # 0 /\ r = a - b => r + 1 \in 1 .. a /\ (r + 1) - 1 = r
    OBVIOUS
  <2>2. Reached = Len(call.arg.comps) - Len(call.rest)
    BY DEF Reached
  <2> QED
    BY <1>3, <1>4, <1>5, <2>1, <2>2, Zenon
<1>7. Head(call.rest) = call.rest[1]
  BY <1>1, <1>2
<1>8. Way(call.arg)[Reached + 1] = Follow(Way(call.arg)[Reached], call.arg.comps[Reached + 1])
  BY <1>1, <1>6, WayDef
<1> QED
  BY <1>1, <1>2, <1>3, <1>4, <1>6, <1>7, <1>8

\* A turn of the loop goes on to the directory that the names lead to.
LEMMA AdvanceKeepsWalk ==
  ASSUME IInv, WalkInv, Walking, NEW d \in Dirs, Advance(d), d \in Attached',
         path'[d] = Follow(path[call.cursor], Head(call.rest)),
         Attached \subseteq Attached', \A x \in Attached : path'[x] = path[x],
         UNCHANGED current
  PROVE  WalkInv'
<1>0. PICK p : p = call.arg
  OBVIOUS
<1>1. /\ call \in Calls /\ p \in PathArgs /\ call.rest \in Seq(Components)
      /\ Len(call.rest) \in Nat \ {0} /\ Reached \in Nat
      /\ Way(p)[Reached + 1] = path'[d]
  BY <1>0, AtComponent
<1>2. /\ call'.op = call.op /\ call'.phase = call.phase /\ call'.arg = p
      /\ call'.cursor = d /\ call'.rest = Tail(call.rest)
  BY <1>0, <1>1 DEF Advance, Calls
<1>3. ~IsIdle /\ call.rest # <<>>
  BY DEF Walking
<1>4. Len(call'.rest) = Len(call.rest) - 1 /\ \A i \in 1 .. Len(call'.rest) : call'.rest[i] = call.rest[i + 1]
  BY <1>1, <1>2, <1>3
<1>5. Reached' = Reached + 1
  <2>1. Len(p.comps) \in Nat
    BY <1>1, WayDef
  <2>2. Reached = Len(p.comps) - Len(call.rest) /\ Reached' = Len(p.comps) - Len(call'.rest)
    BY <1>0, <1>2 DEF Reached
  <2> QED
    BY <1>1, <1>4, <2>1, <2>2
<1>6. Way(p)' = Way(p)
  <2>1. current \in Attached
    BY DEF IInv, CurrentAttached
  <2> QED
    BY <2>1, SameWay
<1>7. \A q : IsPathOfOne(q) => IsPathOfOne(q)'
  BY DEF IsPathOfOne
<1>8. \A i \in 1 .. Len(call'.rest) : call'.rest[i] = p.comps[Reached' + i]
  <2> SUFFICES ASSUME NEW i \in 1 .. Len(call'.rest) PROVE call'.rest[i] = p.comps[Reached' + i]
    OBVIOUS
  <2>1. i + 1 \in 1 .. Len(call.rest) /\ call'.rest[i] = call.rest[i + 1]
    BY <1>1, <1>4
  <2>2. call.rest[i + 1] = p.comps[Reached + (i + 1)]
    BY <1>0, <1>3, <2>1 DEF WalkInv
  <2>3. Reached + (i + 1) = Reached' + i
    BY <1>1, <1>5
  <2> QED
    BY <2>1, <2>2, <2>3
<1>9. \A i \in 0 .. Reached' : IsPathOfOne(Way(p)[i])'
  <2> SUFFICES ASSUME NEW i \in 0 .. Reached + 1 PROVE IsPathOfOne(Way(p)[i])'
    BY <1>5
  <2>1. CASE i \in 0 .. Reached
    <3>1. IsPathOfOne(Way(p)[i])
      BY <1>0, <1>3, <2>1 DEF WalkInv
    <3> QED
      BY <1>6, <1>7, <3>1
  <2>2. CASE i = Reached + 1
    <3>1. Way(p)'[i] = path'[d]
      BY <1>1, <1>6, <2>2
    <3> QED
      BY <3>1 DEF IsPathOfOne
  <2> QED
    BY <1>1, <2>1, <2>2
<1>10. ASSUME call.op = "add", call.phase = "walk" PROVE PathExists(p)'
  <2>1. PathExists(p)
    BY <1>0, <1>3, <1>10 DEF WalkInv
  <2> QED
    BY <1>6, <1>7, <2>1 DEF PathExists
<1>11. path'[call'.cursor] = Way(p)'[Reached']
  BY <1>1, <1>2, <1>5, <1>6
<1> QED
  BY <1>1, <1>2, <1>5, <1>8, <1>9, <1>10, <1>11 DEF WalkInv

\* The turns of the loop lead where the names do.
LEMMA TurnKeepsWalk ==
  ASSUME IInv, WalkInv, StepDot \/ StepUp \/ StepDown \/ StepNotFound
  PROVE  WalkInv'
<1> DEFINE c == call.cursor
           n == Head(call.rest)
<1>1. Walking /\ UNCHANGED <<tree, contents, current>>
  BY DEF StepDot, StepUp, StepDown, StepNotFound
<1>2. c \in Attached /\ Attached' = Attached /\ Attached \subseteq Dirs
  BY <1>1, AtComponent DEF tree, Attached, Reachable, IInv, TypeOK
<1>3. \A x : path'[x] = path[x]
  BY <1>1 DEF tree
<1>4. path[c] \in Seq(Names)
  BY <1>2 DEF IInv, TypeOK
<1>5. path[c] # Above
  BY <1>2, NoneAbove DEF IsPathOfOne
<1>6. CASE StepDot
  <2>1. Follow(path[c], n) = path[c] /\ Advance(c)
    BY <1>6 DEF StepDot, Follow
  <2> QED
    BY <1>1, <1>2, <1>3, <2>1, AdvanceKeepsWalk
<1>7. CASE StepUp
  <2>1. CASE c = Root
    BY <1>7, <2>1 DEF StepUp, Return, Idle, WalkInv, IsIdle
  <2>2. CASE c # Root
    <3>1. parent[c] \in Attached /\ c \in subdirs[parent[c]]
      BY <1>2, <2>2, AttachedParent DEF IInv
    <3>2. PICK m \in Names : path[c] = Append(path[parent[c]], m)
      BY <3>1 DEF IInv, HeapShape, Attached, Reachable
    <3>3. path[parent[c]] \in Seq(Names)
      BY <1>2, <3>1 DEF IInv, TypeOK
    <3>4. path[c] # <<>> /\ Front(path[c]) = path[parent[c]]
      BY <3>2, <3>3, SMTT(30) DEF Front
    <3>5. Advance(parent[c]) /\ n = DotDot
      BY <1>7, <2>2 DEF StepUp
    <3>6. Follow(path[c], n) = path[parent[c]]
      BY <1>5, <3>4, <3>5 DEF Follow, Dot, DotDot
    <3> QED
      BY <1>1, <1>2, <1>3, <3>1, <3>5, <3>6, AdvanceKeepsWalk
  <2> QED
    BY <2>1, <2>2
<1>8. CASE StepDown
  <2>1. PICK e \in Child(c, n) : Advance(e)
    BY <1>8 DEF StepDown
  <2>2. e \in subdirs[c] /\ Last(path[e]) = n /\ n \in Names
    BY <1>8, <2>1 DEF Child, StepDown
  <2>3. e \in Attached
    BY <1>2, <2>2, ReachClosed DEF Attached, Reachable, IInv, HeapShape
  <2>4. PICK m \in Names : path[e] = Append(path[c], m)
    BY <1>2, <2>2 DEF IInv, HeapShape, Attached, Reachable
  <2>5. Last(path[e]) = m
    BY <1>4, <2>4 DEF Last
  <2>6. n # Dot /\ n # DotDot
    BY <2>2, StorageAssumption
  <2>7. Follow(path[c], n) = path[e]
    BY <1>5, <2>2, <2>4, <2>5, <2>6 DEF Follow
  <2> QED
    BY <1>1, <1>2, <1>3, <2>1, <2>3, <2>7, AdvanceKeepsWalk
<1>9. CASE StepNotFound
  BY <1>9 DEF StepNotFound, Return, Idle, WalkInv, IsIdle
<1> QED
  BY <1>6, <1>7, <1>8, <1>9

LEMMA CreateKeepsWalk ==
  ASSUME IInv, WalkInv, StepCreate
  PROVE  WalkInv'
<1> DEFINE c == call.cursor
           n == Head(call.rest)
<1>1. PICK d \in Dirs \ heap :
        /\ heap' = heap \cup {d}
        /\ path' = [path EXCEPT ![d] = Append(path[c], n)]
        /\ subdirs' = [subdirs EXCEPT ![c] = @ \cup {d}]
        /\ Advance(d)
  BY DEF StepCreate
<1>2. Walking /\ n \in Names /\ UNCHANGED current /\ c \in Attached
  BY AtComponent DEF StepCreate
<1>3. Attached \subseteq Attached' /\ d \in Attached'
  BY <1>1, <1>2, CreateAttaches
<1>4. /\ path \in [Dirs -> Seq(Names)]
      /\ \A x \in Attached : x \in heap /\ x \in Dirs
  BY DEF IInv, TypeOK, Attached, Reachable
<1>5. path[c] # Above
  BY <1>2, NoneAbove DEF IsPathOfOne
<1>6. path'[d] = Follow(path[c], n)
  <2>1. n # Dot /\ n # DotDot
    BY <1>2, StorageAssumption
  <2> QED
    BY <1>1, <1>4, <1>5, <2>1 DEF Follow
<1>7. \A x \in Attached : path'[x] = path[x]
  BY <1>1, <1>4
<1> HIDE DEF c, n
<1> QED
  BY <1>1, <1>2, <1>3, <1>6, <1>7, AdvanceKeepsWalk DEF c, n

\* A walk begins at the directory of its path, with no name behind it.
LEMMA CallKeepsWalk ==
  ASSUME IInv, NEW op \in Ops, NEW p \in PathArgs, NEW o, Call(op, p, o)
  PROVE  WalkInv'
<1>1. /\ call'.op = op /\ call'.phase = FirstPhase(op) /\ call'.arg = p /\ call'.rest = p.comps
      /\ call'.cursor = IF op = "cd" /\ IsEmptyPath(p) THEN Root ELSE StartOf(p)
      /\ UNCHANGED <<tree, current>>
  BY DEF Call
<1>2. p.comps \in Seq(Components) /\ Len(p.comps) \in Nat /\ Way(p)[0] = From(p)
  BY WayDef
<1>3. Reached' = 0
  BY <1>1, <1>2 DEF Reached
<1>4. path[Root] = <<>> /\ Root \in Attached /\ current \in Attached
  BY ReachRoot DEF IInv, HeapShape, TypeOK, CurrentAttached, Attached
<1>5. path[StartOf(p)] = From(p) /\ StartOf(p) \in Attached
  BY <1>4 DEF StartOf, From
<1>6. Attached' = Attached /\ \A x : path'[x] = path[x]
  BY <1>1 DEF tree, Attached
<1>7. Way(p)' = Way(p)
  BY <1>1, <1>6, SameWay
<1>8. p.comps # <<>> => path'[call'.cursor] = Way(p)'[0]
  BY <1>1, <1>2, <1>5, <1>6, <1>7 DEF IsEmptyPath
<1>9. \A i \in 0 .. 0 : IsPathOfOne(Way(p)[i])'
  BY <1>2, <1>5, <1>6, <1>7 DEF IsPathOfOne
<1>10. ~(op = "add" /\ FirstPhase(op) = "walk")
  BY DEF FirstPhase
<1> QED
  BY <1>1, <1>2, <1>3, <1>8, <1>9, <1>10 DEF WalkInv

\* add() looks up the path that its mkdir() has walked to the end.
LEMMA AddKeepsWalk ==
  ASSUME IInv, WalkInv, EndAddMkdir
  PROVE  WalkInv'
<1>0. PICK p : p = call.arg
  OBVIOUS
<1>1. ~IsIdle /\ call \in Calls /\ p \in PathArgs /\ call.rest = <<>>
  BY <1>0 DEF EndAddMkdir, Arrived, IsIdle, IInv, TypeOK, CallOK, Calls
<1>2. /\ call'.op = "add" /\ call'.phase = "walk" /\ call'.arg = p /\ call'.rest = p.comps
      /\ call'.cursor = StartOf(p) /\ UNCHANGED <<tree, current>>
  BY <1>0, <1>1 DEF EndAddMkdir, Arrived, Calls
<1>3. p.comps \in Seq(Components) /\ Len(p.comps) \in Nat /\ Way(p)[0] = From(p)
  BY <1>1, WayDef
<1>4. Reached = Len(p.comps) /\ Reached' = 0
  BY <1>0, <1>1, <1>2, <1>3 DEF Reached
<1>5. PathExists(p)
  BY <1>0, <1>1, <1>3, <1>4 DEF WalkInv, PathExists
<1>6. path[StartOf(p)] = From(p)
  BY DEF StartOf, From, IInv, HeapShape
<1>7. Attached' = Attached /\ \A x : path'[x] = path[x]
  BY <1>2 DEF tree, Attached
<1>8. Way(p)' = Way(p)
  BY <1>2, <1>7, SameWay
<1>9. PathExists(p)'
  BY <1>5, <1>7, <1>8 DEF PathExists, IsPathOfOne
<1>10. \A i \in 0 .. 0 : IsPathOfOne(Way(p)[i])'
  BY <1>3, <1>9 DEF PathExists
<1> QED
  BY <1>2, <1>3, <1>4, <1>6, <1>7, <1>8, <1>9, <1>10 DEF WalkInv

LEMMA NextWalkInv == IInv /\ WalkInv /\ [Next]_vars => WalkInv'
<1> SUFFICES ASSUME IInv, WalkInv, [Next]_vars PROVE WalkInv'
  OBVIOUS
<1>1. CASE Request
  BY <1>1, CallKeepsWalk DEF Request, Ops, Reject, Return, Idle, WalkInv, IsIdle
<1>2. CASE Step
  BY <1>2, TurnKeepsWalk, CreateKeepsWalk DEF Step
<1>3. CASE End
  <2>1. CASE EndAddMkdir
    BY <2>1, AddKeepsWalk
  <2>2. CASE ~EndAddMkdir
    <3>1. IsIdle'
      BY <1>3, <2>2 DEF End, EndMkdir, EndFind, EndCd, EndAdd, EndRemove, EndRmdir, AddTo, RemoveFrom,
         Return, Idle, IsIdle
    <3> QED
      BY <3>1 DEF WalkInv, IsIdle
  <2> QED
    BY <2>1, <2>2
<1>4. CASE Direct
  <2>1. IsIdle'
    BY <1>4 DEF Direct, CdRoot, GoUp, Clear, AddHere, RemoveHere, AddTo, RemoveFrom, Return, Idle, IsIdle
  <2> QED
    BY <2>1 DEF WalkInv, IsIdle
<1>5. CASE UNCHANGED vars
  BY <1>5 DEF vars, tree, WalkInv, IsIdle, Reached, Way, From, IsPathOfOne, PathExists, Attached
<1> QED
  BY <1>1, <1>2, <1>3, <1>4, <1>5 DEF Next

\* Of a step that gives up.
LEMMA GivesUpRightly ==
  ASSUME IInv, WalkInv, [Next]_vars, Walking, IsIdle'
  PROVE  IF call.phase = "create" THEN Way(call.arg)[Len(call.arg.comps)] = Above
         ELSE call.op # "add" /\ ~PathExists(call.arg)
<1> DEFINE p == call.arg
           k == Reached + 1
<1>1. /\ call \in Calls /\ p \in PathArgs /\ call.cursor \in Attached /\ k \in 1 .. Len(p.comps)
      /\ Way(p)[k] = Follow(path[call.cursor], Head(call.rest))
  BY AtComponent
<1>2. Len(p.comps) \in Nat
  BY <1>1, WayDef
<1>3. (StepUp /\ call.cursor = Root) \/ StepNotFound
  <2>1. ~IsIdle /\ call.rest # <<>>
    BY DEF Walking
  <2>2. \A d : Advance(d) => call'.op = call.op
    BY <1>1 DEF Advance, Calls
  <2>3. ~Request /\ ~End /\ ~Direct /\ ~UNCHANGED vars
    BY <2>1 DEF Request, Reject, Call, End, EndMkdir, EndFind, EndCd, EndAddMkdir, EndAdd, EndRemove,
       EndRmdir, Arrived, Direct, CdRoot, GoUp, Clear, AddHere, RemoveHere, vars, IsIdle
  <2> QED
    BY <2>1, <2>2, <2>3 DEF Next, Step, StepDot, StepUp, StepDown, StepCreate, IsIdle
<1>4. CASE StepUp /\ call.cursor = Root
  <2>1. Way(p)[k] = Above
    BY <1>1, <1>4 DEF StepUp, Follow, IInv, HeapShape, Dot, DotDot, Above
  <2>2. Way(p)[Len(p.comps)] = Above
    BY <1>1, <1>2, <2>1, AboveForGood
  <2>3. ~PathExists(p)
    BY <1>1, <1>2, <2>1, NoneAbove DEF PathExists
  <2>4. call.phase # "create" => call.phase = "walk"
    BY <1>1 DEF Calls
  <2> QED
    BY <2>2, <2>3, <2>4 DEF WalkInv, Walking
<1>5. CASE StepNotFound
  <2>1. Head(call.rest) \in Names /\ call.phase = "walk" /\ Child(call.cursor, Head(call.rest)) = {}
    BY <1>5 DEF StepNotFound
  <2>2. path[call.cursor] # Above
    BY <1>1, NoneAbove DEF IsPathOfOne
  <2>3. Way(p)[k] = Append(path[call.cursor], Head(call.rest))
    BY <1>1, <2>1, <2>2, StorageAssumption DEF Follow
  <2>4. ~IsPathOfOne(Way(p)[k])
    BY <1>1, <2>1, <2>3, PathBelow
  <2>5. ~PathExists(p)
    BY <1>1, <1>2, <2>4 DEF PathExists
  <2> QED
    BY <2>1, <2>5 DEF WalkInv, Walking
<1> QED
  BY <1>3, <1>4, <1>5

\* A path is given up only where a directory is missing or the path leaves the
\* root, and add() never gives up what its mkdir() has just made.
THEOREM WalksOnlyGiveUpRightly == Spec => WalksGiveUpRightly
<1>1. Init => WalkInv
  BY DEF Init, Idle, WalkInv, IsIdle
<1>2. IInv /\ WalkInv /\ [Next]_vars => WalkInv'
  BY NextWalkInv
<1>3. IInv /\ WalkInv /\ [Next]_vars =>
        [(Walking /\ IsIdle') =>
           IF call.phase = "create" THEN Way(call.arg)[Len(call.arg.comps)] = Above
           ELSE call.op # "add" /\ ~PathExists(call.arg)]_vars
  BY GivesUpRightly
<1> QED
  BY <1>1, <1>2, <1>3, Invariance, PTL DEF Spec, WalksGiveUpRightly
-----------------------------------------------------------------------------
(***************************************************************************)
(* Storage implements Namespace: with a directory standing for its full    *)
(* path, every step of the linked Directory objects is a step of the name  *)
(* space or leaves it as it is.                                            *)
(***************************************************************************)

LEMMA ShapeFacts ==
  ASSUME IInv
  PROVE  /\ Attached \subseteq heap /\ heap \subseteq Dirs /\ Root \in Attached
         /\ current \in Attached
         /\ \A d \in Dirs : path[d] \in Seq(Names)
         /\ \A x \in Attached : subdirs[x] \subseteq Attached
<1>1. /\ Attached \subseteq heap /\ heap \subseteq Dirs /\ Root \in Attached
      /\ \A d \in Dirs : path[d] \in Seq(Names)
      /\ current \in Attached
  BY ReachRoot DEF IInv, TypeOK, CurrentAttached, Attached, Reachable
<1>2. ASSUME NEW x \in Attached, NEW y \in subdirs[x]
      PROVE  y \in Attached
  <2>1. y \in heap
    BY <1>1 DEF IInv, HeapShape
  <2> QED
    BY <2>1, ReachClosed DEF Attached
<1> QED
  BY <1>1, <1>2

\* Steps that leave the tree, the contents and the current directory alone.
LEMMA StutterStep ==
  ASSUME UNCHANGED <<tree, contents, current>>
  PROVE  UNCHANGED NS!vars
<1>1. Attached' = Attached
  BY DEF tree, Attached, Reachable
<1> QED
  BY <1>1 DEF tree, NS!vars

\* One action of the name space, at the path p of an attached directory.
LEMMA NameSpaceStep ==
  ASSUME NEW p \in {path[x] : x \in Attached},
         \/ \E n \in Names : NS!Make(p, n)
         \/ \E o \in Objects : NS!Put(p, o) \/ NS!Take(p, o)
         \/ NS!Go(p)
         \/ NS!RemoveTree(p)
  PROVE  NS!Next
BY DEF NS!Next

LEMMA GoStep ==
  ASSUME IInv, UNCHANGED <<tree, contents>>, current' \in Attached
  PROVE  NS!Next
<1>1. Attached' = Attached
  BY DEF tree, Attached, Reachable
<1>2. PICK p \in {path[x] : x \in Attached} : p = path[current']
  OBVIOUS
<1>3. NS!Go(p)
  BY <1>1, <1>2 DEF tree, NS!Go
<1> QED
  BY <1>3, NameSpaceStep

LEMMA PutTakeStep ==
  ASSUME IInv, UNCHANGED <<tree, current>>, NEW d \in Attached,
         NEW o \in Objects \cup {NoObject},
         AddTo(d, o) \/ RemoveFrom(d, o)
  PROVE  [NS!Next]_(NS!vars)
<1>1. Attached' = Attached /\ Attached \subseteq Dirs
  BY ShapeFacts DEF tree, Attached, Reachable
<1>2. PICK p \in {path[x] : x \in Attached} : p = path[d]
  OBVIOUS
<1>3. CASE UNCHANGED contents
  BY <1>3, StutterStep
<1>4. CASE o \in Objects /\ contents' = [contents EXCEPT ![d] = @ \cup {o}]
  <2>1. NS!Put(p, o)
    BY <1>1, <1>2, <1>4 DEF NS!Put, tree, IInv, TypeOK
  <2> QED
    BY <1>4, <2>1, NameSpaceStep
<1>5. CASE o \in contents[d] /\ contents' = [contents EXCEPT ![d] = @ \ {o}]
  <2>1. \A x \in Attached : path[x] = path[d] => x = d
    BY UniqueFromShape DEF IInv, PathsAreUnique
  <2>2. NS!Take(p, o)
    BY <1>1, <1>2, <1>5, <2>1 DEF NS!Take, tree, IInv, TypeOK
  <2>3. o \in Objects
    BY <1>1, <1>5 DEF IInv, TypeOK
  <2> QED
    BY <2>2, <2>3, NameSpaceStep
<1> QED
  BY <1>3, <1>4, <1>5 DEF AddTo, RemoveFrom

LEMMA MakeStep ==
  ASSUME IInv, NEW c \in Attached, NEW n \in Names, NEW d \in Dirs \ heap,
         heap' = heap \cup {d}, path' = [path EXCEPT ![d] = Append(path[c], n)],
         subdirs' = [subdirs EXCEPT ![c] = @ \cup {d}], UNCHANGED <<contents, current>>
  PROVE  NS!Next
<1>1. /\ heap'     = heap \cup {d}
      /\ path'     = [path EXCEPT ![d] = Append(path[c], n)]
      /\ subdirs'  = [subdirs EXCEPT ![c] = @ \cup {d}]
  OBVIOUS
<1>2. n \in Names /\ UNCHANGED <<contents, current>>
  OBVIOUS
<1>3. c \in Attached /\ c \in heap /\ c \in Dirs
  BY ShapeFacts
<1>4. Attached \subseteq Attached' /\ d \in Attached'
  BY <1>1, <1>3, CreateAttaches
<1>5. Attached' \subseteq Attached \cup {d}
  <2> DEFINE S == Attached \cup {d}
  <2>1. S \in SUBSET heap' /\ Root \in S
    BY <1>1, ShapeFacts
  <2>2. subdirs[d] = {} /\ d # c
    BY <1>3 DEF IInv, HeapShape
  <2>3. subdirs'[d] = {} /\ subdirs'[c] = subdirs[c] \cup {d}
    BY <1>1, <1>3, <2>2 DEF IInv, TypeOK
  <2>4. \A x \in S : subdirs'[x] \subseteq S
    BY <1>1, <1>3, <2>3, ShapeFacts DEF IInv, TypeOK
  <2> HIDE DEF S
  <2>5. PICK h, sub : h = heap' /\ sub = subdirs'
    OBVIOUS
  <2>6. S \in SUBSET h /\ Root \in S /\ \A x \in S : sub[x] \subseteq S
    BY <2>1, <2>4, <2>5
  <2>7. Reachable(h, sub) \subseteq S
    BY <2>6, ReachLeast
  <2> QED
    BY <2>5, <2>7 DEF S, Attached
<1>6. path'[d] = Append(path[c], n) /\ \A x \in Attached : path'[x] = path[x]
  BY <1>1, ShapeFacts DEF IInv, TypeOK
<1>7. contents'[d] = {}
  BY <1>2 DEF IInv, ContentsShape
<1>8. PICK p \in {path[x] : x \in Attached}, m \in Names : p = path[c] /\ m = n
  BY <1>2, <1>3
<1>9. NS!Make(p, m)
  <2>1. {path'[x] : x \in Attached'} = {path[x] : x \in Attached} \cup {Append(path[c], n)}
    BY <1>4, <1>5, <1>6
  <2>2. path'[current'] = path[current]
    BY <1>2, <1>6, ShapeFacts
  <2>3. UNION {{<<path'[x], o>> : o \in contents'[x]} : x \in Attached'}
          = UNION {{<<path[x], o>> : o \in contents[x]} : x \in Attached}
    BY <1>2, <1>4, <1>5, <1>6, <1>7
  <2> QED
    BY <1>8, <2>1, <2>2, <2>3 DEF NS!Make
<1> QED
  BY <1>9, NameSpaceStep

\* rmdir() detaches exactly the directories whose path begins with that of d.
LEMMA UnlinkExactly ==
  ASSUME IInv, NEW d \in Attached, d # Root, ~IsPrefix(path[d], path[current]),
         NEW pinned, {Root, current} \subseteq pinned,
         subdirs' = [subdirs EXCEPT ![parent[d]] = @ \ {d}],
         Free(Kept(subdirs', pinned), contents), UNCHANGED current
  PROVE  /\ Attached' = {x \in Attached : ~IsPrefix(path[d], path[x])}
         /\ Attached' \subseteq heap'
<1> DEFINE sub == [subdirs EXCEPT ![parent[d]] = @ \ {d}]
           Others == {x \in Attached : ~IsPrefix(path[d], path[x])}
<1>1. /\ parent[d] \in Attached /\ d \in subdirs[parent[d]]
      /\ parent[d] \in Dirs /\ d \in Dirs
  BY AttachedParent, ShapeFacts DEF IInv
<1>2. /\ sub \in [Dirs -> SUBSET Dirs] /\ \A x \in Dirs : sub[x] \subseteq subdirs[x]
      /\ subdirs' = sub /\ heap' = Kept(sub, pinned)
  BY DEF IInv, TypeOK, Free
<1>3. Others \in SUBSET heap /\ current \in Others
  BY ShapeFacts
<1>4. Root \in Others
  <2>1. path[Root] = <<>> /\ path[d] # <<>> /\ path[d] \in Seq(Names)
    <3>1. PICK x \in Attached, n \in Names : path[d] = Append(path[x], n)
      BY AttachedPath DEF IInv
    <3>2. path[x] \in Seq(Names) /\ path[d] \in Seq(Names)
      BY ShapeFacts
    <3>3. path[d] # <<>>
      BY <3>1, <3>2
    <3> QED
      BY <3>2, <3>3 DEF IInv, HeapShape
  <2>2. Len(path[d]) \in Nat \ {0} /\ Len(path[Root]) = 0
    BY <2>1
  <2>3. ~IsPrefix(path[d], path[Root])
    BY <2>2 DEF IsPrefix
  <2> QED
    BY <2>3, ShapeFacts
<1>5. ASSUME NEW x \in Others, x # Root
      PROVE  parent[x] \in Others /\ x \in sub[parent[x]]
  <2>1. /\ x \in Attached /\ parent[x] \in Attached /\ x \in subdirs[parent[x]]
        /\ parent[x] \in heap /\ parent[x] \in Dirs
    BY <1>5, AttachedParent, ShapeFacts DEF IInv
  <2>2. PICK n \in Names : path[x] = Append(path[parent[x]], n)
    BY <2>1 DEF IInv, HeapShape
  <2>3. ~IsPrefix(path[d], path[parent[x]])
    BY <1>1, <2>1, <2>2, PrefixAppend, ShapeFacts
  <2>4. x # d
    BY <1>1, PrefixSelf, ShapeFacts
  <2> QED
    BY <1>1, <2>1, <2>3, <2>4 DEF IInv, TypeOK
<1> HIDE DEF sub
<1>6. Others \subseteq heap'
  <2>1. \A y \in Others : y \in pinned \/ \E x \in Others : y \in sub[x] \/ parent[x] = y
    BY <1>5
  <2> QED
    BY <1>2, <1>3, <2>1 DEF Kept
<1>7. Others \subseteq Attached'
  <2>1. heap' \subseteq heap
    BY <1>2, KeptInHeap
  <2> QED
    BY <1>1, <1>2, <1>4, <1>6, <2>1, UnlinkKeepsOthers DEF sub
<1>8. ASSUME NEW x \in Others, NEW y \in sub[x]
      PROVE  y \in Others
  <2>1. x \in Attached /\ x \in heap /\ x \in Dirs /\ y \in subdirs[x] /\ y \in Attached
    BY <1>2, ShapeFacts
  <2>2. parent[y] = x /\ \E n \in Names : path[y] = Append(path[x], n)
    BY <2>1 DEF IInv, HeapShape
  <2>3. PICK n \in Names : path[y] = Append(path[x], n)
    BY <2>2
  <2>4. y # d
    BY <1>1, <2>1, <2>2 DEF sub, IInv, TypeOK
  <2>5. path[y] # path[d]
    BY <2>1, <2>4, UniqueFromShape DEF IInv, PathsAreUnique
  <2>6. SUFFICES ASSUME IsPrefix(path[d], path[y]) PROVE FALSE
    BY <2>1
  <2>7. /\ path[d] \in Seq(Names) /\ path[x] \in Seq(Names) /\ path[y] \in Seq(Names)
        /\ Len(path[y]) = Len(path[x]) + 1
    BY <1>1, <2>1, <2>3, ShapeFacts
  <2>8. CASE Len(path[d]) <= Len(path[x])
    <3>1. \A i \in 1 .. Len(path[d]) : path[d][i] = path[x][i]
      BY <2>3, <2>6, <2>7, <2>8 DEF IsPrefix
    <3>2. IsPrefix(path[d], path[x])
      BY <2>7, <2>8, <3>1 DEF IsPrefix
    <3> QED
      BY <3>2
  <2>9. CASE Len(path[d]) = Len(path[y])
    BY <2>5, <2>6, <2>7, <2>9 DEF IsPrefix
  <2> QED
    BY <2>6, <2>7, <2>8, <2>9 DEF IsPrefix
<1> HIDE DEF Others
<1>9. Attached' \subseteq Others
  BY <1>2, <1>4, <1>6, <1>8, ReachLeast DEF Attached
<1> QED
  BY <1>6, <1>7, <1>9 DEF Others

LEMMA RemoveTreeStep ==
  ASSUME IInv, NEW d \in Attached, ~Refused(d), NEW pinned, {Root, current} \subseteq pinned,
         subdirs' = [subdirs EXCEPT ![parent[d]] = @ \ {d}],
         Free(Kept(subdirs', pinned), contents), UNCHANGED current
  PROVE  NS!Next
<1>1. /\ d # Root /\ ~IsPrefix(path[d], path[current])
      /\ path[d] \in Seq(Names)
  BY ShapeFacts, PrefixOccurs DEF Refused
<1> DEFINE Others == {x \in Attached : ~IsPrefix(path[d], path[x])}
<1>2. Attached' = Others /\ Attached' \subseteq heap'
  BY <1>1, UnlinkExactly
<1>3. /\ \A x \in Others : path'[x] = path[x] /\ contents'[x] = contents[x]
      /\ current \in Others
  BY <1>1, <1>2, ShapeFacts DEF Free
<1>4. path[d] # <<>>
  <2>1. PICK x \in Attached, n \in Names : path[d] = Append(path[x], n)
    BY <1>1, AttachedPath DEF IInv
  <2>2. path[x] \in Seq(Names)
    BY ShapeFacts
  <2> QED
    BY <2>1, <2>2
<1>5. PICK p \in {path[x] : x \in Attached} : p = path[d]
  BY <1>1
<1>6. NS!RemoveTree(p)
  <2>1. {path'[x] : x \in Attached'} = {q \in {path[x] : x \in Attached} : ~IsPrefix(p, q)}
    BY <1>2, <1>3, <1>5
  <2>2. path'[current'] = path[current]
    BY <1>3
  <2>3. UNION {{<<path'[x], o>> : o \in contents'[x]} : x \in Attached'}
          = {e \in UNION {{<<path[x], o>> : o \in contents[x]} : x \in Attached} :
               ~IsPrefix(p, e[1])}
    BY <1>2, <1>3, <1>5
  <2>4. \A q, r : NS!IsPrefix(q, r) <=> IsPrefix(q, r)
    BY DEF NS!IsPrefix, IsPrefix
  <2> HIDE DEF Others
  <2> QED
    BY <1>1, <1>4, <1>5, <2>1, <2>2, <2>3, <2>4 DEF NS!RemoveTree
<1> QED
  BY <1>6, NameSpaceStep

LEMMA ClearAllStep ==
  ASSUME IInv, NEW pinned, Root \in pinned, subdirs' = Emptied(subdirs),
         Free(Kept(Emptied(subdirs), pinned), Emptied(contents)), current' = Root
  PROVE  NS!Next
<1>1. /\ subdirs' = Emptied(subdirs) /\ current' = Root
      /\ Free(Kept(Emptied(subdirs), pinned), Emptied(contents))
  OBVIOUS
<1>2. Root \in Attached /\ Root \in Dirs /\ Root \in heap
  BY ShapeFacts DEF IInv, TypeOK
<1>3. Root \in Kept(Emptied(subdirs), pinned)
  BY <1>2, KeptPinned
<1>4. Root \in heap' /\ path'[Root] = <<>> /\ contents'[Root] = {} /\ subdirs'[Root] = {}
  BY <1>1, <1>2, <1>3 DEF Free, Emptied, IInv, HeapShape
<1>5. Attached' = {Root}
  <2>1. Attached' \subseteq {Root}
    <3>1. {Root} \in SUBSET heap' /\ \A x \in {Root} : subdirs'[x] \subseteq {Root}
      BY <1>4
    <3> DEFINE S == {Root}
    <3>2. S \in SUBSET heap' /\ Root \in S /\ \A x \in S : subdirs'[x] \subseteq S
      BY <3>1
    <3> HIDE DEF S
    <3>3. Attached' \subseteq S
      BY <3>2, ReachLeast DEF Attached
    <3> QED
      BY <3>3 DEF S
  <2>2. Root \in Attached'
    BY <1>4, ReachRoot DEF Attached
  <2> QED
    BY <2>1, <2>2
<1>6. NS!Clear
  BY <1>1, <1>4, <1>5 DEF NS!Clear
<1> QED
  BY <1>6 DEF NS!Next
-----------------------------------------------------------------------------
LEMMA InitImplements == Init => NS!Init
<1> SUFFICES ASSUME Init PROVE NS!Init
  OBVIOUS
<1>1. Root \in Attached /\ Attached \subseteq {Root} /\ Root \in Dirs
  BY ReachRoot, StorageAssumption DEF Init, Attached, Reachable
<1> QED
  BY <1>1 DEF Init, NS!Init

LEMMA NextImplements == IInv /\ [Next]_vars => [NS!Next]_(NS!vars)
<1> SUFFICES ASSUME IInv, [Next]_vars PROVE [NS!Next]_(NS!vars)
  OBVIOUS
<1>1. /\ current \in Attached /\ Root \in Attached
      /\ ~IsIdle => call.cursor \in Attached
      /\ current # Root => parent[current] \in Attached
  BY ShapeFacts, AttachedParent DEF IInv, CurrentAttached
<1>2. CASE Request \/ UNCHANGED vars
  BY <1>2, StutterStep DEF Request, Reject, Call, vars, tree
<1>3. CASE Step
  <2>1. CASE StepCreate
    <3> DEFINE c == call.cursor
               n == Head(call.rest)
    <3>1. c \in Attached /\ n \in Names /\ UNCHANGED <<contents, current>>
      BY <1>1, <2>1 DEF StepCreate, Walking
    <3>2. PICK d \in Dirs \ heap :
            /\ heap' = heap \cup {d} /\ path' = [path EXCEPT ![d] = Append(path[c], n)]
            /\ subdirs' = [subdirs EXCEPT ![c] = @ \cup {d}]
      BY <2>1 DEF StepCreate
    <3> HIDE DEF c, n
    <3> QED
      BY <3>1, <3>2, MakeStep
  <2>2. CASE StepDot \/ StepUp \/ StepDown \/ StepNotFound
    BY <2>2, StutterStep DEF StepDot, StepUp, StepDown, StepNotFound
  <2> QED
    BY <1>3, <2>1, <2>2 DEF Step
<1>4. CASE End
  <2>1. CASE EndMkdir \/ EndFind \/ EndAddMkdir
    BY <2>1, StutterStep DEF EndMkdir, EndFind, EndAddMkdir
  <2>2. CASE EndCd
    BY <1>1, <2>2, GoStep DEF EndCd, Arrived, IsIdle
  <2>3. CASE EndAdd \/ EndRemove
    <3>1. /\ call.cursor \in Attached /\ call.obj \in Objects \cup {NoObject}
          /\ UNCHANGED <<tree, current>>
      BY <1>1, <2>3 DEF EndAdd, EndRemove, Arrived, IsIdle, IInv, TypeOK, CallOK, Calls
    <3> DEFINE d == call.cursor
               o == call.obj
    <3>2. AddTo(d, o) \/ RemoveFrom(d, o)
      BY <2>3 DEF EndAdd, EndRemove
    <3> HIDE DEF d, o
    <3> QED
      BY <3>1, <3>2, PutTakeStep DEF d, o
  <2>4. CASE EndRmdir
    <3>1. CASE Refused(call.cursor)
      BY <2>4, <3>1, StutterStep DEF EndRmdir
    <3>2. CASE ~Refused(call.cursor)
      <4> DEFINE d == call.cursor
      <4>1. /\ d \in Attached /\ ~Refused(d) /\ UNCHANGED current
            /\ subdirs' = [subdirs EXCEPT ![parent[d]] = @ \ {d}]
            /\ Free(Kept(subdirs', {Root, current}), contents)
        BY <1>1, <2>4, <3>2 DEF EndRmdir, Arrived, IsIdle, Unlink
      <4> HIDE DEF d
      <4> QED
        BY <4>1, RemoveTreeStep
    <3> QED
      BY <3>1, <3>2
  <2> QED
    BY <1>4, <2>1, <2>2, <2>3, <2>4 DEF End
<1>5. CASE Direct
  <2>1. CASE CdRoot
    BY <1>1, <2>1, GoStep DEF CdRoot
  <2>2. CASE GoUp
    BY <1>1, <2>2, GoStep, StutterStep DEF GoUp, tree
  <2>3. CASE Clear
    BY <2>3, ClearAllStep DEF Clear, ClearTree
  <2>4. ASSUME NEW o \in Objects \cup {NoObject}, AddHere(o) \/ RemoveHere(o)
        PROVE  [NS!Next]_(NS!vars)
    BY <1>1, <2>4, PutTakeStep DEF AddHere, RemoveHere
  <2> QED
    BY <1>5, <2>1, <2>2, <2>3, <2>4 DEF Direct
<1> QED
  BY <1>2, <1>3, <1>4, <1>5 DEF Next

\* Storage keeps the promise of the name space: mkdir() makes one directory at
\* a time, rmdir() takes a directory with all that is below it and never the
\* current one, objects stay where they were put, and nothing else changes.
THEOREM Refinement == Spec => ImplementsNamespace
<1>1. Init => NS!Init
  BY InitImplements
<1>2. IInv /\ [Next]_vars => [NS!Next]_(NS!vars)
  BY NextImplements
<1> QED
  BY <1>1, <1>2, Invariance, PTL DEF Spec, ImplementsNamespace, NS!Spec
-----------------------------------------------------------------------------
(***************************************************************************)
(* Iterations.  The directories an iteration has yet to visit are those    *)
(* that its calls have copied and not descended to, or will copy, and what *)
(* is below them.  The invariant says that they were not visited before,   *)
(* and that an object that stays is called, or in a copy, or still ahead.  *)
(***************************************************************************)

IsAhead(frs, sub, S) ==
  /\ \A i \in DOMAIN frs :
       /\ frs[i].left \subseteq S
       /\ frs[i].subs = NotTaken => sub[frs[i].dir] \subseteq S
  /\ \A x \in S : sub[x] \subseteq S

Ahead(frs, sub) == {d \in Dirs : \A S \in SUBSET Dirs : IsAhead(frs, sub, S) => d \in S}

Frames == [dir : Dirs, objs : SUBSET Objects, subs : SUBSET (Dirs \union {NoDir}),
           left : SUBSET Dirs]

PhaseOK ==
  /\ mode \in {"paths", "before", "on", "stopped", "complete"}
  /\ mode # "paths" => IsIdle
  /\ mode = "on" <=> frames # <<>>
  /\ calling \in BOOLEAN /\ (calling => mode = "on")
  /\ mode \in {"paths", "before"} => visited = <<>> /\ stayed = {}
  /\ frames \in Seq(Frames) /\ visited \in Seq(Dirs \X Objects)

FramesOK ==
  \A i \in DOMAIN frames :
    /\ frames[i].dir \in heap
    /\ frames[i].subs = NotTaken => i = Len(frames) /\ frames[i].left = {}
    /\ frames[i].subs # NotTaken =>
         /\ frames[i].objs = {} /\ frames[i].left \subseteq frames[i].subs
         /\ \A e \in frames[i].subs : e \in heap /\ parent[e] = frames[i].dir
    /\ \A j \in DOMAIN frames : frames[i].dir = frames[j].dir => i = j

VisitedDirs == {visited[k][1] : k \in DOMAIN visited}

OnceOK ==
  /\ \A d \in Ahead(frames, subdirs) :
       /\ d \notin VisitedDirs
       /\ \A i \in DOMAIN frames : d # frames[i].dir
  /\ IsInjective(visited) /\ Range(visited) \subseteq placed
  /\ \A i \in DOMAIN frames : \A o \in frames[i].objs :
       <<frames[i].dir, o>> \in placed \ Range(visited)
  /\ \A d \in Ahead(frames, subdirs) : \A o \in contents[d] : <<d, o>> \in placed

MissesNothing ==
  \A d \in Dirs, o \in Objects : <<d, o>> \in stayed =>
    /\ d \in Attached /\ o \in contents[d]
    /\ mode \in {"on", "complete"} =>
         \/ <<d, o>> \in Range(visited)
         \/ \E i \in DOMAIN frames : d = frames[i].dir /\ o \in frames[i].objs
         \/ d \in Ahead(frames, subdirs)

IterationInv ==
  /\ IInv /\ PhaseOK /\ FramesOK /\ OnceOK /\ MissesNothing
  /\ stayed \subseteq Dirs \X Objects

LEMMA AheadLeast ==
  ASSUME NEW frs, NEW sub, NEW S \in SUBSET Dirs, IsAhead(frs, sub, S)
  PROVE  Ahead(frs, sub) \subseteq S
BY DEF Ahead

LEMMA AheadIsAhead ==
  ASSUME NEW frs \in Seq(Frames), NEW sub \in [Dirs -> SUBSET Dirs]
  PROVE  IsAhead(frs, sub, Ahead(frs, sub)) /\ Ahead(frs, sub) \in SUBSET Dirs
<1>1. ASSUME NEW i \in DOMAIN frs
      PROVE  frs[i].left \subseteq Dirs /\ frs[i].dir \in Dirs
  <2>1. frs[i] \in Frames
    OBVIOUS
  <2> QED
    BY <2>1 DEF Frames
<1> QED
  BY <1>1 DEF Ahead, IsAhead

\* What a use of the storage by the function does: new are the directories made.
Moved(new) ==
  /\ new \subseteq Dirs \ heap /\ new \intersect VisitedDirs = {}
  /\ Held \intersect heap \subseteq heap'
  /\ \A x \in heap \intersect heap' : parent'[x] = parent[x]
  /\ \A x \in Dirs : subdirs'[x] \subseteq subdirs[x] \union new
  /\ \A x \in new : subdirs'[x] = {} /\ contents'[x] = {}
  /\ \A x \in Dirs, o \in Objects :
       o \in contents'[x] => o \in contents[x] \/ x \in Attached'

Used == IInv' /\ IsIdle' /\ [NS!Next]_(NS!vars) /\ \E new : Moved(new)

LEMMA MakeDirectoryUse ==
  ASSUME IInv, IsIdle, PhaseOK, NEW d \in Attached, NEW n \in Names, MakeDirectory(d, n)
  PROVE  Used
<1>1. PICK e \in Fresh :
        /\ heap'    = heap \cup {e}
        /\ parent'  = [parent EXCEPT ![e] = d]
        /\ path'    = [path EXCEPT ![e] = Append(path[d], n)]
        /\ subdirs' = [subdirs EXCEPT ![d] = @ \cup {e}]
  BY DEF MakeDirectory
<1>2. Child(d, n) = {} /\ UNCHANGED <<contents, current, call>>
  BY DEF MakeDirectory, MustCreate
<1>3. e \in Dirs \ heap /\ e \notin VisitedDirs
  BY DEF Fresh, VisitedDirs, Range
<1>4. CallOK' /\ IsIdle'
  BY <1>2 DEF IInv, TypeOK, CallOK, IsIdle
<1>5. IInv'
  BY <1>1, <1>2, <1>3, <1>4, NewDirectoryStep
<1>6. NS!Next
  BY <1>1, <1>2, <1>3, MakeStep
<1>7. d \in heap /\ subdirs[e] = {} /\ contents[e] = {} /\ d # e
  BY <1>3 DEF IInv, HeapShape, ContentsShape, Attached, Reachable
<1>8. Moved({e})
  <2>1. \A x \in heap \intersect heap' : parent'[x] = parent[x]
    BY <1>1, <1>3 DEF IInv, TypeOK
  <2>2. \A x \in Dirs : subdirs'[x] \subseteq subdirs[x] \union {e}
    BY <1>1, <1>3 DEF IInv, TypeOK
  <2>3. subdirs'[e] = {} /\ contents'[e] = {}
    BY <1>1, <1>2, <1>3, <1>7 DEF IInv, TypeOK
  <2> QED
    BY <1>1, <1>2, <1>3, <2>1, <2>2, <2>3 DEF Moved
<1> QED
  BY <1>4, <1>5, <1>6, <1>8 DEF Used

LEMMA ObjectUse ==
  ASSUME IInv, IsIdle, NEW d \in Attached, NEW o \in Objects,
         AddObject(d, o) \/ RemoveObject(d, o)
  PROVE  Used
<1>1. /\ UNCHANGED <<tree, current>>
      /\ AddTo(d, o) \/ RemoveFrom(d, o)
      /\ \E s \in Statuses : Return(s)
  BY DEF AddObject, RemoveObject, AddTo, RemoveFrom, Statuses
<1>2. d \in Dirs /\ d \in heap /\ current \in Attached /\ Attached' = Attached
  BY <1>1, ShapeFacts DEF tree, Attached, Reachable
<1>3. ContentsShape'
  BY <1>1, <1>2 DEF AddTo, RemoveFrom, tree, IInv, ContentsShape
<1>4. IInv' /\ IsIdle'
  BY <1>1, <1>2, <1>3, ReturnStep DEF Return, Idle, IsIdle
<1>5. [NS!Next]_(NS!vars)
  BY <1>1, PutTakeStep
<1>6. Moved({})
  <2>1. \A x \in Dirs, p \in Objects : p \in contents'[x] => p \in contents[x] \/ x = d
    BY <1>1 DEF AddTo, RemoveFrom, IInv, ContentsShape
  <2> QED
    BY <1>1, <1>2, <2>1 DEF Moved, tree
<1> QED
  BY <1>4, <1>5, <1>6 DEF Used

LEMMA RemoveDirectoryUse ==
  ASSUME IInv, IsIdle, NEW d \in Attached, RemoveDirectory(d)
  PROVE  Used
<1>1. /\ ~Refused(d) /\ {Root, current} \subseteq Held /\ UNCHANGED <<current, call>>
      /\ subdirs' = [subdirs EXCEPT ![parent[d]] = @ \ {d}]
      /\ Free(Kept(subdirs', Held), contents)
  BY DEF RemoveDirectory, Held
<1>2. CallOK' /\ IsIdle'
  BY <1>1 DEF IInv, TypeOK, CallOK, IsIdle
<1>3. /\ IInv' /\ heap' = Kept(subdirs', Held) /\ heap' \subseteq heap
      /\ \A x \in heap' : parent'[x] = parent[x]
  BY <1>1, <1>2, UnlinkStep
<1>4. NS!Next
  BY <1>1, RemoveTreeStep
<1>5. Moved({})
  <2>1. Held \intersect heap \subseteq heap'
    BY <1>3, KeptPinned
  <2>2. \A x \in Dirs : subdirs'[x] \subseteq subdirs[x] /\ contents'[x] \subseteq contents[x]
    BY <1>1 DEF IInv, TypeOK, Free
  <2> QED
    BY <1>3, <2>1, <2>2 DEF Moved
<1> QED
  BY <1>2, <1>3, <1>4, <1>5 DEF Used

LEMMA ClearAllUse ==
  ASSUME IInv, IsIdle, ClearAll
  PROVE  Used
<1>1. /\ Root \in Held /\ current' = Root /\ UNCHANGED call
      /\ subdirs' = Emptied(subdirs)
      /\ Free(Kept(Emptied(subdirs), Held), Emptied(contents))
  BY DEF ClearAll, Held
<1>2. IsIdle'
  BY <1>1 DEF IsIdle
<1>3. /\ IInv' /\ heap' = Kept(Emptied(subdirs), Held) /\ heap' \subseteq heap
      /\ \A x \in heap' : parent'[x] = parent[x]
  BY <1>1, EmptyStep
<1>4. NS!Next
  BY <1>1, ClearAllStep
<1>5. Moved({})
  <2>1. Held \intersect heap \subseteq heap'
    BY <1>3, KeptPinned
  <2>2. \A x \in Dirs : subdirs'[x] \subseteq subdirs[x] /\ contents'[x] \subseteq contents[x]
    BY <1>1 DEF IInv, TypeOK, Free, Emptied
  <2> QED
    BY <1>3, <2>1, <2>2 DEF Moved
<1> QED
  BY <1>2, <1>3, <1>4, <1>5 DEF Used

\* A call of iterate() that returns frees what only it held: nothing attached.
LEMMA DropFacts ==
  ASSUME IInv, IsIdle, DropCopies
  PROVE  /\ IInv' /\ IsIdle' /\ UNCHANGED NS!vars
         /\ heap' = Kept(subdirs, Held') /\ Attached' = Attached
         /\ \A x \in heap' : parent'[x] = parent[x]
         /\ \A x \in Attached : contents'[x] = contents[x]
         /\ \A x \in Dirs : contents'[x] \subseteq contents[x] /\ subdirs'[x] = subdirs[x]
<1>1. /\ UNCHANGED <<subdirs, current, call>> /\ Root \in Held'
      /\ Free(Kept(subdirs, Held'), contents)
  BY DEF DropCopies, Held
<1>2. CallOK' /\ IsIdle' /\ current' \in Dirs
  BY <1>1 DEF IInv, TypeOK, CallOK, IsIdle
<1>3. /\ heap' = Kept(subdirs, Held') /\ heap' \subseteq heap /\ Root \in heap'
      /\ \A x \in heap' : path'[x] = path[x] /\ parent'[x] = parent[x]
      /\ HeapShape' /\ SiblingsDiffer' /\ ContentsShape' /\ TypeOK'
  <2>1. /\ subdirs \in [Dirs -> SUBSET Dirs] /\ contents \in [Dirs -> SUBSET Objects]
        /\ \A x \in Dirs : subdirs[x] \subseteq subdirs[x] /\ subdirs' = subdirs
    BY <1>1 DEF IInv, TypeOK
  <2> QED
    BY <1>1, <1>2, <2>1, FreeStep
<1>4. Attached \subseteq heap'
  <2>1. Attached \in SUBSET heap
    BY ShapeFacts
  <2>2. \A y \in Attached : y \in Held' \/ \E x \in Attached : y \in subdirs[x] \/ parent[x] = y
    BY <1>1, AttachedParent DEF IInv
  <2> QED
    BY <1>3, <2>1, <2>2 DEF Kept
<1>5. Attached' = Attached
  <2>1. Attached' \subseteq Attached
    <3>1. Attached \in SUBSET heap' /\ Root \in Attached
      BY <1>4, ShapeFacts
    <3>2. \A x \in Attached : subdirs'[x] \subseteq Attached
      BY <1>1, ShapeFacts
    <3> QED
      BY <3>1, <3>2, ReachLeast DEF Attached
  <2>2. Attached \subseteq Attached'
    <3>1. \A S \in SUBSET heap' : S \in SUBSET heap
      BY <1>3
    <3>2. Attached \subseteq Reachable(heap', subdirs)
      BY <1>4, <3>1 DEF Attached, Reachable
    <3> QED
      BY <1>1, <3>2 DEF Attached
  <2> QED
    BY <2>1, <2>2
<1>6. current \in Attached /\ Attached \subseteq Dirs
  BY ShapeFacts
<1>7. CurrentAttached'
  BY <1>1, <1>2, <1>5, <1>6 DEF CurrentAttached
<1>8. IInv'
  BY <1>3, <1>7 DEF IInv
<1>9. \A x \in Attached : contents'[x] = contents[x] /\ path'[x] = path[x]
  BY <1>1, <1>3, <1>4, <1>6 DEF Free
<1>10. UNCHANGED NS!vars
  BY <1>1, <1>5, <1>6, <1>9 DEF NS!vars
<1>11. \A x \in Dirs : contents'[x] \subseteq contents[x] /\ subdirs'[x] = subdirs[x]
  BY <1>1 DEF Free
<1> QED
  BY <1>2, <1>3, <1>5, <1>8, <1>9, <1>10, <1>11

\* AttachedParent, of the state after a step.
LEMMA AttachedParentNext ==
  ASSUME TypeOK', HeapShape', NEW d \in Attached', d # Root
  PROVE  parent'[d] \in Attached' /\ d \in subdirs'[parent'[d]] /\ d \in heap'
<1>1. \A x \in heap' : subdirs'[x] \subseteq heap'
  BY DEF HeapShape
<1>2. PICK x \in Attached' : d \in subdirs'[x]
  BY <1>1, ReachListed DEF Attached, TypeOK
<1>3. x \in heap'
  BY DEF Attached, Reachable
<1> QED
  BY <1>2, <1>3 DEF HeapShape, Attached, Reachable

\* The function changes the storage: what was ahead and is still attached stays
\* ahead, and only new directories come to it.
LEMMA ChangeKeepsInv ==
  ASSUME IterationInv, Change
  PROVE  IterationInv' /\ [NS!Next]_(NS!vars)
<1>1. /\ calling /\ mode = "on" /\ IsIdle /\ IInv /\ PhaseOK /\ FramesOK
      /\ UNCHANGED <<mode, frames, calling, visited>>
      /\ placed' = placed \union Placed' /\ stayed' = stayed \intersect Placed'
  BY DEF Change, IterationInv, PhaseOK
<1>2. Used
  BY <1>1, MakeDirectoryUse, ObjectUse, RemoveDirectoryUse, ClearAllUse DEF Change
<1>3. IInv' /\ IsIdle' /\ [NS!Next]_(NS!vars)
  BY <1>2 DEF Used
<1>4. PICK new : Moved(new)
  BY <1>2 DEF Used
<1> DEFINE W == Ahead(frames, subdirs)
           V == Ahead(frames, subdirs')
<1>5. /\ frames \in Seq(Frames) /\ subdirs \in [Dirs -> SUBSET Dirs]
      /\ subdirs' \in [Dirs -> SUBSET Dirs] /\ heap \subseteq Dirs /\ new \subseteq Dirs \ heap
  BY <1>1, <1>3, <1>4 DEF PhaseOK, IInv, TypeOK, Moved
<1>6. /\ IsAhead(frames, subdirs, W) /\ W \subseteq Dirs
      /\ IsAhead(frames, subdirs', V) /\ V \subseteq Dirs
  BY <1>5, AheadIsAhead
<1>7. \A i \in DOMAIN frames : frames[i].dir \in heap /\ frames[i].dir \in heap' /\ frames[i].dir \in Held
  BY <1>1, <1>4 DEF FramesOK, Moved, Held, Range
<1>8. V \subseteq W \union new
  <2> DEFINE S == W \union new
  <2>1. S \in SUBSET Dirs
    BY <1>5, <1>6
  <2>2. \A x \in Dirs : subdirs'[x] \subseteq subdirs[x] \union new
    BY <1>4 DEF Moved
  <2>3. \A x \in S : subdirs'[x] \subseteq S
    BY <1>4, <1>6, <2>2 DEF IsAhead, Moved
  <2>4. ASSUME NEW i \in DOMAIN frames, frames[i].subs = NotTaken
        PROVE  subdirs'[frames[i].dir] \subseteq S
    <3>1. subdirs[frames[i].dir] \subseteq W /\ frames[i].dir \in Dirs
      BY <1>5, <1>6, <1>7, <2>4 DEF IsAhead
    <3> HIDE DEF W
    <3> QED
      BY <2>2, <3>1
  <2>5. \A i \in DOMAIN frames : frames[i].left \subseteq S
    <3>1. \A i \in DOMAIN frames : frames[i].left \subseteq W
      BY <1>6 DEF IsAhead
    <3> HIDE DEF W
    <3> QED
      BY <3>1
  <2> HIDE DEF S
  <2>6. IsAhead(frames, subdirs', S)
    BY <2>3, <2>4, <2>5 DEF IsAhead
  <2>7. V \subseteq S
    BY <2>1, <2>6, AheadLeast
  <2> QED
    BY <2>7 DEF S
<1>9. \A d \in W : d \in Attached' => d \in V
  <2> DEFINE S == V \union (Dirs \ Attached')
  <2>1. S \in SUBSET Dirs
    BY <1>6
  <2>2. ASSUME NEW x \in heap, NEW y \in subdirs[x], y \in Attached'
        PROVE  x \in Attached' /\ y \in subdirs'[x]
    <3>1. y \in heap /\ y # Root /\ parent[y] = x
      BY <1>1 DEF IInv, HeapShape
    <3>2. parent'[y] \in Attached' /\ y \in subdirs'[parent'[y]] /\ y \in heap'
      BY <1>3, <2>2, <3>1, AttachedParentNext DEF IInv
    <3>3. parent'[y] = parent[y]
      BY <1>4, <3>1, <3>2 DEF Moved
    <3> QED
      BY <3>1, <3>2, <3>3
  <2>3. ASSUME NEW x \in S
        PROVE  subdirs[x] \subseteq S
    <3> SUFFICES ASSUME NEW y \in subdirs[x], y \in Attached' PROVE y \in V
      BY <1>5, <2>1
    <3>1. x \in heap
      BY <1>1, <2>1 DEF IInv, HeapShape
    <3>2. x \in Attached' /\ y \in subdirs'[x]
      BY <2>2, <3>1
    <3> QED
      BY <1>6, <3>2 DEF IsAhead
  <2>4. ASSUME NEW i \in DOMAIN frames, frames[i].subs = NotTaken
        PROVE  subdirs[frames[i].dir] \subseteq S
    <3> SUFFICES ASSUME NEW y \in subdirs[frames[i].dir], y \in Attached' PROVE y \in V
      BY <1>5, <1>7
    <3>1. y \in subdirs'[frames[i].dir]
      BY <1>7, <2>2
    <3>2. subdirs'[frames[i].dir] \subseteq V
      BY <1>6, <2>4 DEF IsAhead
    <3> HIDE DEF V
    <3> QED
      BY <3>1, <3>2
  <2>5. \A i \in DOMAIN frames : frames[i].left \subseteq S
    <3>1. \A i \in DOMAIN frames : frames[i].left \subseteq V
      BY <1>6 DEF IsAhead
    <3> HIDE DEF V
    <3> QED
      BY <3>1
  <2> HIDE DEF S
  <2>6. IsAhead(frames, subdirs, S)
    BY <2>3, <2>4, <2>5 DEF IsAhead
  <2>7. W \subseteq S
    BY <2>1, <2>6, AheadLeast
  <2> QED
    BY <2>7 DEF S
<1>10. Ahead(frames, subdirs)' = V
  BY <1>1 DEF Ahead, IsAhead
<1> HIDE DEF W, V
<1>11. PhaseOK'
  BY <1>1, <1>3 DEF PhaseOK
<1>12. FramesOK'
  <2>1. \A i \in DOMAIN frames : frames[i].subs # NotTaken =>
          \A e \in frames[i].subs : e \in Held /\ e \in heap
    BY <1>1, <1>5, StorageAssumption DEF FramesOK, Held, Range
  <2>2. \A i \in DOMAIN frames : frames[i].subs # NotTaken =>
          \A e \in frames[i].subs : e \in heap' /\ parent'[e] = frames[i].dir
    BY <1>1, <1>4, <2>1 DEF FramesOK, Moved
  <2> QED
    BY <1>1, <1>7, <2>2 DEF FramesOK
<1>13. OnceOK'
  <2>1. OnceOK /\ VisitedDirs' = VisitedDirs
    BY <1>1 DEF IterationInv, VisitedDirs
  <2>2. ASSUME NEW d \in V
        PROVE  /\ d \notin VisitedDirs
               /\ \A i \in DOMAIN frames : d # frames[i].dir
    BY <1>4, <1>5, <1>7, <1>8, <2>1 DEF OnceOK, Moved, W
  <2>3. ASSUME NEW d \in V, NEW o \in contents'[d]
        PROVE  <<d, o>> \in placed'
    <3>1. d \in Dirs /\ o \in Objects
      BY <1>3, <1>6 DEF IInv, TypeOK, V
    <3>2. d \notin new
      BY <1>4 DEF Moved
    <3>3. CASE o \in contents[d]
      BY <1>1, <1>8, <2>1, <3>2, <3>3 DEF OnceOK, W
    <3>4. CASE d \in Attached'
      BY <1>1, <3>4 DEF Placed
    <3> QED
      BY <1>4, <3>1, <3>3, <3>4 DEF Moved
  <2>4. IsInjective(visited') /\ Range(visited') \subseteq placed'
    BY <1>1, <2>1 DEF OnceOK
  <2>5. \A i \in DOMAIN frames' : \A o \in frames'[i].objs :
          <<frames'[i].dir, o>> \in placed' \ Range(visited')
    BY <1>1, <2>1 DEF OnceOK
  <2> QED
    BY <1>1, <1>10, <2>1, <2>2, <2>3, <2>4, <2>5 DEF OnceOK
<1>14. MissesNothing'
  <2> SUFFICES ASSUME NEW d \in Dirs, NEW o \in Objects, <<d, o>> \in stayed'
               PROVE  /\ d \in Attached' /\ o \in contents'[d]
                      /\ \/ <<d, o>> \in Range(visited)
                         \/ \E i \in DOMAIN frames : d = frames[i].dir /\ o \in frames[i].objs
                         \/ d \in V
    BY <1>1, <1>10 DEF MissesNothing
  <2>1. d \in Attached' /\ o \in contents'[d]
    BY <1>1 DEF Placed
  <2>2. \/ <<d, o>> \in Range(visited)
        \/ \E i \in DOMAIN frames : d = frames[i].dir /\ o \in frames[i].objs
        \/ d \in W
    BY <1>1 DEF IterationInv, MissesNothing, W
  <2> QED
    BY <1>9, <2>1, <2>2
<1> QED
  BY <1>1, <1>3, <1>11, <1>12, <1>13, <1>14 DEF IterationInv

-----------------------------------------------------------------------------
(* The steps of iterate() itself.                                          *)

LEMMA TopFacts ==
  ASSUME NEW T, NEW s \in Seq(T), s # <<>>
  PROVE  /\ Len(s) \in Nat \ {0} /\ DOMAIN s = 1 .. Len(s)
         /\ Last(s) = s[Len(s)] /\ Last(s) \in T
         /\ Front(s) \in Seq(T) /\ Len(Front(s)) = Len(s) - 1
         /\ DOMAIN Front(s) = 1 .. Len(s) - 1
         /\ \A i \in 1 .. Len(s) - 1 : Front(s)[i] = s[i]
<1>1. Len(s) \in Nat \ {0} /\ DOMAIN s = 1 .. Len(s)
  BY LenProperties, EmptySeq
<1>2. Last(s) = s[Len(s)] /\ Last(s) \in T
  BY <1>1, ElementOfSeq DEF Last
<1>3. 1 \in 1 .. Len(s) + 1 /\ Len(s) - 1 \in 1 - 1 .. Len(s)
  BY <1>1
<1>4. /\ Front(s) \in Seq(T) /\ Len(Front(s)) = Len(s) - 1
      /\ \A i \in 1 .. Len(s) - 1 : Front(s)[i] = s[i]
  BY <1>1, <1>3, SubSeqProperties, LenProperties DEF Front
<1>5. DOMAIN Front(s) = 1 .. Len(s) - 1
  BY <1>4, LenProperties
<1> QED
  BY <1>1, <1>2, <1>4, <1>5

\* Two sequences of one length that differ in the last place at most.
ReplacesLast(s, f, t) ==
  /\ t # <<>> /\ Len(t) = Len(s) /\ DOMAIN t = DOMAIN s
  /\ t[Len(s)] = f /\ \A i \in DOMAIN s : i # Len(s) => t[i] = s[i]

LEMMA LastReplaced ==
  ASSUME NEW T, NEW s \in Seq(T), NEW r \in Seq(T), NEW t \in Seq(T), NEW f,
         Len(s) \in Nat \ {0}, Len(r) = Len(s) - 1, Len(t) = Len(r) + 1, t[Len(r) + 1] = f,
         \A i \in 1 .. Len(s) - 1 : r[i] = s[i], \A i \in 1 .. Len(r) : t[i] = r[i]
  PROVE  ReplacesLast(s, f, t)
<1>1. Len(t) = Len(s) /\ t[Len(s)] = f
  OBVIOUS
<1>2. DOMAIN t = 1 .. Len(s) /\ DOMAIN s = 1 .. Len(s) /\ t # <<>>
  BY <1>1, LenProperties, EmptySeq
<1>3. ASSUME NEW i \in 1 .. Len(s), i # Len(s)
      PROVE  t[i] = s[i]
  <2>1. i \in 1 .. Len(s) - 1 /\ i \in 1 .. Len(r)
    BY <1>3
  <2> QED
    BY <2>1
<1> QED
  BY <1>1, <1>2, <1>3 DEF ReplacesLast

LEMMA SetTopFacts ==
  ASSUME NEW T, NEW s \in Seq(T), s # <<>>, NEW f \in T
  PROVE  \E t \in Seq(T) : t = Append(Front(s), f) /\ ReplacesLast(s, f, t)
<1>1. PICK r \in Seq(T) :
        /\ r = Front(s) /\ Len(r) = Len(s) - 1
        /\ \A i \in 1 .. Len(s) - 1 : r[i] = s[i]
  BY TopFacts, Zenon
<1>2. PICK t \in Seq(T) :
        /\ t = Append(r, f) /\ Len(t) = Len(r) + 1 /\ t[Len(r) + 1] = f
        /\ \A i \in 1 .. Len(r) : t[i] = r[i]
  <2>1. /\ Append(r, f) \in Seq(T) /\ Len(Append(r, f)) = Len(r) + 1
        /\ Append(r, f)[Len(r) + 1] = f
        /\ \A i \in 1 .. Len(r) : Append(r, f)[i] = r[i]
    BY AppendProperties
  <2> QED
    BY <2>1, Zenon
<1>3. Len(s) \in Nat \ {0}
  BY TopFacts
<1>4. ReplacesLast(s, f, t)
  BY <1>1, <1>2, <1>3, LastReplaced
<1> QED
  BY <1>1, <1>2, <1>4, Zenon

LEMMA SetTopNext ==
  ASSUME frames \in Seq(Frames), frames # <<>>, NEW f \in Frames, SetTop(f)
  PROVE  frames' \in Seq(Frames) /\ ReplacesLast(frames, f, frames')
<1>1. \E t \in Seq(Frames) : t = Append(Front(frames), f) /\ ReplacesLast(frames, f, t)
  BY SetTopFacts
<1>2. frames' = Append(Front(frames), f)
  BY Zenon DEF SetTop
<1> QED
  BY <1>1, <1>2, Zenon

\* What a step of an iteration has to keep when it leaves the storage alone.
LEMMA StorageRests ==
  ASSUME IInv, UNCHANGED storage
  PROVE  /\ IInv' /\ IsIdle' = IsIdle /\ UNCHANGED NS!vars
         /\ Attached' = Attached
<1>1. ContentsShape' /\ CallOK' /\ current' \in Attached /\ IsIdle' = IsIdle
      /\ (~IsIdle' => call.cursor' \in Attached)
  BY DEF storage, tree, IInv, TypeOK, ContentsShape, CurrentAttached, CallOK, IsIdle
<1>2. IInv'
  BY <1>1, QuietStep DEF storage
<1>3. Attached' = Attached /\ UNCHANGED NS!vars
  BY StutterStep DEF storage, tree, Attached, Reachable
<1> QED
  BY <1>1, <1>2, <1>3

\* While frames is empty nothing is ahead.
LEMMA NothingAhead == \A sub : Ahead(<<>>, sub) = {}
<1> SUFFICES ASSUME NEW sub PROVE Ahead(<<>>, sub) = {}
  OBVIOUS
<1>1. IsAhead(<<>>, sub, {})
  BY DEF IsAhead
<1> QED
  BY <1>1, AheadLeast

\* No iteration is in progress.
Resting ==
  /\ mode \in {"paths", "before"} /\ (mode # "paths" => IsIdle)
  /\ frames = <<>> /\ visited = <<>> /\ stayed = {} /\ calling = FALSE

LEMMA RestingInv == IInv /\ Resting => IterationInv
<1> SUFFICES ASSUME IInv, Resting PROVE IterationInv
  OBVIOUS
<1>1. frames \in Seq(Frames) /\ visited \in Seq(Dirs \X Objects) /\ DOMAIN frames = {}
      /\ DOMAIN visited = {}
  BY DEF Resting
<1>2. PhaseOK
  BY <1>1 DEF PhaseOK, Resting
<1>3. OnceOK
  <2>1. Range(visited) = {} /\ IsInjective(visited)
    BY <1>1 DEF Range, IsInjective
  <2>2. Ahead(frames, subdirs) = {}
    BY NothingAhead DEF Resting
  <2> QED
    BY <1>1, <2>1, <2>2 DEF OnceOK
<1>4. FramesOK /\ MissesNothing /\ stayed \subseteq Dirs \X Objects
  BY <1>1 DEF FramesOK, MissesNothing, Resting
<1> QED
  BY <1>2, <1>3, <1>4 DEF IterationInv

LEMMA RestingNext == IInv' /\ Resting' => IterationInv'
BY RestingInv, PTL

LEMMA IterateInitInv == IterateInit => IterationInv
BY InitIInv, RestingInv DEF IterateInit, Resting, Init, Idle, IsIdle

LEMMA PathsKeepInv ==
  ASSUME IterationInv, Paths
  PROVE  IterationInv' /\ [NS!Next]_(NS!vars)
<1>1. IInv /\ [Next]_vars /\ mode = "paths" /\ UNCHANGED iteration /\ PhaseOK
  BY DEF IterationInv, Paths
<1>2. IInv' /\ [NS!Next]_(NS!vars)
  BY <1>1, NextIInv, NextImplements
<1>3. Resting'
  BY <1>1 DEF Resting, iteration, PhaseOK
<1> QED
  BY <1>2, <1>3, RestingNext

LEMMA BuildKeepsInv ==
  ASSUME IterationInv, Build
  PROVE  IterationInv' /\ [NS!Next]_(NS!vars)
<1>1. IInv /\ IsIdle /\ mode = "before" /\ UNCHANGED iteration /\ PhaseOK
  BY DEF IterationInv, Build, PhaseOK
<1>2. Used
  BY <1>1, MakeDirectoryUse, ObjectUse DEF Build
<1>3. Resting'
  BY <1>1, <1>2 DEF Resting, iteration, PhaseOK, Used
<1> QED
  BY <1>2, <1>3, RestingNext DEF Used

LEMMA AgainKeepsInv ==
  ASSUME IterationInv, Again
  PROVE  IterationInv' /\ [NS!Next]_(NS!vars)
<1>1. IInv /\ UNCHANGED storage /\ PhaseOK /\ IsIdle
  BY DEF IterationInv, Again, PhaseOK
<1>2. IInv' /\ IsIdle' /\ UNCHANGED NS!vars
  BY <1>1, StorageRests
<1>3. Resting'
  BY <1>1, <1>2 DEF Resting, Again, PhaseOK
<1> QED
  BY <1>2, <1>3, RestingNext

LEMMA BeginKeepsInv ==
  ASSUME IterationInv, Begin
  PROVE  IterationInv' /\ [NS!Next]_(NS!vars)
<1>1. /\ IInv /\ UNCHANGED storage /\ PhaseOK /\ IsIdle /\ mode' = "on"
      /\ frames' = <<Frame(Root)>> /\ placed' = Placed /\ stayed' = Placed
      /\ visited' = <<>> /\ calling' = FALSE /\ visited = <<>>
  BY DEF IterationInv, Begin, PhaseOK
<1>2. IInv' /\ IsIdle' /\ UNCHANGED NS!vars /\ Attached' = Attached
  BY <1>1, StorageRests
<1>3. UNCHANGED <<subdirs, contents, heap, parent>>
  BY <1>1 DEF storage, tree
<1>4. /\ Attached \subseteq heap /\ heap \subseteq Dirs /\ Root \in Attached
      /\ \A x \in Attached : subdirs[x] \subseteq Attached
      /\ contents \in [Dirs -> SUBSET Objects] /\ subdirs \in [Dirs -> SUBSET Dirs]
  BY <1>1, ShapeFacts DEF IInv, TypeOK
<1>5. PICK f : f = Frame(Root)
  OBVIOUS
<1>6. /\ f \in Frames /\ f.dir = Root /\ f.objs = contents[Root] /\ f.subs = NotTaken
      /\ f.left = {}
  BY <1>4, <1>5 DEF Frame, Frames, NotTaken
<1>7. /\ frames' \in Seq(Frames) /\ DOMAIN frames' = {1} /\ Len(frames') = 1
      /\ frames'[1] = f /\ frames' # <<>>
  BY <1>1, <1>5, <1>6
<1> DEFINE V == Ahead(frames', subdirs)
<1>8. V \subseteq Attached /\ Root \notin V
  <2> DEFINE S == Attached \ {Root}
  <2>1. S \in SUBSET Dirs
    BY <1>4
  <2>2. \A x \in Attached : subdirs[x] \subseteq S
    BY <1>1, <1>4 DEF IInv, HeapShape
  <2>3. IsAhead(frames', subdirs, S)
    BY <1>4, <1>6, <1>7, <2>2 DEF IsAhead
  <2> HIDE DEF S
  <2>4. V \subseteq S
    BY <2>1, <2>3, AheadLeast
  <2> QED
    BY <2>4 DEF S
<1>9. Attached \subseteq V \union {Root}
  <2>1. IsAhead(frames', subdirs, V) /\ V \subseteq Dirs
    BY <1>4, <1>7, AheadIsAhead
  <2> DEFINE S == (V \union {Root}) \intersect heap
  <2>2. S \in SUBSET heap /\ Root \in S
    BY <1>4
  <2>3. \A x \in heap : subdirs[x] \subseteq heap
    BY <1>1 DEF IInv, HeapShape
  <2>4. subdirs[Root] \subseteq V /\ \A x \in V : subdirs[x] \subseteq V
    BY <1>6, <1>7, <2>1 DEF IsAhead
  <2> HIDE DEF V
  <2>5. \A x \in S : subdirs[x] \subseteq S
    BY <2>3, <2>4
  <2> HIDE DEF S
  <2>6. Attached \subseteq S
    BY <2>2, <2>5, ReachLeast DEF Attached
  <2> QED
    BY <2>6 DEF S
<1>10. Ahead(frames, subdirs)' = V
  BY <1>3 DEF Ahead, IsAhead
<1> HIDE DEF V
<1>11. PhaseOK'
  BY <1>1, <1>2, <1>7 DEF PhaseOK
<1>12. FramesOK'
  BY <1>3, <1>4, <1>6, <1>7 DEF FramesOK
<1>13. OnceOK'
  <2>1. VisitedDirs' = {} /\ Range(visited') = {} /\ IsInjective(visited')
    BY <1>1 DEF VisitedDirs, Range, IsInjective
  <2>2. \A d \in Attached : \A o \in contents[d] : <<d, o>> \in placed'
    BY <1>1 DEF Placed
  <2> QED
    BY <1>3, <1>4, <1>6, <1>7, <1>8, <1>10, <2>1, <2>2 DEF OnceOK
<1>14. MissesNothing' /\ stayed' \subseteq Dirs \X Objects
  <2>1. \A d \in Dirs, o \in Objects : <<d, o>> \in stayed' => d \in Attached /\ o \in contents[d]
    BY <1>1 DEF Placed
  <2>2. \A d \in Attached : d \in V \/ d = Root
    BY <1>9
  <2>3. stayed' \subseteq Dirs \X Objects
    BY <1>1, <1>4 DEF Placed
  <2> QED
    BY <1>2, <1>3, <1>6, <1>7, <1>10, <2>1, <2>2, <2>3 DEF MissesNothing
<1> QED
  BY <1>2, <1>11, <1>12, <1>13, <1>14 DEF IterationInv

-----------------------------------------------------------------------------
LEMMA SameAhead ==
  ASSUME NEW a, NEW b, NEW sub, DOMAIN a = DOMAIN b,
         \A i \in DOMAIN a : a[i].left = b[i].left /\ a[i].subs = b[i].subs /\ a[i].dir = b[i].dir
  PROVE  Ahead(a, sub) = Ahead(b, sub)
<1>1. \A S : IsAhead(a, sub, S) <=> IsAhead(b, sub, S)
  BY DEF IsAhead
<1> QED
  BY <1>1 DEF Ahead

\* One more call of the function.
LEMMA AppendVisited ==
  ASSUME NEW T, NEW s \in Seq(T), NEW v \in T, v \notin Range(s), IsInjective(s)
  PROVE  /\ Append(s, v) \in Seq(T) /\ Append(s, v) # <<>>
         /\ IsInjective(Append(s, v)) /\ Range(Append(s, v)) = Range(s) \union {v}
<1>1. PICK t \in Seq(T) :
        /\ t = Append(s, v) /\ t # <<>> /\ Len(t) = Len(s) + 1
        /\ \A i \in 1 .. Len(s) : t[i] = s[i]
        /\ t[Len(s) + 1] = v
  BY AppendProperties
<1>2. /\ Len(s) \in Nat /\ DOMAIN s = 1 .. Len(s) /\ DOMAIN t = 1 .. Len(s) + 1
  BY <1>1, LenProperties
<1>3. \A i \in 1 .. Len(s) : t[i] # v
  BY <1>1, <1>2 DEF Range
<1>4. \A i, j \in 1 .. Len(s) : t[i] = t[j] => i = j
  BY <1>1, <1>2 DEF IsInjective
<1>5. \A i \in 1 .. Len(s) + 1 : i \in 1 .. Len(s) \/ i = Len(s) + 1
  BY <1>2
<1>6. IsInjective(t)
  BY <1>1, <1>2, <1>3, <1>4, <1>5 DEF IsInjective
<1>7. Range(t) = Range(s) \union {v}
  <2>1. \A i \in 1 .. Len(s) : i \in 1 .. Len(s) + 1
    BY <1>2
  <2>2. Len(s) + 1 \in 1 .. Len(s) + 1
    BY <1>2
  <2> QED
    BY <1>1, <1>2, <1>5, <2>1, <2>2 DEF Range
<1> QED
  BY <1>1, <1>6, <1>7

\* What is known of the call on top, between two calls of the function.
LEMMA InFrameFacts ==
  ASSUME IterationInv, InFrame
  PROVE  \E l \in Nat \ {0} :
           /\ l = Len(frames) /\ DOMAIN frames = 1 .. l /\ Top = frames[l]
           /\ Top \in Frames /\ frames # <<>> /\ l \in DOMAIN frames
           /\ \A i \in DOMAIN frames : i # l => frames[i].subs # NotTaken
           /\ mode = "on" /\ IsIdle /\ IInv /\ frames \in Seq(Frames)
           /\ PhaseOK /\ FramesOK /\ OnceOK /\ MissesNothing
           /\ stayed \subseteq Dirs \X Objects
<1>1. /\ mode = "on" /\ IsIdle /\ IInv /\ frames # <<>> /\ frames \in Seq(Frames)
      /\ PhaseOK /\ FramesOK /\ OnceOK /\ MissesNothing /\ stayed \subseteq Dirs \X Objects
  BY DEF IterationInv, PhaseOK, InFrame
<1>2. /\ Len(frames) \in Nat \ {0} /\ DOMAIN frames = 1 .. Len(frames)
      /\ Top = frames[Len(frames)] /\ Top \in Frames
  BY <1>1, TopFacts DEF Top
<1>3. \A i \in DOMAIN frames : i # Len(frames) => frames[i].subs # NotTaken
  BY <1>1 DEF FramesOK
<1>4. Len(frames) \in DOMAIN frames
  BY <1>2
<1> WITNESS Len(frames) \in Nat \ {0}
<1> QED
  BY <1>1, <1>2, <1>3, <1>4, Zenon

LEMMA CallFunctionKeepsInv ==
  ASSUME IterationInv, CallFunction
  PROVE  IterationInv' /\ UNCHANGED NS!vars
<1>1. PICK l \in Nat \ {0} :
           /\ l = Len(frames) /\ DOMAIN frames = 1 .. l /\ Top = frames[l]
           /\ Top \in Frames /\ frames # <<>> /\ l \in DOMAIN frames
           /\ \A i \in DOMAIN frames : i # l => frames[i].subs # NotTaken
           /\ mode = "on" /\ IsIdle /\ IInv /\ frames \in Seq(Frames)
           /\ PhaseOK /\ FramesOK /\ OnceOK /\ MissesNothing
           /\ stayed \subseteq Dirs \X Objects
  BY InFrameFacts DEF CallFunction
<1>2. PICK o \in Top.objs :
        /\ frames' = Append(Front(frames), [Top EXCEPT !.objs = @ \ {o}])
        /\ visited' = Append(visited, <<Top.dir, o>>)
  BY DEF CallFunction, SetTop
<1>3. calling' = TRUE /\ UNCHANGED <<storage, mode, changes, placed, stayed>>
  BY DEF CallFunction
<1>4. PICK g : g = [Top EXCEPT !.objs = @ \ {o}]
  OBVIOUS
<1>5. /\ g \in Frames /\ g.dir = Top.dir /\ g.left = Top.left /\ g.subs = Top.subs
      /\ g.objs = Top.objs \ {o} /\ Top.dir \in Dirs /\ o \in Objects
  BY <1>1, <1>4 DEF Frames
<1>6. /\ frames' \in Seq(Frames) /\ frames' # <<>> /\ Len(frames') = l
      /\ DOMAIN frames' = DOMAIN frames
      /\ frames'[l] = g /\ \A i \in DOMAIN frames : i # l => frames'[i] = frames[i]
  <2>1. frames' \in Seq(Frames) /\ ReplacesLast(frames, g, frames')
    BY <1>1, <1>2, <1>4, <1>5, SetTopNext, Zenon DEF SetTop
  <2> QED
    BY <1>1, <2>1, Zenon DEF ReplacesLast
<1>7. IInv' /\ IsIdle' /\ UNCHANGED NS!vars /\ Attached' = Attached
  BY <1>1, <1>3, StorageRests
<1>8. UNCHANGED <<subdirs, contents, heap, parent>>
  BY <1>3 DEF storage, tree
<1>9. \A i \in DOMAIN frames : /\ frames'[i].left = frames[i].left
                                /\ frames'[i].subs = frames[i].subs
                                /\ frames'[i].dir = frames[i].dir
                                /\ frames'[i].objs \subseteq frames[i].objs
  BY <1>1, <1>5, <1>6
<1>10. Ahead(frames, subdirs)' = Ahead(frames, subdirs)
  <2>1. Ahead(frames', subdirs) = Ahead(frames, subdirs)
    BY <1>6, <1>9, SameAhead
  <2> QED
    BY <1>8, <2>1 DEF Ahead, IsAhead
<1>11. /\ visited' \in Seq(Dirs \X Objects) /\ visited' # <<>> /\ IsInjective(visited')
       /\ Range(visited') = Range(visited) \union {<<Top.dir, o>>}
       /\ <<Top.dir, o>> \in placed
  <2>1. <<Top.dir, o>> \in placed \ Range(visited) /\ IsInjective(visited)
    BY <1>1, <1>2 DEF OnceOK
  <2>2. visited \in Seq(Dirs \X Objects) /\ <<Top.dir, o>> \in Dirs \X Objects
    BY <1>1, <1>5 DEF PhaseOK
  <2> QED
    BY <1>2, <2>1, <2>2, AppendVisited, SMTT(30)
<1>12. PhaseOK'
  BY <1>1, <1>3, <1>6, <1>7, <1>11 DEF PhaseOK
<1>13. FramesOK'
  <2>1. \A i \in DOMAIN frames : frames[i].subs # NotTaken => frames'[i].objs = {}
    BY <1>1, <1>9 DEF FramesOK
  <2> QED
    BY <1>1, <1>6, <1>8, <1>9, <2>1 DEF FramesOK
<1>14. OnceOK'
  <2>1. \A d \in VisitedDirs' : d \in VisitedDirs \/ d = Top.dir
    <3>1. \A k \in DOMAIN visited' : visited'[k] \in Range(visited) \/ visited'[k] = <<Top.dir, o>>
      BY <1>11 DEF Range
    <3> QED
      BY <3>1 DEF VisitedDirs, Range
  <2>2. \A d \in Ahead(frames, subdirs) :
          /\ d \notin VisitedDirs'
          /\ \A i \in DOMAIN frames' : d # frames'[i].dir
    BY <1>1, <1>6, <1>9, <2>1 DEF OnceOK
  <2>3. ASSUME NEW i \in DOMAIN frames, NEW p \in frames'[i].objs
        PROVE  <<frames'[i].dir, p>> \in placed' \ Range(visited')
    <3>1. p \in frames[i].objs /\ frames'[i].dir = frames[i].dir
      BY <1>9
    <3>2. <<frames[i].dir, p>> \in placed \ Range(visited)
      BY <1>1, <3>1 DEF OnceOK
    <3>3. i = l
      BY <1>1, <3>1 DEF FramesOK
    <3>4. p # o
      BY <1>5, <1>6, <3>3
    <3> QED
      BY <1>3, <1>11, <3>1, <3>2, <3>4
  <2> QED
    BY <1>1, <1>3, <1>6, <1>8, <1>10, <1>11, <2>2, <2>3 DEF OnceOK
<1>15. MissesNothing'
  <2> SUFFICES ASSUME NEW d \in Dirs, NEW p \in Objects, <<d, p>> \in stayed
               PROVE  /\ d \in Attached /\ p \in contents[d]
                      /\ \/ <<d, p>> \in Range(visited')
                         \/ \E i \in DOMAIN frames : d = frames'[i].dir /\ p \in frames'[i].objs
                         \/ d \in Ahead(frames, subdirs)
    BY <1>3, <1>6, <1>7, <1>8, <1>10 DEF MissesNothing
  <2>1. /\ d \in Attached /\ p \in contents[d]
        /\ \/ <<d, p>> \in Range(visited)
           \/ \E i \in DOMAIN frames : d = frames[i].dir /\ p \in frames[i].objs
           \/ d \in Ahead(frames, subdirs)
    BY <1>1 DEF MissesNothing
  <2>2. ASSUME NEW i \in DOMAIN frames, d = frames[i].dir, p \in frames[i].objs
        PROVE  \/ <<d, p>> \in Range(visited')
               \/ d = frames'[i].dir /\ p \in frames'[i].objs
    BY <1>1, <1>5, <1>6, <1>11, <2>2
  <2> QED
    BY <1>11, <2>1, <2>2
<1> QED
  BY <1>1, <1>3, <1>7, <1>12, <1>13, <1>14, <1>15 DEF IterationInv

LEMMA ReturnsTrueKeepsInv ==
  ASSUME IterationInv, FunctionReturnsTrue
  PROVE  IterationInv' /\ UNCHANGED NS!vars
<1>1. /\ IInv /\ UNCHANGED <<storage, mode, frames, visited, placed, stayed>>
      /\ calling' = FALSE
  BY DEF IterationInv, FunctionReturnsTrue
<1>2. IInv' /\ IsIdle' = IsIdle /\ UNCHANGED NS!vars /\ Attached' = Attached
  BY <1>1, StorageRests
<1>3. UNCHANGED <<subdirs, contents, heap, parent>>
  BY <1>1 DEF storage, tree
<1>4. Ahead(frames, subdirs)' = Ahead(frames, subdirs) /\ VisitedDirs' = VisitedDirs
  BY <1>1, <1>3 DEF Ahead, IsAhead, VisitedDirs
<1>5. PhaseOK'
  BY <1>1, <1>2 DEF PhaseOK, IterationInv
<1>6. FramesOK'
  BY <1>1, <1>3 DEF FramesOK, IterationInv
<1>7. OnceOK'
  BY <1>1, <1>3, <1>4 DEF OnceOK, IterationInv
<1>8. MissesNothing'
  BY <1>1, <1>2, <1>3, <1>4 DEF MissesNothing, IterationInv
<1> QED
  BY <1>1, <1>2, <1>5, <1>6, <1>7, <1>8 DEF IterationInv

LEMMA ReturnsFalseKeepsInv ==
  ASSUME IterationInv, FunctionReturnsFalse
  PROVE  IterationInv' /\ UNCHANGED NS!vars
<1>1. /\ IInv /\ IsIdle /\ PhaseOK /\ DropCopies /\ UNCHANGED <<visited, placed, stayed>>
      /\ calling' = FALSE /\ mode' = "stopped" /\ frames' = <<>>
  BY DEF IterationInv, FunctionReturnsFalse, PhaseOK
<1>2. /\ IInv' /\ IsIdle' /\ UNCHANGED NS!vars /\ Attached' = Attached
      /\ \A x \in Attached : contents'[x] = contents[x]
  BY <1>1, DropFacts
<1>3. Ahead(frames, subdirs)' = {} /\ VisitedDirs' = VisitedDirs /\ DOMAIN frames' = {}
  <2>1. Ahead(<<>>, subdirs') = {}
    BY NothingAhead
  <2>2. Ahead(frames, subdirs)' = Ahead(<<>>, subdirs')
    BY <1>1 DEF Ahead, IsAhead
  <2> QED
    BY <1>1, <2>1, <2>2 DEF VisitedDirs
<1>4. PhaseOK' /\ FramesOK'
  <2>1. frames' \in Seq(Frames) /\ visited' \in Seq(Dirs \X Objects)
    BY <1>1 DEF PhaseOK
  <2>2. PhaseOK'
    BY <1>1, <1>2, <2>1 DEF PhaseOK
  <2>3. FramesOK'
    BY <1>3 DEF FramesOK
  <2> QED
    BY <2>2, <2>3
<1>5. OnceOK'
  BY <1>1, <1>3 DEF OnceOK, IterationInv
<1>6. MissesNothing'
  BY <1>1, <1>2 DEF MissesNothing, IterationInv
<1> QED
  BY <1>1, <1>2, <1>4, <1>5, <1>6 DEF IterationInv

LEMMA TakeSubdirsKeepsInv ==
  ASSUME IterationInv, TakeSubdirs
  PROVE  IterationInv' /\ UNCHANGED NS!vars
<1>1. PICK l \in Nat \ {0} :
           /\ l = Len(frames) /\ DOMAIN frames = 1 .. l /\ Top = frames[l]
           /\ Top \in Frames /\ frames # <<>> /\ l \in DOMAIN frames
           /\ \A i \in DOMAIN frames : i # l => frames[i].subs # NotTaken
           /\ mode = "on" /\ IsIdle /\ IInv /\ frames \in Seq(Frames)
           /\ PhaseOK /\ FramesOK /\ OnceOK /\ MissesNothing
           /\ stayed \subseteq Dirs \X Objects
  BY InFrameFacts DEF TakeSubdirs
<1>2. /\ Top.objs = {} /\ Top.subs = NotTaken
      /\ UNCHANGED <<storage, mode, calling, visited, changes, placed, stayed>>
      /\ SetTop([Top EXCEPT !.subs = subdirs[Top.dir], !.left = subdirs[Top.dir]])
  BY DEF TakeSubdirs
<1>3. PICK g : g = [Top EXCEPT !.subs = subdirs[Top.dir], !.left = subdirs[Top.dir]]
  OBVIOUS
<1>4. /\ subdirs \in [Dirs -> SUBSET Dirs] /\ Top.dir \in Dirs /\ Top.dir \in heap
      /\ Top.left = {}
  BY <1>1, <1>2 DEF IInv, TypeOK, Frames, FramesOK
<1>5. /\ g \in Frames /\ g.dir = Top.dir /\ g.left = subdirs[Top.dir]
      /\ g.subs = subdirs[Top.dir] /\ g.objs = {} /\ g.subs # NotTaken
  <2> DEFINE h == [Top EXCEPT !.subs = subdirs[Top.dir]]
  <2>1. /\ h \in Frames /\ h.dir = Top.dir /\ h.objs = {} /\ h.subs = subdirs[Top.dir]
    BY <1>1, <1>2, <1>4 DEF Frames
  <2>2. g = [h EXCEPT !.left = subdirs[Top.dir]]
    BY <1>3, Zenon
  <2> HIDE DEF h
  <2>3. /\ g \in Frames /\ g.dir = Top.dir /\ g.left = subdirs[Top.dir]
        /\ g.subs = subdirs[Top.dir] /\ g.objs = {}
    BY <1>4, <2>1, <2>2 DEF Frames
  <2>4. subdirs[Top.dir] # NotTaken
    BY <1>4, StorageAssumption DEF NotTaken
  <2> QED
    BY <2>3, <2>4
<1>6. /\ frames' \in Seq(Frames) /\ frames' # <<>> /\ Len(frames') = l
      /\ DOMAIN frames' = DOMAIN frames
      /\ frames'[l] = g /\ \A i \in DOMAIN frames : i # l => frames'[i] = frames[i]
  <2>1. frames' \in Seq(Frames) /\ ReplacesLast(frames, g, frames')
    BY <1>1, <1>2, <1>3, <1>5, SetTopNext, Zenon
  <2> QED
    BY <1>1, <2>1, Zenon DEF ReplacesLast
<1>7. IInv' /\ IsIdle' /\ UNCHANGED NS!vars /\ Attached' = Attached
  BY <1>1, <1>2, StorageRests
<1>8. UNCHANGED <<subdirs, contents, heap, parent>> /\ VisitedDirs' = VisitedDirs
  BY <1>2 DEF storage, tree, VisitedDirs
<1>9. \A i \in DOMAIN frames : /\ frames'[i].dir = frames[i].dir
                                /\ frames'[i].objs = frames[i].objs
  BY <1>1, <1>2, <1>5, <1>6
<1>10. Ahead(frames, subdirs)' = Ahead(frames, subdirs)
  <2>1. \A S : IsAhead(frames', subdirs, S) <=> IsAhead(frames, subdirs, S)
    BY <1>1, <1>2, <1>4, <1>5, <1>6 DEF IsAhead
  <2> QED
    BY <1>8, <2>1 DEF Ahead, IsAhead
<1>11. PhaseOK'
  BY <1>1, <1>2, <1>6, <1>7 DEF PhaseOK
<1>12. FramesOK'
  <2>1. \A e \in subdirs[Top.dir] : e \in heap /\ parent[e] = Top.dir
    BY <1>1, <1>4 DEF IInv, HeapShape
  <2> QED
    BY <1>1, <1>5, <1>6, <1>8, <1>9, <2>1 DEF FramesOK
<1>13. OnceOK'
  BY <1>1, <1>2, <1>6, <1>8, <1>9, <1>10 DEF OnceOK
<1>14. MissesNothing'
  BY <1>1, <1>2, <1>6, <1>7, <1>8, <1>9, <1>10 DEF MissesNothing
<1> QED
  BY <1>1, <1>2, <1>7, <1>11, <1>12, <1>13, <1>14 DEF IterationInv

LEMMA DescendKeepsInv ==
  ASSUME IterationInv, Descend
  PROVE  IterationInv' /\ UNCHANGED NS!vars
<1>1. PICK l \in Nat \ {0} :
           /\ l = Len(frames) /\ DOMAIN frames = 1 .. l /\ Top = frames[l]
           /\ Top \in Frames /\ frames # <<>> /\ l \in DOMAIN frames
           /\ \A i \in DOMAIN frames : i # l => frames[i].subs # NotTaken
           /\ mode = "on" /\ IsIdle /\ IInv /\ frames \in Seq(Frames)
           /\ PhaseOK /\ FramesOK /\ OnceOK /\ MissesNothing
           /\ stayed \subseteq Dirs \X Objects
  BY InFrameFacts DEF Descend
<1>2. /\ Top.subs # NotTaken
      /\ UNCHANGED <<storage, mode, calling, visited, changes, placed, stayed>>
  BY DEF Descend
<1>3. PICK d \in Top.left :
        frames' = Append(Front(frames), [Top EXCEPT !.left = @ \ {d}]) \o <<Frame(d)>>
  BY DEF Descend
<1>4. PICK g, f : g = [Top EXCEPT !.left = @ \ {d}] /\ f = Frame(d)
  OBVIOUS
<1>5. /\ g \in Frames /\ g.dir = Top.dir /\ g.left = Top.left \ {d} /\ g.subs = Top.subs
      /\ g.objs = Top.objs /\ d \in Dirs /\ Top.dir \in Dirs
  BY <1>1, <1>4 DEF Frames
<1>6. /\ subdirs \in [Dirs -> SUBSET Dirs] /\ contents \in [Dirs -> SUBSET Objects]
      /\ f \in Frames /\ f.dir = d /\ f.objs = contents[d] /\ f.subs = NotTaken
      /\ f.left = {}
  BY <1>1, <1>4, <1>5 DEF IInv, TypeOK, Frame, Frames, NotTaken
<1>7. /\ frames' \in Seq(Frames) /\ frames' # <<>> /\ Len(frames') = l + 1
      /\ DOMAIN frames' = 1 .. l + 1 /\ frames'[l + 1] = f
      /\ frames'[l] = g /\ \A i \in DOMAIN frames : i # l => frames'[i] = frames[i]
  <2>1. PICK t \in Seq(Frames) :
          t = Append(Front(frames), g) /\ ReplacesLast(frames, g, t)
    BY <1>1, <1>5, SetTopFacts
  <2>2. frames' = t \o <<f>>
    BY <1>3, <1>4, <2>1, Zenon
  <2>3. Append(t, f) = t \o <<f>>
    BY <1>6, <2>1, AppendIsConcat
  <2>4. /\ Len(t) = l /\ DOMAIN t = 1 .. l /\ t[l] = g
        /\ \A i \in DOMAIN frames : i # l => t[i] = frames[i]
    BY <1>1, <2>1, Zenon DEF ReplacesLast
  <2>5. PICK u \in Seq(Frames) :
          /\ u = Append(t, f) /\ u # <<>> /\ Len(u) = Len(t) + 1 /\ u[Len(t) + 1] = f
          /\ \A i \in 1 .. Len(t) : u[i] = t[i]
    <3>1. /\ Append(t, f) \in Seq(Frames) /\ Append(t, f) # <<>>
          /\ Len(Append(t, f)) = Len(t) + 1 /\ Append(t, f)[Len(t) + 1] = f
          /\ \A i \in 1 .. Len(t) : Append(t, f)[i] = t[i]
      BY <1>6, <2>1, AppendProperties
    <3> QED
      BY <3>1, Zenon
  <2>6. u = frames'
    BY <2>2, <2>3, <2>5, Zenon
  <2>7. /\ Len(u) = l + 1 /\ u[l + 1] = f /\ u[l] = g /\ DOMAIN u = 1 .. l + 1
        /\ \A i \in 1 .. l : i # l => u[i] = frames[i]
    BY <1>1, <2>4, <2>5, LenProperties
  <2> QED
    BY <1>1, <2>5, <2>6, <2>7, Zenon
<1>8. IInv' /\ IsIdle' /\ UNCHANGED NS!vars /\ Attached' = Attached
  BY <1>1, <1>2, StorageRests
<1>9. UNCHANGED <<subdirs, contents, heap, parent>> /\ VisitedDirs' = VisitedDirs
  BY <1>2 DEF storage, tree, VisitedDirs
<1> DEFINE W == Ahead(frames, subdirs)
           V == Ahead(frames', subdirs)
<1>10. /\ IsAhead(frames, subdirs, W) /\ W \subseteq Dirs
       /\ IsAhead(frames', subdirs, V) /\ V \subseteq Dirs
  BY <1>1, <1>6, <1>7, AheadIsAhead
<1>11. /\ d \in W /\ d \in heap /\ parent[d] = Top.dir /\ Top.dir \notin W
       /\ \A i \in DOMAIN frames : d # frames[i].dir
       /\ \A i \in 1 .. l + 1 : i # l + 1 => i \in DOMAIN frames
  <2>1. d \in W
    BY <1>1, <1>10 DEF IsAhead
  <2>2. d \in heap /\ parent[d] = Top.dir
    BY <1>1, <1>2 DEF FramesOK
  <2>3. \A e \in W : \A i \in DOMAIN frames : e # frames[i].dir
    BY <1>1 DEF OnceOK
  <2> QED
    BY <1>1, <2>1, <2>2, <2>3
<1>12. \A i \in DOMAIN frames : /\ frames'[i].dir = frames[i].dir
                                 /\ frames'[i].objs = frames[i].objs
                                 /\ frames'[i].subs = frames[i].subs
                                 /\ frames'[i].left \subseteq frames[i].left
  BY <1>1, <1>5, <1>7
<1>13. V \subseteq W /\ d \notin V
  <2> DEFINE S == W \ {d}
  <2>1. S \in SUBSET Dirs
    BY <1>10
  <2>2. ASSUME NEW x \in W, d \in subdirs[x] PROVE FALSE
    <3>1. x \in heap
      BY <1>1, <1>10, <2>2 DEF IInv, HeapShape
    <3>2. parent[d] = x
      BY <1>1, <2>2, <3>1 DEF IInv, HeapShape
    <3> QED
      BY <1>11, <3>2
  <2>3. \A x \in W : subdirs[x] \subseteq S
    BY <1>10, <2>2 DEF IsAhead
  <2>4. ASSUME NEW i \in DOMAIN frames PROVE frames'[i].left \subseteq S
    <3>1. frames[i].left \subseteq W
      BY <1>10 DEF IsAhead
    <3>2. CASE i = l
      BY <1>1, <1>5, <1>7, <3>1, <3>2
    <3>3. CASE i # l
      <4>1. frames[i].dir # Top.dir
        BY <1>1, <3>3 DEF FramesOK
      <4>2. d \notin frames[i].left
        BY <1>1, <1>11, <3>3, <4>1 DEF FramesOK
      <4> QED
        BY <1>12, <3>1, <4>2
    <3> QED
      BY <3>2, <3>3
  <2>5. \A i \in DOMAIN frames : frames'[i].subs # NotTaken
    BY <1>1, <1>2, <1>12
  <2>6. \A i \in 1 .. l + 1 : i = l + 1 \/ i \in DOMAIN frames
    BY <1>11
  <2>7. subdirs[d] \subseteq S
    BY <1>11, <2>3
  <2> HIDE DEF S
  <2>8. IsAhead(frames', subdirs, S)
    <3>1. \A x \in S : subdirs[x] \subseteq S
      BY <2>3 DEF S
    <3> QED
      BY <1>6, <1>7, <2>4, <2>5, <2>6, <2>7, <3>1 DEF IsAhead
  <2>9. V \subseteq S
    BY <2>1, <2>8, AheadLeast
  <2> QED
    BY <2>9 DEF S
<1>14. W \subseteq V \union {d}
  <2> DEFINE S == V \union {d}
  <2>1. S \in SUBSET Dirs
    BY <1>5, <1>10
  <2>2. l + 1 \in 1 .. l + 1 /\ \A i \in DOMAIN frames : i \in 1 .. l + 1
    BY <1>1
  <2>3. subdirs[d] \subseteq V /\ \A x \in V : subdirs[x] \subseteq V
    BY <1>6, <1>7, <1>10, <2>2 DEF IsAhead
  <2>4. ASSUME NEW i \in DOMAIN frames PROVE frames[i].left \subseteq S
    <3>1. frames'[i].left \subseteq V
      BY <1>7, <1>10, <2>2 DEF IsAhead
    <3> HIDE DEF V
    <3>2. CASE i = l
      BY <1>1, <1>5, <1>7, <3>1, <3>2
    <3>3. CASE i # l
      BY <1>7, <3>1, <3>3
    <3> QED
      BY <3>2, <3>3
  <2>5. \A i \in DOMAIN frames : frames[i].subs # NotTaken
    BY <1>1, <1>2
  <2> HIDE DEF V
  <2>6. \A x \in S : subdirs[x] \subseteq S
    BY <2>3
  <2> HIDE DEF S
  <2>7. IsAhead(frames, subdirs, S)
    BY <2>4, <2>5, <2>6 DEF IsAhead
  <2>8. W \subseteq S
    BY <2>1, <2>7, AheadLeast
  <2> QED
    BY <2>8 DEF S
<1>15. Ahead(frames, subdirs)' = V
  BY <1>9 DEF Ahead, IsAhead
<1> HIDE DEF W, V
<1>16. PhaseOK'
  BY <1>1, <1>2, <1>7, <1>8 DEF PhaseOK
<1>17. FramesOK'
  <2>1. ASSUME NEW i \in DOMAIN frames
        PROVE  /\ frames'[i].dir \in heap /\ frames'[i].subs # NotTaken
               /\ frames'[i].objs = {} /\ frames'[i].left \subseteq frames'[i].subs
               /\ \A e \in frames'[i].subs : e \in heap /\ parent[e] = frames'[i].dir
    <3>1. frames[i].subs # NotTaken
      BY <1>1, <1>2
    <3> QED
      BY <1>1, <1>12, <3>1 DEF FramesOK
  <2>2. \A i, j \in DOMAIN frames : frames'[i].dir = frames'[j].dir => i = j
    BY <1>1, <1>12 DEF FramesOK
  <2>3. \A i \in 1 .. l + 1 : i = l + 1 \/ i \in DOMAIN frames
    BY <1>11
  <2>4. \A i \in DOMAIN frames : frames'[i].dir # d
    BY <1>11, <1>12
  <2> QED
    BY <1>6, <1>7, <1>9, <1>11, <2>1, <2>2, <2>3, <2>4 DEF FramesOK
<1>18. OnceOK'
  <2>1. \A i \in 1 .. l + 1 : i = l + 1 \/ i \in DOMAIN frames
    BY <1>11
  <2>2. \A e \in V : /\ e \notin VisitedDirs
                      /\ \A i \in DOMAIN frames' : e # frames'[i].dir
    <3>1. \A e \in V : e \notin VisitedDirs /\ \A i \in DOMAIN frames : e # frames[i].dir
      BY <1>1, <1>13 DEF OnceOK, W
    <3> QED
      BY <1>6, <1>7, <1>12, <1>13, <2>1, <3>1
  <2>3. \A o \in contents[d] : <<d, o>> \in placed \ Range(visited)
    <3>1. d \notin VisitedDirs /\ \A o \in contents[d] : <<d, o>> \in placed
      BY <1>1, <1>11 DEF OnceOK, W
    <3>2. ASSUME NEW o, <<d, o>> \in Range(visited) PROVE FALSE
      <4>1. PICK k \in DOMAIN visited : visited[k] = <<d, o>>
        BY <3>2 DEF Range
      <4>2. visited[k][1] = d
        BY <4>1
      <4> QED
        BY <3>1, <4>2 DEF VisitedDirs
    <3> QED
      BY <3>1, <3>2
  <2>4. \A i \in DOMAIN frames' : \A o \in frames'[i].objs :
          <<frames'[i].dir, o>> \in placed \ Range(visited)
    BY <1>1, <1>6, <1>7, <1>12, <2>1, <2>3 DEF OnceOK
  <2>5. \A e \in V : \A o \in contents[e] : <<e, o>> \in placed
    BY <1>1, <1>13 DEF OnceOK, W
  <2> QED
    BY <1>1, <1>2, <1>9, <1>15, <2>2, <2>4, <2>5 DEF OnceOK
<1>19. MissesNothing'
  <2> SUFFICES ASSUME NEW e \in Dirs, NEW o \in Objects, <<e, o>> \in stayed
               PROVE  /\ e \in Attached /\ o \in contents[e]
                      /\ \/ <<e, o>> \in Range(visited)
                         \/ \E i \in DOMAIN frames' : e = frames'[i].dir /\ o \in frames'[i].objs
                         \/ e \in V
    BY <1>2, <1>8, <1>9, <1>15 DEF MissesNothing
  <2>1. /\ e \in Attached /\ o \in contents[e]
        /\ \/ <<e, o>> \in Range(visited)
           \/ \E i \in DOMAIN frames : e = frames[i].dir /\ o \in frames[i].objs
           \/ e \in W
    BY <1>1 DEF MissesNothing, W
  <2>2. l + 1 \in DOMAIN frames' /\ \A i \in DOMAIN frames : i \in DOMAIN frames'
    BY <1>1, <1>7
  <2> QED
    BY <1>6, <1>7, <1>12, <1>14, <2>1, <2>2
<1> QED
  BY <1>1, <1>2, <1>8, <1>16, <1>17, <1>18, <1>19 DEF IterationInv

LEMMA LeaveKeepsInv ==
  ASSUME IterationInv, Leave
  PROVE  IterationInv' /\ UNCHANGED NS!vars
<1>1. PICK l \in Nat \ {0} :
           /\ l = Len(frames) /\ DOMAIN frames = 1 .. l /\ Top = frames[l]
           /\ Top \in Frames /\ frames # <<>> /\ l \in DOMAIN frames
           /\ \A i \in DOMAIN frames : i # l => frames[i].subs # NotTaken
           /\ mode = "on" /\ IsIdle /\ IInv /\ frames \in Seq(Frames)
           /\ PhaseOK /\ FramesOK /\ OnceOK /\ MissesNothing
           /\ stayed \subseteq Dirs \X Objects
  BY InFrameFacts DEF Leave
<1>2. /\ Top.subs # NotTaken /\ Top.left = {} /\ calling = FALSE
      /\ frames' = Front(frames) /\ DropCopies
      /\ mode' = IF frames' = <<>> THEN "complete" ELSE mode
      /\ UNCHANGED <<calling, visited, changes, placed, stayed>>
  BY <1>1 DEF Leave, InFrame, PhaseOK
<1>3. /\ frames' \in Seq(Frames) /\ DOMAIN frames' = 1 .. l - 1 /\ Len(frames') = l - 1
      /\ \A i \in 1 .. l - 1 : frames'[i] = frames[i]
  BY <1>1, <1>2, TopFacts
<1>4. \A i \in 1 .. l - 1 : i \in DOMAIN frames /\ i # l
  BY <1>1
<1>5. \A i \in DOMAIN frames : i # l => i \in 1 .. l - 1
  BY <1>1
<1>6. /\ IInv' /\ IsIdle' /\ UNCHANGED NS!vars
      /\ heap' = Kept(subdirs, Held') /\ Attached' = Attached
      /\ \A x \in heap' : parent'[x] = parent[x]
      /\ \A x \in Attached : contents'[x] = contents[x]
      /\ \A x \in Dirs : contents'[x] \subseteq contents[x] /\ UNCHANGED subdirs
  BY <1>1, <1>2, DropFacts DEF DropCopies
<1>7. Ahead(frames, subdirs)' = Ahead(frames, subdirs) /\ VisitedDirs' = VisitedDirs
  <2>1. \A S : IsAhead(frames', subdirs, S) <=> IsAhead(frames, subdirs, S)
    BY <1>1, <1>2, <1>3, <1>4, <1>5 DEF IsAhead
  <2>2. Ahead(frames', subdirs) = Ahead(frames, subdirs)
    BY <2>1 DEF Ahead
  <2>3. subdirs' = subdirs
    BY <1>2 DEF DropCopies
  <2> QED
    BY <1>2, <2>2, <2>3 DEF VisitedDirs, Ahead, IsAhead
<1>8. PhaseOK'
  <2>1. mode' \in {"on", "complete"} /\ (mode' = "on" <=> frames' # <<>>)
    BY <1>1, <1>2
  <2> QED
    BY <1>1, <1>2, <1>3, <1>6, <2>1 DEF PhaseOK
<1>9. FramesOK'
  <2>1. ASSUME NEW x \in Held', x \in heap
        PROVE  x \in heap' /\ parent'[x] = parent[x]
    BY <1>6, <2>1, KeptPinned
  <2>2. ASSUME NEW i \in 1 .. l - 1
        PROVE  /\ frames[i].dir \in heap' /\ frames[i].subs # NotTaken
               /\ frames[i].objs = {} /\ frames[i].left \subseteq frames[i].subs
               /\ \A e \in frames[i].subs : e \in heap' /\ parent'[e] = frames[i].dir
    <3>1. /\ frames[i].dir \in heap /\ frames[i].subs # NotTaken
          /\ frames[i].objs = {} /\ frames[i].left \subseteq frames[i].subs
          /\ \A e \in frames[i].subs : e \in heap /\ parent[e] = frames[i].dir
      BY <1>1, <1>4 DEF FramesOK
    <3>2. \A e \in frames[i].subs : e # NoDir
      BY <1>1, <3>1, StorageAssumption DEF IInv, TypeOK
    <3>3. frames[i] \in Range(frames')
      BY <1>3 DEF Range
    <3>4. {frames[i].dir} \union frames[i].subs \subseteq Held'
      BY <3>2, <3>3 DEF Held
    <3> QED
      BY <2>1, <3>1, <3>4
  <2>3. \A i, j \in 1 .. l - 1 : frames[i].dir = frames[j].dir => i = j
    BY <1>1, <1>4 DEF FramesOK
  <2> QED
    BY <1>3, <2>2, <2>3 DEF FramesOK
<1>10. OnceOK'
  <2>1. \A d \in Ahead(frames, subdirs) :
           d \notin VisitedDirs /\ \A i \in DOMAIN frames' : d # frames'[i].dir
    BY <1>1, <1>3, <1>4 DEF OnceOK
  <2>2. IsInjective(visited) /\ Range(visited) \subseteq placed
    BY <1>1 DEF OnceOK
  <2>3. \A i \in DOMAIN frames' : \A o \in frames'[i].objs :
          <<frames'[i].dir, o>> \in placed \ Range(visited)
    BY <1>1, <1>3, <1>4 DEF OnceOK
  <2>4. \A d \in Ahead(frames, subdirs) : \A o \in contents'[d] : <<d, o>> \in placed
    <3>1. Ahead(frames, subdirs) \subseteq Dirs
      BY DEF Ahead
    <3> QED
      BY <1>1, <1>6, <3>1 DEF OnceOK
  <2> QED
    BY <1>2, <1>7, <2>1, <2>2, <2>3, <2>4 DEF OnceOK
<1>11. MissesNothing'
  <2> SUFFICES ASSUME NEW d \in Dirs, NEW o \in Objects, <<d, o>> \in stayed
               PROVE  /\ d \in Attached /\ o \in contents'[d]
                      /\ \/ <<d, o>> \in Range(visited)
                         \/ \E i \in DOMAIN frames' : d = frames'[i].dir /\ o \in frames'[i].objs
                         \/ d \in Ahead(frames, subdirs)
    BY <1>2, <1>6, <1>7 DEF MissesNothing
  <2>1. /\ d \in Attached /\ o \in contents[d]
        /\ \/ <<d, o>> \in Range(visited)
           \/ \E i \in DOMAIN frames : d = frames[i].dir /\ o \in frames[i].objs
           \/ d \in Ahead(frames, subdirs)
    BY <1>1 DEF MissesNothing
  <2>2. frames[l].objs = {}
    BY <1>1, <1>2 DEF FramesOK
  <2> QED
    BY <1>3, <1>5, <1>6, <2>1, <2>2
<1> QED
  BY <1>1, <1>2, <1>6, <1>8, <1>9, <1>10, <1>11 DEF IterationInv

LEMMA IterationRests ==
  ASSUME IterationInv, UNCHANGED <<storage, iteration>>
  PROVE  IterationInv' /\ UNCHANGED NS!vars
<1>1. IInv /\ UNCHANGED <<storage, mode, frames, visited, calling, placed, stayed>>
  BY DEF IterationInv, iteration
<1>2. IInv' /\ IsIdle' = IsIdle /\ UNCHANGED NS!vars /\ Attached' = Attached
  BY <1>1, StorageRests
<1>3. UNCHANGED <<subdirs, contents, heap, parent>>
  BY <1>1 DEF storage, tree
<1>4. Ahead(frames, subdirs)' = Ahead(frames, subdirs) /\ VisitedDirs' = VisitedDirs
  BY <1>1, <1>3 DEF Ahead, IsAhead, VisitedDirs
<1>5. PhaseOK'
  BY <1>1, <1>2 DEF PhaseOK, IterationInv
<1>6. FramesOK'
  BY <1>1, <1>3 DEF FramesOK, IterationInv
<1>7. OnceOK'
  BY <1>1, <1>3, <1>4 DEF OnceOK, IterationInv
<1>8. MissesNothing'
  BY <1>1, <1>2, <1>3, <1>4 DEF MissesNothing, IterationInv
<1> QED
  BY <1>1, <1>2, <1>5, <1>6, <1>7, <1>8 DEF IterationInv

LEMMA IterateNextInv ==
  IterationInv /\ [IterateNext]_<<storage, iteration>>
    => IterationInv' /\ [NS!Next]_(NS!vars)
<1> SUFFICES ASSUME IterationInv, [IterateNext]_<<storage, iteration>>
             PROVE  IterationInv' /\ [NS!Next]_(NS!vars)
  OBVIOUS
<1>1. CASE UNCHANGED <<storage, iteration>>
  BY <1>1, IterationRests
<1>2. CASE Paths \/ Build \/ Begin \/ Change \/ Again
  BY <1>2, PathsKeepInv, BuildKeepsInv, BeginKeepsInv, ChangeKeepsInv, AgainKeepsInv
<1>3. CASE CallFunction \/ FunctionReturnsTrue \/ FunctionReturnsFalse
  BY <1>3, CallFunctionKeepsInv, ReturnsTrueKeepsInv, ReturnsFalseKeepsInv
<1>4. CASE TakeSubdirs \/ Descend \/ Leave
  BY <1>4, TakeSubdirsKeepsInv, DescendKeepsInv, LeaveKeepsInv
<1> QED
  BY <1>1, <1>2, <1>3, <1>4 DEF IterateNext

\* Of every state of an iteration: IterationIsComplete.
LEMMA CompleteWhenInv == IterationInv => IterationIsComplete
<1> SUFFICES ASSUME IterationInv PROVE IterationIsComplete
  OBVIOUS
<1>1. IInv /\ PhaseOK /\ FramesOK /\ OnceOK /\ MissesNothing /\ stayed \subseteq Dirs \X Objects
  BY DEF IterationInv
<1>2. ASSUME mode = "complete" PROVE stayed \subseteq Range(visited)
  <2>1. frames = <<>> /\ DOMAIN frames = {}
    BY <1>1, <1>2 DEF PhaseOK
  <2>2. Ahead(frames, subdirs) = {}
    BY <2>1, NothingAhead
  <2> SUFFICES ASSUME NEW v \in stayed PROVE v \in Range(visited)
    OBVIOUS
  <2>3. PICK d \in Dirs, o \in Objects : v = <<d, o>>
    BY <1>1
  <2> QED
    BY <1>1, <1>2, <2>1, <2>2, <2>3 DEF MissesNothing
<1>3. IsInjective(visited) /\ Range(visited) \subseteq placed
  BY <1>1 DEF OnceOK
<1>4. ASSUME NEW f \in Range(frames)
      PROVE  {f.dir} \union (f.subs \ {NoDir}) \subseteq heap
  <2>1. PICK i \in DOMAIN frames : f = frames[i]
    BY DEF Range
  <2> QED
    BY <1>1, <2>1 DEF FramesOK, NotTaken
<1> QED
  BY <1>2, <1>3, <1>4 DEF IterationIsComplete

\* The invariant of iterations.
THEOREM IterationsKeepInv == IterateSpec => []IterationInv
<1>1. IterateInit => IterationInv
  BY IterateInitInv
<1>2. IterationInv /\ [IterateNext]_<<storage, iteration>> => IterationInv'
  BY IterateNextInv
<1> QED
  BY <1>1, <1>2, PTL DEF IterateSpec

\* iterate() calls the function for every object that stays, for each object of
\* a directory once, only for what was in the storage, and never in a directory
\* that was destroyed, however the function changes the storage meanwhile.
THEOREM IterationsAreComplete == IterateSpec => []IterationIsComplete
BY IterationsKeepInv, CompleteWhenInv, PTL

\* What holds of a storage that follows paths holds of one whose directories
\* the copies of iterate() keep alive too: the current directory stays in the
\* tree and no two directories have one path.
THEOREM IterationsKeepTheTree ==
  IterateSpec => [](TypeOK /\ CurrentAttached /\ PathsAreUnique)
<1>1. IterationInv => TypeOK /\ CurrentAttached /\ PathsAreUnique
  BY UniqueFromShape DEF IInv, IterationInv
<1> QED
  BY <1>1, IterationsKeepInv, PTL

\* Storage keeps the promise of the name space in every iteration, too.
THEOREM IterationsRefine == IterateSpec => ImplementsNamespace
<1>1. IterateInit => NS!Init
  BY InitImplements DEF IterateInit
<1>2. IterationInv /\ [IterateNext]_<<storage, iteration>> => [NS!Next]_(NS!vars)
  BY IterateNextInv
<1> QED
  BY <1>1, <1>2, IterationsKeepInv, PTL DEF IterateSpec, ImplementsNamespace, NS!Spec

\* Of a step of an iteration, or of one that follows a path.
LEMMA IterateWalks ==
  IterationInv /\ WalkInv /\ [IterateNext]_<<storage, iteration>>
    => /\ WalkInv'
       /\ [(Walking /\ IsIdle') =>
             IF call.phase = "create" THEN Way(call.arg)[Len(call.arg.comps)] = Above
             ELSE call.op # "add" /\ ~PathExists(call.arg)]_vars
<1> SUFFICES ASSUME IterationInv, WalkInv, [IterateNext]_<<storage, iteration>>
             PROVE  /\ WalkInv'
                    /\ [(Walking /\ IsIdle') =>
                          IF call.phase = "create" THEN Way(call.arg)[Len(call.arg.comps)] = Above
                          ELSE call.op # "add" /\ ~PathExists(call.arg)]_vars
  OBVIOUS
<1>1. CASE Paths \/ UNCHANGED <<storage, iteration>>
  <2>1. IInv /\ [Next]_vars
    BY <1>1 DEF Paths, IterationInv, storage, tree, vars
  <2> QED
    BY <2>1, NextWalkInv, GivesUpRightly
<1>2. CASE ~(Paths \/ UNCHANGED <<storage, iteration>>)
  <2>1. mode # "paths" /\ mode' # "paths"
    <3>1. mode \in {"paths", "before", "on", "stopped", "complete"} /\ (calling => mode = "on")
      BY DEF IterationInv, PhaseOK
    <3> QED
      BY <1>2, <3>1 DEF IterateNext, Build, Begin, Change, CallFunction, FunctionReturnsTrue,
         FunctionReturnsFalse, TakeSubdirs, Descend, Leave, Again, InFrame, iteration
  <2>2. IterationInv'
    BY IterateNextInv
  <2>3. IsIdle /\ IsIdle'
    BY <2>1, <2>2 DEF IterationInv, PhaseOK
  <2> QED
    BY <2>3 DEF WalkInv, Walking, IsIdle
<1> QED
  BY <1>1, <1>2

\* And so in a storage that is also iterated over.
THEOREM IterationsWalkRightly == IterateSpec => WalksGiveUpRightly
<1>1. IterateInit => WalkInv
  BY DEF IterateInit, Init, Idle, WalkInv, IsIdle
<1> QED
  BY <1>1, IterateWalks, IterationsKeepInv, PTL DEF IterateSpec, WalksGiveUpRightly
=============================================================================
