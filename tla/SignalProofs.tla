----------------------------- MODULE SignalProofs -----------------------------
(***************************************************************************)
(* For any targets, objects and depth of emissions: what a vector of       *)
(* callbacks keeps while callbacks change it, and what an emission has     *)
(* called.                                                                 *)
(***************************************************************************)
EXTENDS Signal, FiniteSetTheorems, SequenceTheorems, TLAPS

Frames ==
  [next : Nat, end : Nat, running : BOOLEAN, dangling : BOOLEAN,
   expected : Seq(Targets), called : Seq(Targets), disturbed : BOOLEAN]

TypeOK ==
  /\ store \in Seq(Conns) /\ size \in 0 .. Len(store) /\ capacity \in Nat
  /\ target \in [Conns -> Targets \cup {Freed}]
  /\ emissions \in Seq(Frames)
  /\ undefined \in BOOLEAN

\* Iterators that do not dangle point into the storage.
InStorage(f) == f.next > 0 /\ (~f.dangling => f.end <= Len(store))

\* An emission that nothing has disturbed walks the elements it found, which
\* still call what they called, and has called those before its iterator.
OnItsWay(f) ==
  ~f.disturbed =>
    /\ ~f.dangling
    /\ f.end = Len(f.expected) /\ f.end <= size
    /\ \A i \in 1 .. f.end : target[store[i]] = f.expected[i]
    /\ f.next <= f.end + 1 /\ (f.running => f.next <= f.end)
    /\ Len(f.called) = IF f.running THEN f.next ELSE f.next - 1
    /\ \A i \in 1 .. Len(f.called) : f.called[i] = f.expected[i]

FramesOK ==
  /\ \A k \in DOMAIN emissions : InStorage(emissions[k]) /\ OnItsWay(emissions[k])
  /\ \A k \in DOMAIN emissions : k < Len(emissions) => emissions[k].running
  /\ undefined => emissions # <<>> /\ Top.disturbed

IInv == TypeOK /\ ConnectedOnce /\ FramesOK
-----------------------------------------------------------------------------
(***************************************************************************)
(* Among finitely many numbers, each rank up to their count is taken.      *)
(***************************************************************************)
LEMMA RanksAreTaken ==
  ASSUME NEW n \in Nat, NEW K \in SUBSET (1 .. n)
  PROVE  /\ Cardinality(K) \in 0 .. n
         /\ \A j \in 1 .. Cardinality(K) : \E i \in K : Cardinality({k \in K : k <= i}) = j
<1> DEFINE upTo(i) == {k \in K : k <= i}
           rank == [i \in K |-> Cardinality(upTo(i))]
<1>0. \A k \in K : k \in Nat
  OBVIOUS
<1>1. IsFiniteSet(K) /\ Cardinality(K) \in 0 .. n
  <2>1. IsFiniteSet(1 .. n) /\ Cardinality(1 .. n) = n
    BY FS_Interval
  <2>2. IsFiniteSet(K) /\ Cardinality(K) <= n
    BY <2>1, FS_Subset
  <2>3. QED
    BY <2>2, FS_CardinalityType
<1>2. ASSUME NEW i \in K
      PROVE  IsFiniteSet(upTo(i)) /\ Cardinality(upTo(i)) \in 1 .. Cardinality(K)
  <2>1. IsFiniteSet(upTo(i)) /\ Cardinality(upTo(i)) <= Cardinality(K)
    BY <1>1, FS_Subset
  <2>2. upTo(i) # {}
    BY <1>0
  <2>3. QED
    BY <1>1, <2>1, <2>2, FS_EmptySet, FS_CardinalityType
<1>3. ASSUME NEW i \in K, NEW j \in K, i < j
      PROVE  rank[i] # rank[j]
  <2>0. i \in Nat /\ j \in Nat
    BY <1>0
  <2>1. upTo(i) \in SUBSET upTo(j)
    <3>1. \A k \in K : k <= i => k <= j
      BY <1>0, <1>3, <2>0
    <3>2. QED
      BY <3>1
  <2>2. j \in upTo(j) /\ j \notin upTo(i)
    BY <1>3, <2>0
  <2>3. Cardinality(upTo(i)) # Cardinality(upTo(j))
    BY <1>2, <2>1, <2>2, FS_Subset
  <2>4. QED
    BY <2>3
<1>4. rank \in Injection(K, 1 .. Cardinality(K))
  <2>1. \A i, j \in K : rank[i] = rank[j] => i = j
    BY <1>3
  <2>2. QED
    BY <1>2, <2>1 DEF Injection, IsInjective
<1>5. rank \in Surjection(K, 1 .. Cardinality(K))
  <2>1. IsFiniteSet(1 .. Cardinality(K)) /\ Cardinality(1 .. Cardinality(K)) = Cardinality(K)
    BY <1>1, FS_Interval
  <2>2. QED
    BY <1>4, <2>1, FS_Injection
<1>6. QED
  BY <1>1, <1>5 DEF Surjection

(***************************************************************************)
(* The elements that erase() keeps are at different places of the vector   *)
(* (disconnect(), Signal.h:435-450).                                       *)
(***************************************************************************)
LEMMA KeptElements ==
  ASSUME TypeOK, NEW K \in SUBSET (1 .. size)
  PROVE  /\ ElementsAt(K) \in Seq(Conns) /\ Len(ElementsAt(K)) \in 0 .. size
         /\ \E place \in [1 .. Len(ElementsAt(K)) -> K] :
              /\ \A j \in 1 .. Len(ElementsAt(K)) : ElementsAt(K)[j] = store[place[j]]
              /\ \A i, j \in 1 .. Len(ElementsAt(K)) : place[i] = place[j] => i = j
<1> DEFINE n == Cardinality(K)
           rank(i) == Cardinality({k \in K : k <= i})
           place == [j \in 1 .. n |-> CHOOSE i \in K : rank(i) = j]
<1>1. size \in Nat /\ n \in 0 .. size /\ \A j \in 1 .. n : \E i \in K : rank(i) = j
  <2>1. size \in Nat
    BY DEF TypeOK
  <2>2. QED
    BY <2>1, RanksAreTaken
<1>2. \A j \in 1 .. n : place[j] \in K /\ rank(place[j]) = j
  BY <1>1
<1>3. ElementsAt(K) = [j \in 1 .. n |-> store[place[j]]]
  BY DEF ElementsAt
<1>4. \A i \in K : store[i] \in Conns
  BY ElementOfSeq DEF TypeOK
<1> HIDE DEF rank, place, n
<1>5. ElementsAt(K) \in Seq(Conns) /\ Len(ElementsAt(K)) = n
  <2>1. \A j \in 1 .. n : store[place[j]] \in Conns
    BY <1>2, <1>4
  <2>2. [j \in 1 .. n |-> store[place[j]]] \in Seq(Conns)
    BY <1>1, <2>1, IsASeq
  <2>3. QED
    BY <1>1, <1>3, <2>2
<1>6. place \in [1 .. n -> K]
  BY <1>2 DEF place
<1>7. \A i, j \in 1 .. n : place[i] = place[j] => i = j
  BY <1>2
<1>8. QED
  BY <1>1, <1>3, <1>5, <1>6, <1>7
-----------------------------------------------------------------------------
(***************************************************************************)
(* What a step does to the emissions in progress.                          *)
(***************************************************************************)

\* A change of the vector marks every emission; it moves the elements, or it
\* does not make the storage smaller.
LEMMA DisturbedFrames ==
  ASSUME TypeOK, FramesOK, NEW moved \in BOOLEAN,
         emissions' = Disturbed(moved), ~moved => Len(store') >= Len(store),
         Len(store') \in Nat, ~undefined'
  PROVE  emissions' \in Seq(Frames) /\ FramesOK'
<1> DEFINE marked(k) == [emissions[k] EXCEPT !.disturbed = TRUE, !.dangling = @ \/ moved]
<1>1. Len(emissions) \in Nat /\ DOMAIN emissions = 1 .. Len(emissions)
  BY LenProperties DEF TypeOK
<1>2. \A k \in 1 .. Len(emissions) : emissions[k] \in Frames
  BY ElementOfSeq DEF TypeOK
<1>3. \A k \in 1 .. Len(emissions) :
        /\ marked(k) \in Frames
        /\ marked(k).next = emissions[k].next /\ marked(k).end = emissions[k].end
        /\ marked(k).running = emissions[k].running
        /\ marked(k).disturbed /\ marked(k).dangling = (emissions[k].dangling \/ moved)
  BY <1>2 DEF Frames
<1>4. emissions' = [k \in 1 .. Len(emissions) |-> marked(k)]
  BY <1>1 DEF Disturbed
<1> HIDE DEF marked
<1>5. emissions' \in Seq(Frames) /\ DOMAIN emissions' = 1 .. Len(emissions) /\ Len(emissions') = Len(emissions)
  BY <1>1, <1>3, <1>4, IsASeq
<1>6. ASSUME NEW k \in 1 .. Len(emissions)
      PROVE  /\ InStorage(emissions[k])' /\ OnItsWay(emissions[k])'
             /\ emissions'[k].running = emissions[k].running
  <2>1. emissions'[k] = marked(k)
    BY <1>4
  <2>2. InStorage(emissions[k]) /\ emissions[k].end \in Nat /\ Len(store) \in Nat
    BY <1>1, <1>2, LenProperties DEF FramesOK, Frames, TypeOK
  <2>3. ~marked(k).dangling => ~moved /\ ~emissions[k].dangling
    BY <1>3
  <2>4. ~marked(k).dangling => marked(k).end <= Len(store')
    <3>1. ASSUME ~marked(k).dangling
          PROVE  emissions[k].end <= Len(store) /\ Len(store') >= Len(store)
      BY <2>2, <2>3, <3>1 DEF InStorage
    <3>2. QED
      BY <1>3, <2>2, <3>1
  <2>5. marked(k).next > 0
    BY <1>3, <2>2 DEF InStorage
  <2>6. QED
    BY <1>3, <2>1, <2>4, <2>5 DEF InStorage, OnItsWay
<1>7. QED
  BY <1>1, <1>5, <1>6 DEF FramesOK

\* A change that leaves the elements in front as they are marks none.
LEMMA UndisturbedFrames ==
  ASSUME TypeOK, FramesOK, UNCHANGED <<emissions, undefined>>,
         Len(store') \in Nat, Len(store') >= Len(store), size' \in Nat, size' >= size,
         \A i \in 1 .. size : target'[store'[i]] = target[store[i]]
  PROVE  FramesOK'
<1>1. \A k \in DOMAIN emissions : emissions[k].end \in Nat
  <2>1. \A k \in DOMAIN emissions : emissions[k] \in Frames
    BY LenProperties, ElementOfSeq DEF TypeOK
  <2>2. QED
    BY <2>1 DEF Frames
<1>2. ASSUME NEW k \in DOMAIN emissions
      PROVE  InStorage(emissions[k])' /\ OnItsWay(emissions[k])'
  <2>1. InStorage(emissions[k])'
    BY <1>1, LenProperties DEF FramesOK, InStorage, TypeOK
  <2>2. CASE emissions[k].disturbed
    BY <2>1, <2>2 DEF OnItsWay
  <2>3. CASE ~emissions[k].disturbed
    <3>1. OnItsWay(emissions[k]) /\ emissions[k].end <= size
      BY <2>3 DEF FramesOK, OnItsWay
    <3>2. emissions[k].end <= size'
      BY <1>1, <3>1 DEF TypeOK
    <3>3. \A i \in 1 .. emissions[k].end : target'[store'[i]] = emissions[k].expected[i]
      BY <1>1, <2>3, <3>1 DEF OnItsWay, TypeOK
    <3>4. QED
      BY <2>1, <2>3, <3>1, <3>2, <3>3 DEF OnItsWay
  <2>4. QED
    BY <2>2, <2>3
<1>3. QED
  BY <1>2 DEF FramesOK, Top
-----------------------------------------------------------------------------
(***************************************************************************)
(* The steps that change the vector keep the invariant.                    *)
(***************************************************************************)

\* The element added is the last, in the same storage or in a new one.
LEMMA PushBackAdds ==
  ASSUME TypeOK, NEW c \in Conns, PushBack(c)
  PROVE  /\ store' \in Seq(Conns) /\ Len(store') >= size + 1 /\ capacity' \in Nat
         /\ \A i \in 1 .. size : store'[i] = store[i]
         /\ store'[size + 1] = c
<1> USE DEF TypeOK, PushBack
<1>0. size \in Nat /\ Len(store) \in Nat
  OBVIOUS
<1>1. CASE size < capacity /\ size < Len(store)
  <2>1. store' = [store EXCEPT ![size + 1] = c] /\ capacity' = capacity
    BY <1>1
  <2>2. size + 1 \in 1 .. Len(store) /\ store \in Seq(Conns)
    BY <1>0, <1>1
  <2>3. /\ store' \in Seq(Conns) /\ Len(store') = Len(store)
        /\ \A i \in 1 .. Len(store) : store'[i] = IF i = size + 1 THEN c ELSE store[i]
    BY <2>1, <2>2, ExceptSeq, LenProperties
  <2>4. QED
    BY <1>0, <1>1, <2>1, <2>2, <2>3
<1>2. CASE size < capacity /\ ~(size < Len(store))
  <2>1. store' = Append(store, c) /\ capacity' = capacity /\ size = Len(store)
    BY <1>0, <1>2
  <2>2. /\ store' \in Seq(Conns) /\ Len(store') = Len(store) + 1
        /\ \A i \in 1 .. Len(store) : store'[i] = store[i]
        /\ store'[Len(store) + 1] = c
    BY <2>1, AppendProperties
  <2>3. QED
    BY <1>0, <2>1, <2>2
<1>3. CASE ~(size < capacity)
  <2>1. Callbacks \in Seq(Conns) /\ Len(Callbacks) = size /\ \A i \in 1 .. size : Callbacks[i] = store[i]
    BY <1>0, SubSeqProperties DEF Callbacks
  <2>2. store' = Append(Callbacks, c)
    BY <1>3
  <2>3. capacity' \in Nat
    BY <1>3
  <2>4. QED
    BY <1>0, <2>1, <2>2, <2>3, AppendProperties
<1>4. QED
  BY <1>1, <1>2, <1>3

LEMMA ConnectKeepsInv ==
  ASSUME IInv, NEW t \in Targets, Connect(t)
  PROVE  IInv'
<1>1. PICK c \in Conns : /\ target[c] = Freed /\ target' = [target EXCEPT ![c] = t]
                         /\ PushBack(c)
  BY DEF Connect
<1>2. /\ TypeOK /\ ConnectedOnce /\ FramesOK /\ ~undefined /\ size' = size + 1
      /\ UNCHANGED undefined /\ t \notin Connected
  BY DEF IInv, Connect, InUserCode, MayConnect
<1>3. /\ size \in Nat /\ Len(store) \in Nat /\ size <= Len(store)
      /\ \A i \in 1 .. size : store[i] \in Conns
  BY <1>2, ElementOfSeq DEF TypeOK
<1>4. /\ store' \in Seq(Conns) /\ Len(store') >= size + 1 /\ capacity' \in Nat
      /\ \A i \in 1 .. size : store'[i] = store[i]
      /\ store'[size + 1] = c
  BY <1>1, <1>2, PushBackAdds
<1>5. \A i \in 1 .. size : /\ store[i] # c /\ target[store[i]] # t
                           /\ target'[store'[i]] = target[store[i]]
  <2>1. \A i \in 1 .. size : target[store[i]] # Freed /\ target[store[i]] # t
    BY <1>2 DEF ConnectedOnce, Connected
  <2>2. QED
    BY <1>1, <1>2, <1>3, <1>4, <2>1 DEF TypeOK
<1>6. target' \in [Conns -> Targets \cup {Freed}] /\ target'[store'[size + 1]] = t
  BY <1>1, <1>2, <1>4 DEF TypeOK
<1>7. ConnectedOnce'
  <2>1. \A i \in 1 .. size' : i \in 1 .. size \/ i = size + 1
    BY <1>2, <1>3
  <2>2. \A i \in 1 .. size' : target'[store'[i]] # Freed
    BY <1>2, <1>5, <1>6, <2>1, SignalAssumption DEF ConnectedOnce, Connected, SignalAssumption
  <2>3. \A i, j \in 1 .. size' : target'[store'[i]] = target'[store'[j]] => i = j
    BY <1>2, <1>5, <1>6, <2>1 DEF ConnectedOnce
  <2>4. QED
    BY <2>2, <2>3 DEF ConnectedOnce, Connected
<1>8. Len(store') \in Nat
  BY <1>4, LenProperties
<1>9. emissions' \in Seq(Frames) /\ FramesOK'
  <2>1. CASE size < capacity
    <3>1. UNCHANGED emissions
      BY <1>1, <2>1 DEF PushBack
    <3>2. Len(store') >= Len(store)
      BY <1>1, <1>2, <2>1, <1>3, <1>8, ExceptSeq, AppendProperties DEF PushBack, TypeOK
    <3>3. size' \in Nat /\ size' >= size
      BY <1>2, <1>3
    <3>4. FramesOK'
      BY <1>2, <1>5, <1>8, <3>1, <3>2, <3>3, UndisturbedFrames
    <3>5. QED
      BY <1>2, <3>1, <3>4 DEF TypeOK
  <2>2. CASE ~(size < capacity)
    BY <1>1, <1>2, <1>8, <2>2, DisturbedFrames DEF PushBack
  <2>3. QED
    BY <2>1, <2>2
<1>10. TypeOK'
  BY <1>2, <1>3, <1>4, <1>6, <1>8, <1>9 DEF TypeOK
<1>11. QED
  BY <1>7, <1>9, <1>10 DEF IInv

\* disconnect() of a target or of all methods of an object.
LEMMA EraseKeepsInv ==
  ASSUME IInv, InUserCode, NEW T, Freed \notin T, EraseAll(T), UNCHANGED <<capacity, undefined>>
  PROVE  IInv'
<1> DEFINE K == {i \in 1 .. size : target[store[i]] \notin T}
           kept == ElementsAt(K)
<1>1. TypeOK /\ ConnectedOnce /\ FramesOK /\ ~undefined /\ K \in SUBSET (1 .. size)
  BY DEF IInv, InUserCode
<1>2. /\ size \in Nat /\ Len(store) \in Nat /\ size <= Len(store) /\ DOMAIN store = 1 .. Len(store)
      /\ \A i \in 1 .. Len(store) : store[i] \in Conns
  BY <1>1, ElementOfSeq, LenProperties DEF TypeOK
<1>3. kept \in Seq(Conns) /\ Len(kept) \in 0 .. size
  BY <1>1, KeptElements
<1>4. PICK place \in [1 .. Len(kept) -> K] :
        /\ \A j \in 1 .. Len(kept) : kept[j] = store[place[j]]
        /\ \A i, j \in 1 .. Len(kept) : place[i] = place[j] => i = j
  BY <1>1, KeptElements
<1> HIDE DEF kept
<1>5. /\ size' = Len(kept)
      /\ store' = [i \in 1 .. Len(store) |->
                     IF i <= Len(kept) THEN kept[i]
                     ELSE IF i <= size THEN store[size] ELSE store[i]]
      /\ target' = [c \in Conns |-> IF target[c] \in T THEN Freed ELSE target[c]]
      /\ emissions' = Disturbed(FALSE)
  BY <1>2 DEF EraseAll, kept
<1>6. store' \in Seq(Conns) /\ Len(store') = Len(store)
  <2>1. \A i \in 1 .. Len(kept) : kept[i] \in Conns
    BY <1>3, ElementOfSeq
  <2>2. \A i \in 1 .. Len(store) : store'[i] \in Conns
    BY <1>2, <1>3, <1>5, <2>1
  <2>3. QED
    BY <1>2, <1>5, <2>2, IsASeq
<1>7. target' \in [Conns -> Targets \cup {Freed}]
  BY <1>1, <1>5 DEF TypeOK
<1>8. emissions' \in Seq(Frames) /\ FramesOK'
  <2>1. Len(store') \in Nat /\ (~FALSE => Len(store') >= Len(store)) /\ ~undefined'
    BY <1>1, <1>2, <1>6
  <2>2. QED
    BY <1>1, <1>5, <2>1, DisturbedFrames
<1>9. \A j \in 1 .. size' : target'[store'[j]] = target[store[place[j]]]
  <2>1. ASSUME NEW j \in 1 .. size'
        PROVE  target'[store'[j]] = target[store[place[j]]]
    <3>1. store'[j] = store[place[j]]
      BY <1>2, <1>3, <1>4, <1>5
    <3>2. place[j] \in K /\ place[j] \in 1 .. Len(store)
      BY <1>2, <1>4, <1>5
    <3>3. QED
      BY <1>2, <1>5, <3>1, <3>2
  <2>2. QED
    BY <2>1
<1>10. ConnectedOnce'
  <2>1. \A i \in 1 .. size' : place[i] \in 1 .. size
    BY <1>4, <1>5
  <2>2. ASSUME NEW i \in 1 .. size', NEW j \in 1 .. size', target'[store'[i]] = target'[store'[j]]
        PROVE  i = j
    <3>1. target[store[place[i]]] = target[store[place[j]]]
      BY <1>9, <2>2
    <3>2. place[i] = place[j]
      BY <1>1, <2>1, <3>1 DEF ConnectedOnce
    <3>3. QED
      BY <1>4, <1>5, <3>2
  <2>3. \A i \in 1 .. size' : target'[store'[i]] # Freed
    BY <1>1, <1>9, <2>1 DEF ConnectedOnce, Connected
  <2>4. QED
    BY <2>2, <2>3 DEF ConnectedOnce, Connected
<1>11. size' \in 0 .. Len(store') /\ capacity' \in Nat /\ undefined' \in BOOLEAN
  BY <1>1, <1>2, <1>3, <1>5, <1>6 DEF TypeOK
<1>12. QED
  BY <1>6, <1>7, <1>8, <1>10, <1>11 DEF IInv, TypeOK

LEMMA DisconnectAllKeepsInv ==
  ASSUME IInv, DisconnectAll
  PROVE  IInv'
<1>1. TypeOK /\ FramesOK /\ ~undefined /\ Len(store) \in Nat
  BY LenProperties DEF IInv, TypeOK, DisconnectAll, InUserCode
<1>2. /\ size' = 0 /\ target' = [c \in Conns |-> Freed]
      /\ emissions' = Disturbed(FALSE) /\ UNCHANGED <<store, capacity, undefined>>
  BY DEF DisconnectAll
<1>3. emissions' \in Seq(Frames) /\ FramesOK'
  <2>1. Len(store') \in Nat /\ (~FALSE => Len(store') >= Len(store)) /\ ~undefined'
    BY <1>1, <1>2
  <2>2. QED
    BY <1>1, <1>2, <2>1, DisturbedFrames
<1>4. TypeOK'
  <2>1. size' \in 0 .. Len(store') /\ target' \in [Conns -> Targets \cup {Freed}]
    BY <1>1, <1>2
  <2>2. QED
    BY <1>1, <1>2, <1>3, <2>1 DEF TypeOK
<1>5. ConnectedOnce'
  BY <1>2 DEF ConnectedOnce, Connected
<1>6. QED
  BY <1>3, <1>4, <1>5 DEF IInv
-----------------------------------------------------------------------------
(***************************************************************************)
(* The steps of emit() keep the invariant.                                 *)
(***************************************************************************)

\* One emission becomes another, the vector stays.
LEMMA TopReplaced ==
  ASSUME TypeOK, emissions # <<>>, NEW f \in Frames, SetTop(f)
  PROVE  /\ emissions' \in Seq(Frames) /\ Len(emissions') = Len(emissions) /\ Len(emissions) \in Nat \ {0}
         /\ DOMAIN emissions' = DOMAIN emissions /\ DOMAIN emissions = 1 .. Len(emissions)
         /\ emissions'[Len(emissions)] = f
         /\ \A k \in 1 .. Len(emissions) : k # Len(emissions) => emissions'[k] = emissions[k]
<1>1. Len(emissions) \in Nat \ {0} /\ DOMAIN emissions = 1 .. Len(emissions)
  BY LenProperties, EmptySeq DEF TypeOK
<1>2. Len(emissions) \in 1 .. Len(emissions) /\ emissions \in Seq(Frames)
  BY <1>1 DEF TypeOK
<1>3. /\ emissions' \in Seq(Frames) /\ Len(emissions') = Len(emissions)
      /\ \A k \in 1 .. Len(emissions) : emissions'[k] = IF k = Len(emissions) THEN f ELSE emissions[k]
  BY <1>1, <1>2, ExceptSeq DEF SetTop
<1>4. QED
  BY <1>1, <1>2, <1>3, LenProperties

\* ... and keeps the invariant if the new one is on its way.
LEMMA TopKeepsInv ==
  ASSUME IInv, emissions # <<>>, NEW f \in Frames, SetTop(f), ~undefined,
         InStorage(f), OnItsWay(f), UNCHANGED <<vector, undefined>>
  PROVE  IInv'
<1>1. TypeOK /\ FramesOK
  BY DEF IInv
<1>2. /\ emissions' \in Seq(Frames) /\ Len(emissions') = Len(emissions) /\ Len(emissions) \in Nat \ {0}
      /\ DOMAIN emissions' = DOMAIN emissions /\ DOMAIN emissions = 1 .. Len(emissions)
      /\ emissions'[Len(emissions)] = f
      /\ \A k \in 1 .. Len(emissions) : k # Len(emissions) => emissions'[k] = emissions[k]
  BY <1>1, TopReplaced
<1>3. TypeOK' /\ ConnectedOnce'
  BY <1>1, <1>2 DEF TypeOK, vector, IInv, ConnectedOnce, Connected
<1>4. ASSUME NEW k \in DOMAIN emissions'
      PROVE  /\ InStorage(emissions[k])' /\ OnItsWay(emissions[k])'
             /\ k < Len(emissions') => emissions'[k].running
  <2> UNCHANGED <<store, size, target>>
    BY DEF vector
  <2>1. CASE k = Len(emissions)
    <3>1. emissions'[k] = f
      BY <1>2, <2>1
    <3>2. ~(k < Len(emissions'))
      <4>1. Len(emissions') = Len(emissions) /\ Len(emissions) \in Nat
        BY <1>2
      <4>2. QED
        BY <2>1, <4>1
    <3>3. QED
      BY <3>1, <3>2 DEF InStorage, OnItsWay
  <2>2. CASE k # Len(emissions)
    <3>1. emissions'[k] = emissions[k] /\ k \in DOMAIN emissions /\ Len(emissions') = Len(emissions)
      BY <1>2, <2>2
    <3>2. InStorage(emissions[k]) /\ OnItsWay(emissions[k]) /\ (k < Len(emissions) => emissions[k].running)
      BY <1>1, <3>1 DEF FramesOK
    <3>3. QED
      BY <3>1, <3>2 DEF InStorage, OnItsWay
  <2>3. QED
    BY <2>1, <2>2
<1>5. FramesOK'
  BY <1>4 DEF FramesOK
<1>6. QED
  BY <1>3, <1>5 DEF IInv

\* The innermost emission.
LEMMA TopIsAFrame ==
  ASSUME IInv, emissions # <<>>
  PROVE  /\ Top \in Frames /\ InStorage(Top) /\ OnItsWay(Top)
         /\ Len(emissions) \in DOMAIN emissions /\ Top = emissions[Len(emissions)]
<1>1. Len(emissions) \in DOMAIN emissions /\ emissions \in Seq(Frames)
  BY LenProperties, EmptySeq DEF IInv, TypeOK
<1>2. QED
  BY <1>1, ElementOfSeq DEF Top, Last, IInv, FramesOK

LEMMA EmitKeepsInv ==
  ASSUME IInv, Emit
  PROVE  IInv'
<1> DEFINE targets == [i \in 1 .. size |-> target[store[i]]]
<1>1. TypeOK /\ ConnectedOnce /\ FramesOK /\ ~undefined /\ (emissions # <<>> => Top.running)
  BY DEF IInv, Emit, InUserCode, Emitting
<1>2. /\ size \in Nat /\ Len(store) \in Nat /\ size <= Len(store) /\ Len(emissions) \in Nat
      /\ DOMAIN emissions = 1 .. Len(emissions) /\ (Len(emissions) # 0 => emissions # <<>>)
      /\ \A i \in 1 .. size : store[i] \in Conns
  BY <1>1, ElementOfSeq, LenProperties, EmptySeq DEF TypeOK
<1>3. \A i \in 1 .. size : target[store[i]] \in Targets
  BY <1>1, <1>2 DEF ConnectedOnce, Connected, TypeOK
<1>4. /\ targets \in Seq(Targets) /\ Len(targets) = size
      /\ \A i \in 1 .. size : targets[i] = target[store[i]]
  BY <1>2, <1>3, IsASeq
<1>5. NewFrame = [next |-> 1, end |-> size, running |-> FALSE, dangling |-> FALSE,
                  expected |-> targets, called |-> <<>>, disturbed |-> FALSE]
  BY DEF NewFrame
<1> HIDE DEF targets
<1>6. NewFrame \in Frames
  BY <1>2, <1>4, <1>5, EmptySeq DEF Frames
<1>7. InStorage(NewFrame) /\ OnItsWay(NewFrame)
  BY <1>2, <1>4, <1>5, EmptySeq DEF InStorage, OnItsWay
<1>8. /\ emissions' \in Seq(Frames) /\ Len(emissions') = Len(emissions) + 1
      /\ DOMAIN emissions' = 1 .. Len(emissions) + 1
      /\ \A k \in 1 .. Len(emissions) : emissions'[k] = emissions[k]
      /\ emissions'[Len(emissions) + 1] = NewFrame
  <2>1. emissions' = Append(emissions, NewFrame) /\ emissions \in Seq(Frames)
    BY <1>1 DEF Emit, TypeOK
  <2>2. QED
    BY <1>2, <1>6, <2>1, AppendProperties, LenProperties
<1>9. UNCHANGED <<store, size, capacity, target, undefined>>
  BY DEF Emit, vector
<1>10. ASSUME NEW k \in DOMAIN emissions'
       PROVE  /\ InStorage(emissions[k])' /\ OnItsWay(emissions[k])'
              /\ k < Len(emissions') => emissions'[k].running
  <2>1. CASE k = Len(emissions) + 1
    BY <1>2, <1>7, <1>8, <1>9, <2>1 DEF InStorage, OnItsWay
  <2>2. CASE k \in 1 .. Len(emissions)
    <3>1. emissions[k].running
      BY <1>1, <1>2, <2>2 DEF FramesOK, Top, Last
    <3>2. InStorage(emissions[k])' /\ OnItsWay(emissions[k])'
      BY <1>1, <1>2, <1>8, <1>9, <2>2 DEF FramesOK, InStorage, OnItsWay
    <3>3. QED
      BY <1>8, <2>2, <3>1, <3>2
  <2>3. QED
    BY <1>2, <1>8, <2>1, <2>2
<1>11. FramesOK'
  BY <1>1, <1>9, <1>10 DEF FramesOK
<1>12. TypeOK' /\ ConnectedOnce'
  BY <1>1, <1>8, <1>9 DEF TypeOK, ConnectedOnce, Connected
<1>13. QED
  BY <1>11, <1>12 DEF IInv

LEMMA CallKeepsInv ==
  ASSUME IInv, Call
  PROVE  IInv'
<1> DEFINE t == target[store[Top.next]]
           f == [Top EXCEPT !.running = TRUE, !.called = Append(@, t)]
<1>1. TypeOK /\ ConnectedOnce /\ FramesOK /\ emissions # <<>> /\ ~undefined
  BY DEF IInv, Call, Looping, Emitting
<1>2. /\ Top \in Frames /\ InStorage(Top) /\ OnItsWay(Top)
      /\ ~Top.running /\ ~Top.dangling /\ Top.next <= Top.end
  <2>1. Top \in Frames /\ InStorage(Top) /\ OnItsWay(Top)
    BY <1>1, TopIsAFrame
  <2>2. ~Top.running /\ ~Top.dangling /\ ~(Top.next > Top.end) /\ Top.next \in Nat /\ Top.end \in Nat
    BY <2>1 DEF Call, Looping, AtEnd, Frames
  <2>3. QED
    BY <2>1, <2>2
<1>3. /\ Top.next \in Nat /\ Top.end \in Nat /\ Top.next \in 1 .. Len(store)
      /\ Top.called \in Seq(Targets) /\ Top.expected \in Seq(Targets) /\ size \in Nat
  BY <1>1, <1>2, LenProperties DEF Frames, InStorage, TypeOK
<1>4. store[Top.next] \in Conns /\ t \in Targets \cup {Freed}
  BY <1>1, <1>3, ElementOfSeq DEF TypeOK
<1>5. UNCHANGED <<store, size, capacity, target>>
  BY DEF Call, vector
<1>6. CASE t = Freed
  <2>1. undefined' = TRUE /\ UNCHANGED emissions
    BY <1>6 DEF Call
  <2>2. Top.disturbed
    <3>1. SUFFICES ASSUME ~Top.disturbed PROVE FALSE
      BY <1>2 DEF Frames
    <3>2. Top.next \in 1 .. size
      BY <1>2, <1>3, <3>1 DEF OnItsWay
    <3>3. QED
      BY <1>1, <1>6, <3>2 DEF ConnectedOnce, Connected
  <2>3. FramesOK'
    BY <1>1, <1>5, <2>1, <2>2 DEF FramesOK, InStorage, OnItsWay, Top
  <2>4. QED
    BY <1>1, <1>5, <2>1, <2>3 DEF IInv, TypeOK, ConnectedOnce, Connected
<1>7. CASE t # Freed
  <2>1. SetTop(f) /\ UNCHANGED undefined /\ t \in Targets
    BY <1>4, <1>7 DEF Call
  <2>2. /\ Append(Top.called, t) \in Seq(Targets) /\ Len(Top.called) \in Nat
        /\ Len(Append(Top.called, t)) = Len(Top.called) + 1
        /\ \A i \in 1 .. Len(Top.called) : Append(Top.called, t)[i] = Top.called[i]
        /\ Append(Top.called, t)[Len(Top.called) + 1] = t
    BY <1>3, <2>1, AppendProperties, LenProperties
  <2>3. /\ f \in Frames /\ f.next = Top.next /\ f.end = Top.end /\ f.running
        /\ f.dangling = Top.dangling /\ f.disturbed = Top.disturbed
        /\ f.expected = Top.expected /\ f.called = Append(Top.called, t)
    BY <1>2, <2>2 DEF Frames
  <2> HIDE DEF f
  <2>4. InStorage(f)
    BY <1>2, <2>3 DEF InStorage
  <2>5. OnItsWay(f)
    <3>1. SUFFICES ASSUME ~f.disturbed
                   PROVE  /\ ~f.dangling
                          /\ f.end = Len(f.expected) /\ f.end <= size
                          /\ \A i \in 1 .. f.end : target[store[i]] = f.expected[i]
                          /\ f.next <= f.end + 1 /\ (f.running => f.next <= f.end)
                          /\ Len(f.called) = IF f.running THEN f.next ELSE f.next - 1
                          /\ \A i \in 1 .. Len(f.called) : f.called[i] = f.expected[i]
      BY DEF OnItsWay
    <3>2. /\ Top.end = Len(Top.expected) /\ Top.end <= size
          /\ \A i \in 1 .. Top.end : target[store[i]] = Top.expected[i]
          /\ Len(Top.called) = Top.next - 1
          /\ \A i \in 1 .. Len(Top.called) : Top.called[i] = Top.expected[i]
      BY <1>2, <2>3, <3>1 DEF OnItsWay
    <3>3. Len(f.called) = f.next /\ f.next <= f.end
      BY <1>2, <1>3, <2>2, <2>3, <3>2
    <3>4. t = Top.expected[Top.next]
      BY <1>2, <1>3, <3>2
    <3>5. ASSUME NEW i \in 1 .. Len(f.called)
          PROVE  f.called[i] = f.expected[i]
      <4>1. i \in 1 .. Len(Top.called) \/ i = Len(Top.called) + 1
        BY <2>2, <2>3
      <4>2. Len(Top.called) + 1 = Top.next
        BY <1>3, <3>2
      <4>3. QED
        BY <2>2, <2>3, <3>2, <3>4, <4>1, <4>2
    <3>6. QED
      BY <1>2, <1>3, <2>3, <3>2, <3>3, <3>5
  <2>6. QED
    BY <1>1, <1>5, <2>1, <2>3, <2>4, <2>5, TopKeepsInv DEF vector
<1>8. QED
  BY <1>6, <1>7

LEMMA UseDanglingIteratorKeepsInv ==
  ASSUME IInv, UseDanglingIterator
  PROVE  IInv'
<1>1. emissions # <<>> /\ Top.dangling /\ undefined' = TRUE /\ UNCHANGED <<vector, emissions>>
  BY DEF UseDanglingIterator, Looping, Emitting
<1>2. Top.disturbed
  BY <1>1, TopIsAFrame DEF OnItsWay
<1>3. FramesOK'
  BY <1>1, <1>2 DEF IInv, FramesOK, InStorage, OnItsWay, Top, vector
<1>4. QED
  BY <1>1, <1>3 DEF IInv, TypeOK, ConnectedOnce, Connected, vector

LEMMA CallbackReturnsKeepsInv ==
  ASSUME IInv, CallbackReturns
  PROVE  IInv'
<1> DEFINE f == [Top EXCEPT !.running = FALSE, !.next = @ + 1]
<1>1. /\ emissions # <<>> /\ ~undefined /\ Top.running /\ SetTop(f)
      /\ UNCHANGED <<vector, undefined>>
  BY DEF CallbackReturns, Emitting
<1>2. Top \in Frames /\ InStorage(Top) /\ OnItsWay(Top) /\ Top.next \in Nat /\ Top.end \in Nat
  BY <1>1, TopIsAFrame DEF Frames
<1>3. /\ f \in Frames /\ f.next = Top.next + 1 /\ f.end = Top.end /\ ~f.running
      /\ f.dangling = Top.dangling /\ f.disturbed = Top.disturbed
      /\ f.expected = Top.expected /\ f.called = Top.called
  <2>1. Top.next + 1 \in Nat
    BY <1>2
  <2>2. DOMAIN Top = {"next", "end", "running", "dangling", "expected", "called", "disturbed"}
    BY <1>2 DEF Frames
  <2>3. /\ f.next = Top.next + 1 /\ f.end = Top.end /\ ~f.running
        /\ f.dangling = Top.dangling /\ f.disturbed = Top.disturbed
        /\ f.expected = Top.expected /\ f.called = Top.called
    BY <2>2
  <2>4. f \in Frames
    BY <1>2, <2>1 DEF Frames
  <2>5. QED
    BY <2>3, <2>4
<1> HIDE DEF f
<1>4. InStorage(f) /\ OnItsWay(f)
  BY <1>1, <1>2, <1>3 DEF InStorage, OnItsWay
<1>5. QED
  BY <1>1, <1>3, <1>4, TopKeepsInv

LEMMA EndEmitKeepsInv ==
  ASSUME IInv, EndEmit
  PROVE  IInv'
<1>1. /\ TypeOK /\ FramesOK /\ ~undefined /\ emissions' = Front(emissions)
      /\ UNCHANGED <<store, size, capacity, target, undefined>>
  BY DEF IInv, EndEmit, Looping, vector
<1>2. /\ emissions \in Seq(Frames) /\ Len(emissions) \in Nat \ {0} /\ DOMAIN emissions = 1 .. Len(emissions)
  BY <1>1, LenProperties, EmptySeq DEF TypeOK, EndEmit, Looping, Emitting
<1>3. /\ emissions' \in Seq(Frames) /\ Len(emissions') = Len(emissions) - 1
      /\ DOMAIN emissions' = 1 .. Len(emissions) - 1
      /\ \A k \in 1 .. Len(emissions) - 1 : emissions'[k] = emissions[k]
  <2>1. 1 \in 1 .. Len(emissions) + 1 /\ Len(emissions) - 1 \in 1 - 1 .. Len(emissions)
    BY <1>2
  <2>2. QED
    BY <1>1, <1>2, <2>1, SubSeqProperties, LenProperties DEF Front
<1>4. FramesOK'
  BY <1>1, <1>2, <1>3 DEF FramesOK, InStorage, OnItsWay
<1>5. TypeOK' /\ ConnectedOnce'
  BY <1>1, <1>3 DEF IInv, TypeOK, ConnectedOnce, Connected
<1>6. QED
  BY <1>4, <1>5 DEF IInv
-----------------------------------------------------------------------------
(***************************************************************************)
(* The elements of the vector, the connections and the emissions have      *)
(* their types, and an emission that nothing disturbed is on its way       *)
(* through the elements it found (emit(), Signal.h:400).                   *)
(***************************************************************************)
THEOREM EmissionsStayOnTheirWay == Spec => []IInv
<1>1. Init => IInv
  <2>1. ASSUME Init PROVE TypeOK
    <3>1. size \in 0 .. Len(store) /\ capacity \in Nat /\ undefined \in BOOLEAN
      <4>1. Len(store) = 0 /\ size = 0 /\ capacity = 0
        BY <2>1 DEF Init
      <4>2. undefined \in BOOLEAN
        BY <2>1 DEF Init
      <4>3. size \in 0 .. Len(store) /\ capacity \in Nat
        BY <4>1
      <4>4. QED
        BY <4>2, <4>3
    <3>2. store \in Seq(Conns) /\ emissions \in Seq(Frames)
      BY <2>1, EmptySeq DEF Init
    <3>3. target \in [Conns -> Targets \cup {Freed}]
      BY <2>1 DEF Init
    <3>4. QED
      BY <3>1, <3>2, <3>3 DEF TypeOK
  <2>2. ASSUME Init PROVE ConnectedOnce /\ FramesOK
    BY <2>2, EmptySeq DEF Init, ConnectedOnce, Connected, FramesOK
  <2>3. QED
    BY <2>1, <2>2 DEF IInv
<1>2. IInv /\ [Next]_vars => IInv'
  <2> SUFFICES ASSUME IInv, [Next]_vars
               PROVE  IInv'
    OBVIOUS
  <2>1. ASSUME NEW t \in Targets, Connect(t)
        PROVE  IInv'
    BY <2>1, ConnectKeepsInv
  <2>2. ASSUME NEW t \in Targets, DisconnectTarget(t)
        PROVE  IInv'
    <3>1. InUserCode /\ EraseAll({t}) /\ UNCHANGED <<capacity, undefined>> /\ Freed \notin {t}
      BY <2>2, SignalAssumption DEF DisconnectTarget, SignalAssumption
    <3>2. QED
      BY <3>1, EraseKeepsInv
  <2>3. ASSUME NEW r \in Receivers, DisconnectReceiver(r)
        PROVE  IInv'
    <3>1. /\ InUserCode /\ EraseAll(MethodsOf(r)) /\ UNCHANGED <<capacity, undefined>>
          /\ Freed \notin MethodsOf(r)
      BY <2>3, SignalAssumption DEF DisconnectReceiver, SignalAssumption, MethodsOf
    <3>2. QED
      BY <3>1, EraseKeepsInv
  <2>4. CASE DisconnectAll
    BY <2>4, DisconnectAllKeepsInv
  <2>5. CASE Emit
    BY <2>5, EmitKeepsInv
  <2>6. CASE Call
    BY <2>6, CallKeepsInv
  <2>7. CASE CallbackReturns
    BY <2>7, CallbackReturnsKeepsInv
  <2>8. CASE UseDanglingIterator
    BY <2>8, UseDanglingIteratorKeepsInv
  <2>9. CASE EndEmit
    BY <2>9, EndEmitKeepsInv
  <2>10. CASE UNCHANGED vars
    BY <2>10 DEF vars, IInv, TypeOK, ConnectedOnce, Connected, FramesOK, InStorage, OnItsWay, Top
  <2>11. QED
    BY <2>1, <2>2, <2>3, <2>4, <2>5, <2>6, <2>7, <2>8, <2>9, <2>10 DEF Next
<1>3. QED
  BY <1>1, <1>2, PTL DEF Spec

(***************************************************************************)
(* No target is connected twice, and no element of the vector is a deleted *)
(* SignalT, whatever callbacks connect and disconnect (connect() and       *)
(* disconnect(), Signal.h:408-506).                                        *)
(***************************************************************************)
THEOREM TargetsStayConnectedOnce == Spec => []ConnectedOnce
<1>1. IInv => ConnectedOnce
  BY DEF IInv
<1>2. QED
  BY <1>1, EmissionsStayOnTheirWay, PTL

(***************************************************************************)
(* An emission during which nothing is disconnected, and the vector does   *)
(* not move, calls all that was connected when it began, once and in       *)
(* order, whatever is emitted and connected in its callbacks; and only     *)
(* after such a change is the behaviour undefined (Signal.h:400).          *)
(***************************************************************************)
THEOREM UndisturbedEmissionsAreComplete == Spec => []EmissionsAreComplete
<1>1. IInv => EmissionsAreComplete
  <2> SUFFICES ASSUME IInv
               PROVE  EmissionsAreComplete
    OBVIOUS
  <2>1. undefined => Top.disturbed
    BY DEF IInv, FramesOK
  <2>2. ASSUME NEW k \in DOMAIN emissions, ~emissions[k].disturbed
        PROVE  /\ IsPrefix(emissions[k].called, emissions[k].expected)
               /\ (k = Len(emissions) /\ Looping /\ AtEnd(emissions[k])) =>
                     emissions[k].called = emissions[k].expected
    <3> DEFINE f == emissions[k]
    <3>1. f \in Frames /\ OnItsWay(f)
      BY <2>2, ElementOfSeq, LenProperties DEF IInv, TypeOK, FramesOK
    <3>2. /\ f.called \in Seq(Targets) /\ f.expected \in Seq(Targets)
          /\ Len(f.called) \in Nat /\ Len(f.expected) \in Nat /\ f.next \in Nat
      BY <3>1, LenProperties DEF Frames
    <3>3. /\ f.end = Len(f.expected) /\ f.next <= f.end + 1 /\ (f.running => f.next <= f.end)
          /\ Len(f.called) = IF f.running THEN f.next ELSE f.next - 1
          /\ \A i \in 1 .. Len(f.called) : f.called[i] = f.expected[i]
      BY <2>2, <3>1 DEF OnItsWay
    <3> HIDE DEF f
    <3>4. Len(f.called) <= Len(f.expected)
      BY <3>2, <3>3
    <3>5. IsPrefix(f.called, f.expected)
      BY <3>2, <3>3, <3>4 DEF IsPrefix
    <3>6. ASSUME k = Len(emissions), Looping, AtEnd(f)
          PROVE  f.called = f.expected
      <4>1. ~f.running /\ f.next > f.end
        BY <3>6 DEF Looping, Top, Last, AtEnd, f
      <4>2. Len(f.called) = Len(f.expected)
        BY <3>2, <3>3, <4>1
      <4>3. QED
        BY <3>2, <3>3, <4>2, SeqEqual
    <3>7. QED
      BY <3>5, <3>6 DEF f
  <2>3. QED
    BY <2>1, <2>2 DEF EmissionsAreComplete
<1>2. QED
  BY <1>1, EmissionsStayOnTheirWay, PTL
=============================================================================
