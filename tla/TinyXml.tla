-------------------------------- MODULE TinyXml --------------------------------
(***************************************************************************)
(* The nodes of TinyXML (tinyxml.cc), which every XML file of the program  *)
(* becomes: each has pointers to its parent, its first and last child and  *)
(* its siblings, and owns its children.  "text" stands for every node that *)
(* is neither an element nor a document, and the attributes of an element  *)
(* are a sequence.                                                         *)
(*                                                                         *)
(* Callers have pointers to all nodes, and delete those without a parent.  *)
(* They link a node once, never below itself, and never assign a node to   *)
(* a part of itself: the code asserts the first and would not end with the *)
(* others.                                                                 *)
(***************************************************************************)
EXTENDS Naturals, SequencesExt, FiniteSetsExt

CONSTANTS
  MaxNodes,    \* bound: nodes that exist at once
  Tags,        \* values of elements
  Text,        \* the value of a text
  Attributes,  \* names of attributes
  Values       \* values of attributes

VARIABLE nodes   \* what each node is, with its pointers

Nodes == 1..MaxNodes
Null == 0

\* A node of a kind and value, on its own; and memory that no node has.
Single(kind, value) ==
  [kind |-> kind, value |-> value, attributes |-> <<>>, error |-> FALSE,
   parent |-> Null, firstChild |-> Null, lastChild |-> Null, prev |-> Null, next |-> Null]
Free == Single("free", "")

Live == {n \in Nodes : nodes[n].kind # "free"}
Spare(ns) == {n \in Nodes : ns[n].kind = "free"}

XmlInit == nodes = [n \in Nodes |-> Free]
-----------------------------------------------------------------------------
(* Walks along pointers.                                                   *)

RECURSIVE Follow(_, _, _, _), Deleted(_, _), Cloned(_, _)

\* The nodes from n along a pointer; a walk that comes back to a node goes on
\* for ever, and is cut.
Follow(ns, n, pointer, steps) ==
  IF n = Null \/ steps = 0 THEN <<>>
  ELSE <<n>> \o Follow(ns, ns[n][pointer], pointer, steps - 1)

Walk(ns, n, pointer) == Follow(ns, n, pointer, MaxNodes + 1)
Children(ns, n) == Walk(ns, ns[n].firstChild, "next")
Ancestry(ns, n) == Walk(ns, n, "parent")

\* FirstChild(value), NextSibling(value) and their kin: the first node of a walk
\* with a value, or the first element.
FirstOf(walk, Is(_)) ==
  LET found == {i \in DOMAIN walk : Is(walk[i])}
  IN  IF found = {} THEN Null ELSE walk[Min(found)]

HasValue(n, v) == nodes[n].value = v
IsElementOf(n, v) == nodes[n].kind = "element" /\ nodes[n].value = v

FirstChild(n, v)      == FirstOf(Walk(nodes, nodes[n].firstChild, "next"), LAMBDA k : HasValue(k, v))
LastChild(n, v)       == FirstOf(Walk(nodes, nodes[n].lastChild, "prev"), LAMBDA k : HasValue(k, v))
NextSibling(n, v)     == FirstOf(Walk(nodes, nodes[n].next, "next"), LAMBDA k : HasValue(k, v))
PreviousSibling(n, v) == FirstOf(Walk(nodes, nodes[n].prev, "prev"), LAMBDA k : HasValue(k, v))

\* NextSiblingElement(value) goes by NextSibling(value) until it is an element.
FirstChildElement(n, v) ==
  FirstOf(Walk(nodes, nodes[n].firstChild, "next"), LAMBDA k : IsElementOf(k, v))
NextSiblingElement(n, v) ==
  FirstOf(Walk(nodes, nodes[n].next, "next"), LAMBDA k : IsElementOf(k, v))

GetDocument(ns, n) == FirstOf(Ancestry(ns, n), LAMBDA m : ns[m].kind = "document")

\* TiXmlHandle::ChildElement(value, count), from 0.
RECURSIVE ElementAfter(_, _, _)
ElementAfter(n, v, count) ==
  IF n = Null \/ count = 0 THEN n ELSE ElementAfter(NextSiblingElement(n, v), v, count - 1)
ChildElement(n, v, count) == ElementAfter(FirstChildElement(n, v), v, count)
-----------------------------------------------------------------------------
(* Changes of pointers.                                                    *)

Set(ns, n, pointer, x) == [ns EXCEPT ![n][pointer] = x]

\* What comes after prev, or first under p; and before next, or last.
SetNext(ns, p, prev, x) ==
  IF prev # Null THEN Set(ns, prev, "next", x) ELSE Set(ns, p, "firstChild", x)
SetPrev(ns, p, next, x) ==
  IF next # Null THEN Set(ns, next, "prev", x) ELSE Set(ns, p, "lastChild", x)

Placed(ns, n, p, prev, next) ==
  [ns EXCEPT ![n].parent = p, ![n].prev = prev, ![n].next = next]

\* n between two siblings, or at an end.
Between(ns, n, p, prev, next) ==
  SetPrev(SetNext(Placed(ns, n, p, prev, next), p, prev, n), p, next, n)

\* The destructor, and Clear(): children are deleted with all below them.
Deleted(ns, n) == [FoldLeft(Deleted, ns, Children(ns, n)) EXCEPT ![n] = Free]

Cleared(ns, n) ==
  [FoldLeft(Deleted, ns, Children(ns, n)) EXCEPT ![n].firstChild = Null, ![n].lastChild = Null]

\* LinkEndChild() of a node, and CopyTo() of the children of t.
LinkedLast(ns, p, n) == Between(ns, n, p, ns[p].lastChild, Null)

Copied(ns, t, n) ==
  FoldLeft(LAMBDA m, k : LET c == Cloned(m, k) IN LinkedLast(c.nodes, n, c.root),
           [ns EXCEPT ![n].value = ns[t].value, ![n].attributes = ns[t].attributes,
                      ![n].error = ns[t].error],
           Children(ns, t))

\* Clone(): a copy, and the nodes with it.
Cloned(ns, t) ==
  LET n == Min(Spare(ns))
  IN  [root |-> n, nodes |-> Copied([ns EXCEPT ![n] = Single(ns[t].kind, "")], t, n)]

\* The nodes of a subtree, and whether there is memory for a copy.
Size(t) == Cardinality({m \in Live : t \in ToSet(Ancestry(nodes, m))})
Fits(t) == Size(t) <= Cardinality(Spare(nodes))

\* A removeThis whose neighbours are joined: the last child is not told.
UnlinkedForward(ns, p, n) == SetNext(ns, p, ns[n].prev, ns[n].next)

Unlinked(ns, p, n) ==
  SetNext(SetPrev(ns, p, ns[n].next, ns[n].prev), p, ns[n].prev, ns[n].next)

\* A refused document is an error of the document it was to be part of.
WithError(p) ==
  LET d == GetDocument(nodes, p) IN IF d = Null THEN nodes ELSE Set(nodes, d, "error", TRUE)
-----------------------------------------------------------------------------
IsParent(n) == nodes[n].kind \in {"document", "element"}
Parents == {n \in Live : IsParent(n)}
Unrelated(n, t) == t \notin ToSet(Ancestry(nodes, n)) /\ n \notin ToSet(Ancestry(nodes, t))

NewNode ==
  \E kind \in {"document", "element", "text"} :
    \E v \in CASE kind = "document" -> {""} [] kind = "text" -> {Text} [] OTHER -> Tags :
      Spare(nodes) # {} /\ nodes' = [nodes EXCEPT ![Min(Spare(nodes))] = Single(kind, v)]

CloneNode(t) == Fits(t) /\ nodes' = Cloned(nodes, t).nodes

DeleteNode(n) == nodes[n].parent = Null /\ nodes' = Deleted(nodes, n)

LinkEndChild(p, n) ==
  /\ nodes[n].parent = Null /\ nodes[n].kind # "document" /\ Unrelated(n, p)
  /\ nodes' = LinkedLast(nodes, p, n)

\* InsertEndChild() and the like, given a document, or a copy of t to place.
Inserted(p, t, Place(_, _)) ==
  IF nodes[t].kind = "document" THEN nodes' = WithError(p)
  ELSE LET c == Cloned(nodes, t) IN Fits(t) /\ nodes' = Place(c.nodes, c.root)

InsertEndChild(p, t) == Inserted(p, t, LAMBDA ns, n : LinkedLast(ns, p, n))

\* Null, without an error, if b is not a child of p; those do nothing.
InsertBeforeChild(p, b, t) ==
  /\ nodes[b].parent = p
  /\ Inserted(p, t, LAMBDA ns, n : Between(ns, n, p, ns[b].prev, b))

InsertAfterChild(p, a, t) ==
  /\ nodes[a].parent = p
  /\ Inserted(p, t, LAMBDA ns, n : Between(ns, n, p, a, ns[a].next))

ReplaceChild(p, r, t) ==
  /\ nodes[r].parent = p
  /\ Inserted(p, t, LAMBDA ns, n : Deleted(Between(ns, n, p, ns[r].prev, ns[r].next), r))

RemoveChild(p, r) ==
  /\ nodes[r].parent = p
  /\ nodes' = Deleted(Unlinked(nodes, p, r), r)

Clear(n) == nodes' = Cleared(nodes, n)

\* operator=: the children and attributes go, then those of t are copied.
Assign(n, t) ==
  LET bare == [Cleared(nodes, n) EXCEPT ![n].attributes = <<>>]
  IN  /\ nodes[n].kind = nodes[t].kind
      /\ n = t \/ Unrelated(n, t)
      /\ Size(t) <= Cardinality(Spare(nodes)) + Size(n)
      /\ nodes' = Copied(bare, t, n)

\* Find(): the place of an attribute among those of an element, or 0.
Find(as, a) == LET found == {i \in DOMAIN as : as[i][1] = a}
               IN  IF found = {} THEN 0 ELSE Min(found)

\* FindOrCreate() keeps the place of an attribute that the element has.
SetAttribute(n, a, v) ==
  LET as == nodes[n].attributes
  IN  nodes' = [nodes EXCEPT ![n].attributes =
                  IF Find(as, a) # 0 THEN [as EXCEPT ![Find(as, a)][2] = v]
                  ELSE Append(as, <<a, v>>)]

RemoveAttribute(n, a) ==
  LET as == nodes[n].attributes
  IN  Find(as, a) # 0 /\ nodes' = [nodes EXCEPT ![n].attributes = RemoveAt(as, Find(as, a))]

XmlNext ==
  \/ NewNode
  \/ \E n \in Live : CloneNode(n) \/ DeleteNode(n)
  \/ \E p \in Parents, n \in Live :
       \/ LinkEndChild(p, n) \/ InsertEndChild(p, n) \/ RemoveChild(p, n)
       \/ \E t \in Live : \/ InsertBeforeChild(p, n, t) \/ InsertAfterChild(p, n, t)
                          \/ ReplaceChild(p, n, t)
  \/ \E p \in Parents : Clear(p)
  \/ \E n, t \in Live : Assign(n, t)
  \/ \E n \in {m \in Live : nodes[m].kind = "element"}, a \in Attributes :
       RemoveAttribute(n, a) \/ \E v \in Values : SetAttribute(n, a, v)

XmlSpec == XmlInit /\ [][XmlNext]_nodes
-----------------------------------------------------------------------------
\* Whichever way a caller goes, it sees the same children: forwards and backwards,
\* and from a child to its parent and its document,
PointersAgree ==
  \A n \in Live :
    LET kids == Children(nodes, n)
        top == Last(Ancestry(nodes, n))
    IN  /\ Walk(nodes, nodes[n].lastChild, "prev") = Reverse(kids)
        /\ \A i \in DOMAIN kids : nodes[kids[i]].parent = n
        /\ GetDocument(nodes, n) = IF nodes[top].kind = "document" THEN top ELSE Null

\* and by value, by element and by count.
LookupsAgree ==
  \A n \in Live, v \in Tags \union {Text} :
    LET kids == Children(nodes, n)
        same == SelectSeq(kids, LAMBDA k : HasValue(k, v))
        elements == SelectSeq(kids, LAMBDA k : IsElementOf(k, v))
        At(s, i) == IF i \in DOMAIN s THEN s[i] ELSE Null
    IN  /\ FirstChild(n, v) = At(same, 1) /\ LastChild(n, v) = At(same, Len(same))
        /\ \A i \in DOMAIN same :
             /\ NextSibling(same[i], v) = At(same, i + 1)
             /\ PreviousSibling(same[i], v) = At(same, i - 1)
        /\ \A count \in 0..MaxNodes : ChildElement(n, v, count) = At(elements, count + 1)

Abstract == INSTANCE XmlTree WITH
  kids <- [n \in Live |-> Children(nodes, n)],
  label <- [n \in Live |-> <<nodes[n].kind, nodes[n].value, nodes[n].attributes, nodes[n].error>>]

\* The pointers are those of a tree: every operation changes the children of one
\* node at one place, copies are whole and apart, what is deleted goes with all
\* below it (tinyxml.cc:122-298), and all lookups find the children of the tree
\* (tinyxml.cc:300-455, TiXmlHandle).
ImplementsTree == Abstract!TreeSpec /\ [](PointersAgree /\ LookupsAgree)
=============================================================================
