-------------------------------- MODULE XmlTree --------------------------------
(***************************************************************************)
(* What TinyXML promises of the nodes of its documents: each has a label   *)
(* and a sequence of children, and an operation changes the children of    *)
(* one node at one place.  TinyXml implements this with pointers.          *)
(***************************************************************************)
EXTENDS Naturals, SequencesExt, FiniteSetsExt

VARIABLES
  kids,   \* the children of every node that exists
  label   \* what it is, with its value, its attributes and its error

tree == <<kids, label>>

RECURSIVE Tree(_, _, _), Below(_, _)

\* The subtree of a node, as a value, and its nodes.
Tree(ks, ls, n) == <<ls[n], [i \in DOMAIN ks[n] |-> Tree(ks, ls, ks[n][i])]>>
Below(ks, n) == {n} \union UNION {Below(ks, k) : k \in ToSet(ks[n])}

New == DOMAIN kids' \ DOMAIN kids
Gone == DOMAIN kids \ DOMAIN kids'
Others(S) == \A n \in (DOMAIN kids \intersect DOMAIN kids') \ S :
               kids'[n] = kids[n] /\ label'[n] = label[n]

\* The children of p from the i-th to before the j-th go, with all below them;
\* those of the sequence come in their place.
Spliced(p, i, j, xs) ==
  /\ kids'[p] = SubSeq(kids[p], 1, i - 1) \o xs \o SubSeq(kids[p], j, Len(kids[p]))
  /\ Gone = UNION {Below(kids, kids[p][k]) : k \in i..(j - 1)}
  /\ Others({p})

IsCopy(n, t) == Tree(kids', label', n) = Tree(kids, label, t)

TreeInit == kids = <<>> /\ label = <<>>

\* A node without children, or a copy of one with all below it.
Create ==
  \E n \in New : /\ Gone = {} /\ Others({})
                 /\ \/ New = {n} /\ kids'[n] = <<>>
                    \/ New = Below(kids', n) /\ \E t \in DOMAIN kids : IsCopy(n, t)

\* A tree that nobody has as a child goes under p, last.
Link == /\ New = {}
        /\ \E p, n \in DOMAIN kids' : /\ kids'[p] = Append(kids[p], n)
                                      /\ Gone = {} /\ Others({p})
                                      /\ label'[p] = label[p]

\* A copy of t goes to place i under p, alone or instead of the child there.
Insert == \E n \in New, p \in DOMAIN kids \ Gone :
            /\ label'[p] = label[p]
            /\ \E i \in 1..(Len(kids[p]) + 1) : \E j \in {i, i + 1} :
                 j <= Len(kids[p]) + 1 /\ Spliced(p, i, j, <<n>>)
            /\ \E t \in DOMAIN kids : IsCopy(n, t) /\ New = Below(kids', n)

\* One child goes, or all.
RemoveSome ==
          /\ New = {}
          /\ \E p \in DOMAIN kids \ Gone :
               /\ label'[p] = label[p]
               /\ \E i \in DOMAIN kids[p] : \/ Spliced(p, i, i + 1, <<>>)
                                            \/ i = 1 /\ Spliced(p, 1, Len(kids[p]) + 1, <<>>)

Destroy == New = {} /\ Others({}) /\ \E n \in Gone : Gone = Below(kids, n)

\* The label of one node changes, or the node becomes a copy of another but for
\* its place; the memory of its children may be that of the new ones.
Relabel == New = {} /\ Gone = {} /\ \E n \in DOMAIN kids : Others({n}) /\ kids' = kids

Overwrite ==
  \E n, t \in DOMAIN kids \ Gone :
    LET rest == DOMAIN kids \ Below(kids, n)
    IN  /\ IF n = t THEN kids'[n] = <<>> ELSE IsCopy(n, t)
        /\ Below(kids', n) \intersect rest = {}
        /\ DOMAIN kids' = rest \union Below(kids', n)
        /\ \A m \in rest : kids'[m] = kids[m] /\ label'[m] = label[m]

TreeNext == \/ Create \/ Link \/ Insert \/ RemoveSome \/ Destroy \/ Relabel \/ Overwrite

TreeSpec == TreeInit /\ [][TreeNext]_tree
=============================================================================
