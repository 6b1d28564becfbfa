----------------------------- MODULE XMLDocument -----------------------------
(***************************************************************************)
(* The documents XMLParser works on, with what its passes should make of   *)
(* them.  A node has a tag, a name (the file of an <include>, the table of *)
(* a <select>, the name of a <constant>, the id of a <for> or a <db>), the *)
(* begin, end and increment of a <for>, a text and child nodes.  A text is *)
(* a sequence of pieces: literals and references to constants, environment *)
(* variables and loop counters.  Attributes and text nodes are both texts. *)
(***************************************************************************)
EXTENDS Integers, Sequences, FiniteSets, SequencesExt, FiniteSetsExt, TLC

Piece(kind, key) == [kind |-> kind, key |-> key]

Node(tag, name, range, text, kids) ==
  [tag |-> tag, name |-> name, range |-> range, text |-> text, kids |-> kids]

\* Nodes that FirstChildElement() and NextSiblingElement() see.
IsElement(n) == n.tag # "text"

Elements(kids) == SelectSeq(kids, IsElement)

\* The position of an element after or before position i of kids, 0 if none.
NextElement(kids, i) ==
  LET s == {j \in i + 1 .. Len(kids) : IsElement(kids[j])}
  IN  IF s = {} THEN 0 ELSE Min(s)

FirstElement(kids) == NextElement(kids, 0)

PreviousElement(kids, i) ==
  LET s == {j \in 1 .. i - 1 : IsElement(kids[j])}
  IN  IF s = {} THEN 0 ELSE Max(s)

\* kids with the node at i replaced by the nodes of new.
Spliced(kids, i, new) ==
  SubSeq(kids, 1, i - 1) \o new \o SubSeq(kids, i + 1, Len(kids))

MapKids(kids, f(_)) == [i \in 1 .. Len(kids) |-> f(kids[i])]
-----------------------------------------------------------------------------
\* An environment: whether variables are replaced, and the values of those
\* that are set.  Whether each reference in text has a value to replace it
\* (an empty constant counts as none), and text with the values.
Replaceable(text, constants, env) ==
  \A i \in 1 .. Len(text) :
    /\ text[i].kind = "constant" =>
         text[i].key \in DOMAIN constants /\ constants[text[i].key] # <<>>
    /\ env.allowed /\ text[i].kind = "env" => text[i].key \in DOMAIN env.values

Replaced(text, constants, env) ==
  FlattenSeq([i \in 1 .. Len(text) |->
    CASE text[i].kind = "constant" -> constants[text[i].key]
      [] env.allowed /\ text[i].kind = "env" ->
           <<Piece("literal", env.values[text[i].key])>>
      [] OTHER -> <<text[i]>>])

RECURSIVE NodeReplaceable(_, _, _)
NodeReplaceable(n, constants, env) ==
  /\ Replaceable(n.text, constants, env)
  /\ \A i \in 1 .. Len(n.kids) : NodeReplaceable(n.kids[i], constants, env)

RECURSIVE NodeReplaced(_, _, _)
NodeReplaced(n, constants, env) ==
  [n EXCEPT !.text = Replaced(n.text, constants, env),
            !.kids = MapKids(n.kids, LAMBDA k : NodeReplaced(k, constants, env))]

\* n with the references to the loop counter id replaced by the number i.
RECURSIVE Counted(_, _, _)
Counted(n, id, i) ==
  [n EXCEPT !.text = [j \in 1 .. Len(n.text) |->
                        IF n.text[j] = Piece("for", id)
                        THEN Piece("literal", ToString(i)) ELSE n.text[j]],
            !.kids = MapKids(n.kids, LAMBDA k : Counted(k, id, i))]
-----------------------------------------------------------------------------
(* What the passes promise of a document, construct by construct.           *)

\* Every include replaced by the elements of its file, those of the files
\* too if nested.
RECURSIVE Included(_, _, _)
Included(kids, files, nested) ==
  FlattenSeq([i \in 1 .. Len(kids) |->
    CASE kids[i].tag # "include" ->
           <<[kids[i] EXCEPT !.kids = Included(kids[i].kids, files, nested)]>>
      [] kids[i].tag = "include" /\ nested ->
           Included(Elements(files[kids[i].name]), files, nested)
      [] OTHER -> Elements(files[kids[i].name])])

\* Every select replaced by the parameters of its table.
RECURSIVE Selected(_, _)
Selected(kids, tables) ==
  FlattenSeq([i \in 1 .. Len(kids) |->
    IF kids[i].tag = "select" THEN tables[kids[i].name]
    ELSE <<[kids[i] EXCEPT !.kids = Selected(kids[i].kids, tables)]>>])

\* The counters of a loop that counts upwards.
Counters(range) ==
  SelectSeq([i \in 1 .. range[2] - range[1] + 1 |-> range[1] + i - 1],
            LAMBDA c : (c - range[1]) % range[3] = 0)

\* Every loop replaced by its body, once for each counter.
RECURSIVE Looped(_)
Looped(kids) ==
  FlattenSeq([i \in 1 .. Len(kids) |->
    LET n    == kids[i]
        body == Looped(n.kids)
    IN  IF n.tag # "for" THEN <<[n EXCEPT !.kids = body]>>
        ELSE IF n.range[1] > n.range[2] THEN <<>>
        ELSE FlattenSeq([c \in 1 .. Len(Counters(n.range)) |->
               MapKids(body, LAMBDA k : Counted(k, n.name, Counters(n.range)[c]))])])

Sections(kids) == SelectSeq(kids, LAMBDA k : k.tag = "constants")

Definitions(kids) ==
  FlattenSeq(MapKids(Sections(kids),
                     LAMBDA n : SelectSeq(n.kids, LAMBDA k : k.tag = "constant")))

\* The constants that defs define, each with the help of those before it.
RECURSIVE Defined(_, _, _)
Defined(defs, constants, env) ==
  IF defs = <<>> THEN constants
  ELSE Defined(Tail(defs),
               constants @@ (Head(defs).name :>
                               Replaced(Head(defs).text, constants, env)), env)

WithConstants(kids, env) ==
  LET c == Defined(Definitions(kids), <<>>, env)
  IN  MapKids(kids, LAMBDA k : IF IsElement(k) THEN NodeReplaced(k, c, env) ELSE k)
-----------------------------------------------------------------------------
(* When the passes have no reason to refuse a document.                     *)

RECURSIVE IncludesExist(_, _, _)
IncludesExist(kids, files, nested) ==
  \A i \in 1 .. Len(kids) :
    /\ IncludesExist(kids[i].kids, files, nested)
    /\ kids[i].tag = "include" =>
         /\ kids[i].name \in DOMAIN files
         /\ nested => IncludesExist(files[kids[i].name], files, nested)

\* A <constant> that can be defined after constants.
IsDefinition(n, constants, env) ==
  /\ NodeReplaceable(n, constants, env)
  /\ n.name # "" /\ n.name \notin DOMAIN constants

RECURSIVE DefinitionsAreValid(_, _, _)
DefinitionsAreValid(defs, constants, env) ==
  \/ defs = <<>>
  \/ LET d == Head(defs)
     IN  /\ IsDefinition(d, constants, env)
         /\ DefinitionsAreValid(Tail(defs),
              constants @@ (d.name :> Replaced(d.text, constants, env)), env)

ConstantsAreValid(kids, env) ==
  LET defs == Definitions(kids)
  IN  /\ DefinitionsAreValid(defs, <<>>, env)
      /\ \A i \in 1 .. Len(kids) :
           IsElement(kids[i]) =>
             NodeReplaceable(kids[i], Defined(defs, <<>>, env), env)

\* The range test of resolveForLoops().
Accepts(range) ==
  IF range[1] < range[2] THEN range[3] >= 0 ELSE range[3] <= 0

\* A <for> whose attributes are readable and accepted.
IsLoop(n) == n.range # <<>> /\ n.name # "" /\ Accepts(n.range)

RECURSIVE LoopsAreValid(_)
LoopsAreValid(kids) ==
  \A i \in 1 .. Len(kids) :
    /\ LoopsAreValid(kids[i].kids)
    /\ kids[i].tag = "for" => IsLoop(kids[i])
=============================================================================
