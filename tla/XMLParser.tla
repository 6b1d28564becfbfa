------------------------------ MODULE XMLParser ------------------------------
(***************************************************************************)
(* XMLParser (XMLParser.cc): parse() loads a document and resolves, in     *)
(* this order, its includes, its constants, the selects of its data bases  *)
(* and its for loops.  Each pass walks lists of siblings that it edits     *)
(* while it walks them; one turn of a loop of the code is one action, and  *)
(* a frame is one call of a recursive pass: the siblings it walks and its  *)
(* place among them.                                                       *)
(***************************************************************************)
EXTENDS XMLDocument

CONSTANTS
  Docs,         \* the children of the root elements of the documents to parse
  Files,        \* for each file that can be included, its root's children
  BadFiles,     \* files that do not load, or have another root element
  Rootless,     \* files that load and have no root element
  Tables,       \* for each table of the data base, its <parameter> nodes
  Environment,  \* the values of the environment variables that are set
  Options       \* the settings of the parser: which passes and what they allow

Passes == {"include", "constants", "database", "loops"}

ASSUME ParserAssumption ==
  /\ BadFiles \intersect DOMAIN Files = {}
  /\ Rootless \intersect (BadFiles \union DOMAIN Files) = {}
  /\ Options \subseteq [nested : BOOLEAN, env : BOOLEAN, passes : SUBSET Passes]

VARIABLES
  phase,      \* the pass that runs, or how the last parse() ended
  frames,     \* the calls of the pass, the first for the root element
  turn,       \* the counter of the <for> being repeated, or NoTurn
  constants,  \* m_constants
  options,    \* of this parse()
  source,     \* the children of the root element parse() loaded
  emptied     \* a select of this parse() found no parameter

vars == <<phase, frames, turn, constants, options, source, emptied>>

Ended  == {"new", "done", "failed", "crashed"}
NoTurn == -100

\* A call for the children kids of a node, or of an included file.
Start(kids, of) == [kids |-> kids, at |-> FirstElement(kids), of |-> of]

Init ==
  /\ phase = "new" /\ frames = <<Start(<<>>, "node")>> /\ turn = NoTurn
  /\ constants = <<>> /\ options \in Options
  /\ source = <<>> /\ emptied = FALSE

Top   == frames[Len(frames)]
Below == frames[Len(frames) - 1]
Child == Top.kids[Top.at]

SetTop(f)      == [frames EXCEPT ![Len(frames)] = f]
Call(kids, of) == Append(frames, Start(kids, of))
Back(f)        == Append(SubSeq(frames, 1, Len(frames) - 2), f)

AtEnd == Top.at = 0 /\ Len(frames) > 1   \* of a call made by the pass
Over  == Top.at = 0 /\ Len(frames) = 1   \* of the pass

\* The frame below once its node has the children the call left.
Filled == [Below EXCEPT !.kids[Below.at].kids = Top.kids]

Onward(f) == [f EXCEPT !.at = NextElement(f.kids, f.at)]

Kept == UNCHANGED <<turn, constants, options, source, emptied>>

Fail  == phase' = "failed" /\ UNCHANGED frames /\ Kept
Crash == phase' = "crashed" /\ UNCHANGED frames /\ Kept
Walk(fs) == frames' = fs /\ UNCHANGED phase /\ Kept

Env == [allowed |-> options.env, values |-> Environment]

\* The steps of parse(), with the pass each belongs to.
Pipeline == <<[phase |-> "include",   pass |-> "include"],
              [phase |-> "constants", pass |-> "constants"],
              [phase |-> "replace",   pass |-> "constants"],
              [phase |-> "databases", pass |-> "database"],
              [phase |-> "selects",   pass |-> "database"],
              [phase |-> "loops",     pass |-> "loops"]>>

Following(p, opts) ==
  LET from == IF \E i \in 1 .. Len(Pipeline) : Pipeline[i].phase = p
              THEN CHOOSE i \in 1 .. Len(Pipeline) : Pipeline[i].phase = p ELSE 0
      left == {i \in from + 1 .. Len(Pipeline) : Pipeline[i].pass \in opts.passes}
  IN  IF left = {} THEN "done" ELSE Pipeline[Min(left)].phase

EndPass ==
  /\ phase \in {"include", "constants", "replace", "selects", "loops"}
  /\ Over
  /\ phase' = Following(phase, options)
  /\ frames' = <<Start(Top.kids, "node")>>
  /\ Kept

\* parse() after it forgot to reset the constants.
ParseAgain(d, opts) ==
  /\ phase \in Ended \ {"crashed"}
  /\ options' = opts /\ source' = d
  /\ phase' = Following("load", opts)
  /\ frames' = <<Start(d, "node")>>
  /\ emptied' = FALSE
  /\ UNCHANGED <<turn, constants>>

Parse(d, opts) ==
  /\ phase \in Ended \ {"crashed"}
  /\ options' = opts /\ source' = d
  /\ phase' = Following("load", opts)
  /\ frames' = <<Start(d, "node")>>
  /\ turn' = NoTurn /\ constants' = <<>> /\ emptied' = FALSE

\* A file that does not load.
ParseMissing ==
  /\ phase \in Ended \ {"crashed"}
  /\ phase' = "failed"
  /\ source' = <<>> /\ frames' = <<Start(<<>>, "node")>>
  /\ turn' = NoTurn /\ constants' = <<>> /\ emptied' = FALSE
  /\ UNCHANGED options
-----------------------------------------------------------------------------
(* resolveIncludes() *)

\* Insertion() that never goes back.
InsertionSkipping(f, content) ==
  LET kids == Spliced(f.kids, f.at, content)
  IN  [f EXCEPT !.kids = kids,
         !.at = IF content # <<>> THEN NextElement(kids, f.at + Len(content) - 1)
                ELSE NextElement(kids, f.at)]

\* Insertion() that leaves an include without content in the document.
InsertionKeeping(f, content) ==
  LET kids == Spliced(f.kids, f.at, content)
  IN  IF content # <<>>
      THEN [f EXCEPT !.kids = kids, !.at = NextElement(kids, f.at + Len(content) - 1)]
      ELSE [f EXCEPT !.at = IF PreviousElement(f.kids, f.at) # 0
                            THEN PreviousElement(f.kids, f.at)
                            ELSE FirstElement(f.kids)]

\* The frame f, at an include, with the elements of the file in its place;
\* without any, the walk goes back to the element before.
Insertion(f, content) ==
  LET kids == Spliced(f.kids, f.at, content)
      back == PreviousElement(f.kids, f.at)
  IN  [f EXCEPT !.kids = kids,
         !.at = IF content # <<>> THEN NextElement(kids, f.at + Len(content) - 1)
                ELSE IF back # 0 THEN back
                ELSE FirstElement(kids)]

IncludeNothing ==
  /\ phase = "include" /\ Top.at # 0 /\ Child.tag # "include"
  /\ Walk(Call(Child.kids, "node"))

LoadInclude ==
  /\ phase = "include" /\ Top.at # 0 /\ Child.tag = "include"
  /\ \/ Child.name \in BadFiles /\ Fail
     \/ Child.name \in Rootless /\ Crash
     \/ /\ Child.name \in DOMAIN Files
        /\ Walk(IF options.nested THEN Call(Files[Child.name], "file")
                ELSE SetTop(Insertion(Top, Elements(Files[Child.name]))))

LeaveInclude ==
  /\ phase = "include" /\ AtEnd
  /\ Walk(Back(IF Top.of = "file" THEN Insertion(Below, Elements(Top.kids))
               ELSE Onward(Filled)))
-----------------------------------------------------------------------------
(* readConstants() and replaceAllConstants() *)

EnterSection ==
  /\ phase = "constants" /\ Len(frames) = 1 /\ Top.at # 0
  /\ Walk(IF Child.tag = "constants" THEN Call(Child.kids, "node")
          ELSE SetTop(Onward(Top)))

ReadConstant ==
  /\ phase = "constants" /\ Len(frames) = 2 /\ Top.at # 0
  /\ \/ Child.tag # "constant" /\ Walk(SetTop(Onward(Top)))
     \/ Child.tag = "constant" /\ ~IsDefinition(Child, constants, Env) /\ Fail
     \/ /\ Child.tag = "constant" /\ IsDefinition(Child, constants, Env)
        /\ LET n == NodeReplaced(Child, constants, Env)
           IN  /\ constants' = constants @@ (n.name :> n.text)
               /\ frames' = SetTop(Onward([Top EXCEPT !.kids[Top.at] = n]))
        /\ UNCHANGED <<phase, turn, options, source, emptied>>

LeaveSection == phase = "constants" /\ AtEnd /\ Walk(Back(Onward(Filled)))

ReplaceConstants ==
  /\ phase = "replace" /\ Top.at # 0
  /\ \/ ~NodeReplaceable(Child, constants, Env) /\ Fail
     \/ /\ NodeReplaceable(Child, constants, Env)
        /\ Walk(SetTop(Onward([Top EXCEPT !.kids[Top.at] =
                                 NodeReplaced(Child, constants, Env)])))
-----------------------------------------------------------------------------
(* readDatabases() and resolveAllDbSelect() *)

\* The ids of the <db> elements of the first <databases> element of kids.
Databases(kids) ==
  LET sections == SelectSeq(kids, LAMBDA k : k.tag = "databases")
      dbs      == SelectSeq(sections[1].kids, LAMBDA k : k.tag = "db")
  IN  IF sections = <<>> THEN <<>> ELSE [i \in 1 .. Len(dbs) |-> dbs[i].name]

\* Any connection may fail; without data bases the selects stay.
ReadDatabases ==
  /\ phase = "databases"
  /\ LET ids == Databases(Top.kids)
         set == {ids[i] : i \in 1 .. Len(ids)}
     IN  \/ ids # <<>> /\ Fail
         \/ /\ "" \notin set /\ Cardinality(set) = Len(ids)
            /\ phase' = IF ids = <<>> THEN Following("selects", options) ELSE "selects"
            /\ UNCHANGED frames /\ Kept

SelectNothing ==
  /\ phase = "selects" /\ Top.at # 0 /\ Child.tag # "select"
  /\ Walk(Call(Child.kids, "node"))

LeaveSelect == phase = "selects" /\ AtEnd /\ Walk(Back(Onward(Filled)))

\* A <select> whose data base (its text) and table are known.
Known(n) ==
  /\ n.name \in DOMAIN Tables
  /\ \E i \in 1 .. Len(Databases(frames[1].kids)) :
       n.text = <<Piece("literal", Databases(frames[1].kids)[i])>>

\* The query may fail.  The walk goes on after the element before the select; without one, it
\* goes to the first child and, with the next turn of the loop, past it.
SelectRows ==
  /\ phase = "selects" /\ Top.at # 0 /\ Child.tag = "select"
  /\ \/ Fail
     \/ /\ Known(Child)
        /\ LET rows == Tables[Child.name]
               kids == Spliced(Top.kids, Top.at, rows)
               back == PreviousElement(Top.kids, Top.at)
               from == IF back # 0 THEN back ELSE FirstElement(kids)
           IN  /\ emptied' = (emptied \/ rows = <<>>)
               /\ IF from = 0 THEN phase' = "crashed" /\ UNCHANGED frames
                  ELSE /\ frames' = SetTop([Top EXCEPT !.kids = kids,
                                              !.at = NextElement(kids, from)])
                       /\ UNCHANGED phase
        /\ UNCHANGED <<turn, constants, options, source>>
-----------------------------------------------------------------------------
(* resolveForLoops() *)

EnterLoop ==
  /\ phase = "loops" /\ turn = NoTurn /\ Top.at # 0
  /\ Walk(Call(Child.kids, "node"))

LeaveLoop ==
  /\ phase = "loops" /\ turn = NoTurn /\ AtEnd
  /\ LET n == Filled.kids[Below.at]
     IN  \/ n.tag # "for" /\ Walk(Back(Onward(Filled)))
         \/ n.tag = "for" /\ ~IsLoop(n) /\ Fail
         \/ /\ n.tag = "for" /\ IsLoop(n)
            /\ turn' = n.range[1] /\ frames' = Back(Filled)
            /\ UNCHANGED <<phase, constants, options, source, emptied>>

RepeatLoop ==
  /\ turn # NoTurn /\ turn <= Child.range[2]
  /\ LET body == MapKids(Child.kids, LAMBDA k : Counted(k, Child.name, turn))
     IN  frames' = SetTop([Top EXCEPT
                     !.kids = SubSeq(Top.kids, 1, Top.at - 1) \o body
                                \o SubSeq(Top.kids, Top.at, Len(Top.kids)),
                     !.at = Top.at + Len(body)])
  /\ turn' = turn + Child.range[3]
  /\ UNCHANGED <<phase, constants, options, source, emptied>>

Removed(f) ==
  LET kids == Spliced(f.kids, f.at, <<>>)
  IN  [f EXCEPT !.kids = kids, !.at = NextElement(kids, f.at - 1)]

\* The next sibling is read from the node that was just deleted: the memory
\* still holds it, or it does not.
FinishLoop ==
  /\ turn # NoTurn /\ turn > Child.range[2]
  /\ turn' = NoTurn
  /\ \/ frames' = SetTop(Removed(Top)) /\ UNCHANGED phase
     \/ phase' = "crashed" /\ UNCHANGED frames
  /\ UNCHANGED <<constants, options, source, emptied>>

Step ==
  \/ EndPass
  \/ IncludeNothing \/ LoadInclude \/ LeaveInclude
  \/ EnterSection \/ ReadConstant \/ LeaveSection \/ ReplaceConstants
  \/ ReadDatabases \/ SelectNothing \/ LeaveSelect \/ SelectRows
  \/ EnterLoop \/ LeaveLoop \/ RepeatLoop \/ FinishLoop

Next ==
  \/ \E d \in Docs, opts \in Options : Parse(d, opts)
  \/ ParseMissing
  \/ Step

\* parse() is one call of a single thread: while a step is left, one is taken.
Spec == Init /\ [][Next]_vars /\ WF_vars(Step)

-----------------------------------------------------------------------------
\* What parse() should make of the children kids, with the selects of the
\* data bases resolved if it has any.
Resolved(kids, opts) ==
  LET included == IF "include" \in opts.passes
                  THEN Included(kids, Files, opts.nested) ELSE kids
      replaced == IF "constants" \in opts.passes
                  THEN WithConstants(included, Env) ELSE included
      selected == IF "database" \in opts.passes /\ Databases(replaced) # <<>>
                  THEN Selected(replaced, Tables) ELSE replaced
  IN  IF "loops" \in opts.passes THEN Looped(selected) ELSE selected

Complete == phase = "done" => frames[1].kids = Resolved(source, options)

(***************************************************************************)
(* A parse() that returns has resolved every include, constant, select and *)
(* loop once, at its place and in the order of the document, though each   *)
(* pass edits the lists it walks and goes back in them (XMLParser.cc:248   *)
(* to :316, :571 to :635 and :649 to :690).  Left out: selects of empty    *)
(* tables, and includes inside files when they are not allowed.            *)
(***************************************************************************)
DocumentsAreResolved == options.nested /\ ~emptied => Complete

(***************************************************************************)
(* A parse() that fails has a reason in the document it was given, and not *)
(* in the ones parsed before (reset(), XMLParser.cc:118): a file, constant *)
(* or variable that does not exist, a constant defined twice, a loop that  *)
(* is refused, or a data base, which may fail at any time.                 *)
(***************************************************************************)
FailuresHaveAReason ==
  LET included == Included(source, Files, options.nested)
      replaced == IF "constants" \in options.passes
                  THEN WithConstants(included, Env) ELSE included
  IN  phase = "failed" /\ options.nested /\ options.passes = Passes /\ source # <<>> =>
        \/ ~IncludesExist(source, Files, options.nested)
        \/ ~ConstantsAreValid(included, Env)
        \/ Databases(replaced) # <<>>
        \/ ~LoopsAreValid(replaced)

(***************************************************************************)
(* parse() ends: no pass walks the same siblings for ever, not where it    *)
(* goes back to an earlier one (XMLParser.cc:302-313).                     *)
(***************************************************************************)
ParsingEnds == (phase \notin Ended) ~> (phase \in Ended)
=============================================================================
