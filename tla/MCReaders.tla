------------------------------- MODULE MCReaders -------------------------------
(***************************************************************************)
(* The two readers of XML documents: the parser of steering files, and the *)
(* reader of event files.  A behaviour is about one of them, its subject,  *)
(* and the other rests in an initial state.                                *)
(*                                                                         *)
(* XMLParser on all documents of up to two of the nodes below, and some    *)
(* longer ones.  EventReader and its consumer on files of up to three      *)
(* events, each good or bad, and some of four, and on files that do not    *)
(* load; skips of none to five events and of a negative number; reads      *)
(* nested three deep.                                                      *)
(***************************************************************************)
EXTENDS XMLParser, EventReader

Lit(x)     == <<Piece("literal", x)>>
Const(c)   == <<Piece("constant", c)>>
Count(id)  == <<Piece("for", id)>>
Plain(tag, text, kids) == Node(tag, "", <<>>, text, kids)

Comment  == Plain("text", Lit("t"), <<>>)
Use      == Plain("element", Const("c"), <<Comment>>)
Setting  == Plain("element", <<Piece("env", "E")>>, <<>>)
Unset    == Plain("element", <<Piece("env", "F")>>, <<>>)
Include(file) == Node("include", file, <<>>, <<>>, <<>>)
Constant(c, text) == Node("constant", c, <<>>, text, <<>>)
Consts   == Plain("constants", <<>>,
              <<Constant("c", Lit("v")), Comment, Constant("d", Const("c")), Setting>>)
Twice    == Plain("constants", <<>>, <<Constant("c", Lit("w"))>>)
Dbs      == Plain("databases", <<>>, <<Node("db", "d1", <<>>, <<>>, <<>>)>>)
Select(t) == Node("select", t, <<>>, Lit("d1"), <<>>)
Group    == Plain("element", <<>>, <<Select("two"), Include("a")>>)
For(id, range, kids) == Node("for", id, range, <<>>, kids)
Repeat   == For("i", <<1, 3, 2>>, <<Plain("element", Count("i"), <<>>), Comment>>)
Matrix   == For("i", <<0, 1, 1>>,
              <<For("j", <<5, 6, 1>>, <<Plain("element", Count("i") \o Count("j"), <<>>)>>)>>)

MCFiles == [a |-> <<Comment, Plain("element", Lit("a"), <<Include("b")>>), Include("b")>>,
            b |-> <<Plain("element", Lit("b"), <<>>)>>,
            e |-> <<Comment>>]
MCBadFiles == {"missing"}
MCRootless == {"rootless"}
MCTables == [two |-> <<Plain("parameter", Lit("p"), <<>>), Plain("parameter", Lit("q"), <<>>)>>,
             none |-> <<>>]
MCEnvironment == [E |-> "e"]
AllPasses == [nested |-> TRUE, env |-> TRUE, passes |-> Passes]
MCOptions == {AllPasses, [AllPasses EXCEPT !.nested = FALSE],
              [AllPasses EXCEPT !.passes = {"constants", "loops"}, !.env = FALSE]}

Nodes == {Comment, Use, Setting, Unset, Include("a"), Include("e"), Include("missing"),
          Consts, Twice, Dbs, Select("two"), Select("none"), Group, Repeat, Matrix}
MCDocs ==
  UNION {[1 .. n -> Nodes] : n \in 1 .. 2} \union
  {<<Dbs, Group, Select("two"), Setting>>, <<Include("a"), Include("e"), Include("e"), Comment>>,
   <<Consts, Repeat, Matrix, Use>>, <<Dbs, Plain("element", <<>>, <<Select("none")>>)>>,
   <<Dbs, Plain("element", <<>>, <<Select("none"), Select("two")>>)>>,
   <<Include("rootless")>>, <<Include("e"), Include("a"), Include("e")>>,
   <<Consts, Comment, Include("e"), Matrix, Dbs, Select("two")>>,
   <<For("", <<1, 2, 1>>, <<>>)>>, <<For("i", <<>>, <<>>)>>, <<For("i", <<2, 1, 1>>, <<>>)>>,
   <<For("i", <<1, 2, -1>>, <<>>)>>, <<For("i", <<2, 1, -1>>, <<Use>>), Comment>>}
-----------------------------------------------------------------------------
MCEventFiles == UNION {[1 .. n -> {"good", "bad"}] : n \in 0 .. 3} \union
                {<<"good", "bad", "good", "good">>, <<"good", "good", "good", "good">>}
MCSkipCounts == -1 .. 5
-----------------------------------------------------------------------------
VARIABLE subject

\* A reader's behaviours need the parser in one of its initial states only.
MCInit ==
  /\ Init /\ LoopInit
  /\ subject = "parser" \/ (subject = "reader" /\ options = (CHOOSE o \in Options : TRUE))

ParserSteps == subject = "parser" /\ UNCHANGED <<loopVars, subject>>
ReaderSteps == subject = "reader" /\ UNCHANGED <<vars, subject>>

MCNext == (ParserSteps /\ Next) \/ (ReaderSteps /\ LoopNext)

\* The fairness of Spec and of LoopSpec.
MCSpec ==
  /\ MCInit /\ [][MCNext]_<<vars, loopVars, subject>>
  /\ WF_<<vars, loopVars, subject>>(ParserSteps /\ Step)
  /\ WF_<<vars, loopVars, subject>>(ReaderSteps /\ InTheLoop)
=============================================================================
