-------------------------------- MODULE XmlText --------------------------------
(***************************************************************************)
(* How TinyXML reads and writes a file (tinyxmlparser.cc, the Print of     *)
(* tinyxml.cc and TiXmlPrinter).  A file is a sequence of tokens: a start  *)
(* tag with its attributes, an end tag, a comment and so on, or a piece of *)
(* text.  A truncated file may end within a start tag or a comment.        *)
(*                                                                         *)
(* The pieces of a text are characters, but for what follows the "&" of an *)
(* entity, which is one piece.  Positions, encodings and the line ends of  *)
(* other systems are left out.                                             *)
(***************************************************************************)
EXTENDS Naturals, SequencesExt, FiniteSetsExt

CONSTANTS
  Files,      \* files written by others
  Documents   \* documents built by the program

Leaves == {"comment", "cdata", "unknown", "declaration"}
Cut    == {"tag", "half"}   \* a start tag or a comment without its end

ASSUME FilesAssumption ==
  \A f \in Files : \A i \in 1 .. Len(f) - 1 : f[i].kind \notin Cut

VARIABLES
  file,    \* what the file holds, or what was taken from a stream
  at,      \* the token the parser is at
  stack,   \* the document and the elements that are open, with the children so far
  mode,    \* "idle", "loaded": a file just was; or parsing, "content" and after a "text"
  error,   \* the error of the document
  saved    \* the document written to the file, if one was

textVars == <<file, at, stack, mode, error, saved>>

Token(kind, value, attributes) == [kind |-> kind, value |-> value, attributes |-> attributes]
Char(c) == Token("char", <<c>>, <<>>)
Blank == Char(" ")

XmlNode(kind, value, attributes, kids) ==
  [kind |-> kind, value |-> value, attributes |-> attributes, kids |-> kids]
Document(kids) == XmlNode("document", <<>>, <<>>, kids)

IsText(n) == n.kind \in {"text", "cdata"}   \* ToText()
-----------------------------------------------------------------------------
(* Texts and entities.                                                     *)

\* The character an entity stands for.
Entity == [x \in {"amp;", "lt;", "#x61;"} |->
             CASE x = "amp;" -> "&" [] x = "lt;" -> "<" [] x = "#x61;" -> "a"]

\* EncodeString(): "&#x" is written as it is.
EncodedAt(s, i) ==
  CASE s[i] = "<" -> <<"&", "lt;">>
    [] s[i] = "&" /\ (i = Len(s) \/ s[i + 1] # "#x61;") -> <<"&", "amp;">>
    [] OTHER -> <<s[i]>>

Encoded(s) == FlattenSeq([i \in DOMAIN s |-> EncodedAt(s, i)])

\* GetEntity(): an "&" that starts no entity has length 0.
AtEntity(s, i) == s[i] = "&" /\ i < Len(s) /\ s[i + 1] \in DOMAIN Entity
Taken(s, i) == IF AtEntity(s, i) THEN 2 ELSE 1
Got(s, i) == CASE AtEntity(s, i) -> <<Entity[s[i + 1]]>>
               [] s[i] = "&" /\ ~AtEntity(s, i) -> <<>>
               [] OTHER -> <<s[i]>>

\* ReadText() of an attribute, with its white space.
Decoded(s) ==
  LET from[i \in 1 .. Len(s) + 1] ==
        IF i > Len(s) THEN <<>> ELSE Got(s, i) \o from[i + Taken(s, i)]
  IN  from[1]

\* ReadText() of a text from its piece at start on: white space becomes one space,
\* and none at the end.
Condensed(s, start) ==
  LET from[i \in 1 .. Len(s) + 1, white \in BOOLEAN] ==
        IF i > Len(s) THEN <<>>
        ELSE IF s[i] = " " THEN from[i + 1, TRUE]
        ELSE (IF white THEN <<" ">> ELSE <<>>) \o Got(s, i) \o from[i + Taken(s, i), FALSE]
  IN  from[start, FALSE]

TextRead(s) ==
  LET letters == {i \in DOMAIN s : s[i] # " "}
  IN  IF letters = {} THEN <<>> ELSE Condensed(s, Min(letters))
-----------------------------------------------------------------------------
(* Print(): "file" puts each child but texts on a line of its own, "lines"  *)
(* (TiXmlPrinter) texts as well, and "stream" (operator<<) nothing.        *)

Chars(s) == [i \in DOMAIN s |-> Char(s[i])]

\* Attributes written as they are.
EncodingsRaw(attributes) == attributes

Encodings(attributes) == [i \in DOMAIN attributes |-> <<attributes[i][1], Encoded(attributes[i][2])>>]

RECURSIVE Printed(_, _)

\* White space before and after a child.
Before(n, style) ==
  IF style = "lines" \/ (style = "file" /\ n.kind # "text") THEN <<Blank>> ELSE <<>>
After(n, style) ==
  IF style = "lines" \/ (style = "file" /\ n.kind = "cdata") THEN <<Blank>> ELSE <<>>

Simple(n, style) == /\ Len(n.kids) = 1 /\ IsText(n.kids[1])
                    /\ style = "file" \/ n.kids[1].kind = "text"

\* The children of n in their lines.
Lines(n, style) ==
  FlattenSeq([i \in DOMAIN n.kids |->
    Before(n.kids[i], style) \o Printed(n.kids[i], style) \o After(n.kids[i], style)])

Printed(n, style) ==
  CASE n.kind = "text"     -> Chars(Encoded(n.value))
    [] n.kind \in Leaves   -> IF n.kind = "unknown" /\ Head(n.value) = "/"
                              THEN <<Token("end", Tail(n.value), <<>>)>>
                              ELSE <<Token(n.kind, n.value, <<>>)>>
    [] n.kind = "document" -> Lines(n, style)
    [] n.kind = "element"  ->
         IF n.kids = <<>> THEN <<Token("empty", n.value, Encodings(n.attributes))>>
         ELSE <<Token("start", n.value, Encodings(n.attributes))>>
              \o (IF Simple(n, style) THEN Printed(n.kids[1], style)
                  ELSE Lines(n, style) \o IF style = "stream" THEN <<>> ELSE <<Blank>>)
              \o <<Token("end", n.value, <<>>)>>
-----------------------------------------------------------------------------
(* Streams.                                                                *)

\* StreamIn(): what operator>> takes ends with the first element.
Depth(ts, i) == LET Count(k) == Cardinality({j \in 1..i : ts[j].kind = k})
                IN  Count("start") - Count("end")

ElementEnds(ts) ==
  LET first == {i \in DOMAIN ts : ts[i].kind \in {"start", "empty"}}
      Inside(i) == SubSeq(ts, Min(first), i)
  IN  {i \in DOMAIN ts : /\ first # {} /\ i >= Min(first) /\ ts[i].kind \in {"end", "empty"}
                         /\ Depth(Inside(i), Len(Inside(i))) = 0}

Streamed(ts) == IF ElementEnds(ts) = {} THEN ts ELSE SubSeq(ts, 1, Min(ElementEnds(ts)))
-----------------------------------------------------------------------------
(* Parse() of the document.                                                *)

TheDocument == stack[1]

\* There is a file, or a document to write one from.
TextInit ==
  /\ at = 1 /\ mode = "idle" /\ error = FALSE /\ saved = <<>>
  /\ \/ file \in Files /\ stack = <<Document(<<>>)>>
     \/ file = <<>> /\ stack \in {<<d>> : d \in Documents}

\* SkipWhiteSpace(): the token at or after i that is not blank, or one past the end.
Skip(i) == Min({j \in i .. Len(file) + 1 : j > Len(file) \/ file[j] # Blank})
EOF == Token("eof", <<>>, <<>>)
Now == IF Skip(at) > Len(file) THEN EOF ELSE file[Skip(at)]

Top == Last(stack)
InElement == Len(stack) > 1

\* LinkEndChild() of k to the last node of s.
Linked(s, k) == [s EXCEPT ![Len(s)].kids = Append(@, k)]
Closed(s) == Linked(Front(s), Last(s))

\* nullptr goes up through the open elements, which stay in the document.
AllClosed(s) == <<FoldRight(LAMBDA n, below : IF below = <<>> THEN <<n>>
                                              ELSE Linked(<<n>>, below[1]),
                            s, <<>>)[1]>>

Fail(s) == mode' = "loaded" /\ error' = TRUE /\ stack' = AllClosed(s)

Keep == UNCHANGED <<file, saved>>

\* LoadFile(), or operator>>; the old children are cleared.
Load(stream) ==
  /\ mode \in {"idle", "loaded"}
  /\ file' = IF stream THEN Streamed(file) ELSE file
  /\ at' = 1 /\ stack' = <<Document(<<>>)>> /\ mode' = "content" /\ error' = FALSE
  /\ UNCHANGED saved

SaveFile(style) ==
  /\ mode \in {"idle", "loaded"} /\ ~error /\ TheDocument.kids # <<>>
  /\ file' = Printed(TheDocument, style)
  /\ saved' = <<TheDocument>> /\ mode' = "idle"
  /\ UNCHANGED <<at, stack, error>>

\* The document is over at the end, and at whatever is no node.
EndDocument ==
  /\ mode = "content" /\ ~InElement /\ Now.kind \in {"eof", "char"}
  /\ mode' = "loaded" /\ error' = (TheDocument.kids = <<>>)
  /\ at' = Skip(at) /\ UNCHANGED stack /\ Keep

\* The end of the file inside an element.
EndTooEarly ==
  /\ mode = "content" /\ InElement /\ Now = EOF
  /\ Fail(stack) /\ UNCHANGED at /\ Keep

\* Comments, CDATA, declarations and unknown nodes; a comment without end ends
\* with the file.
ParseLeaf ==
  /\ mode = "content" /\ Now.kind \in Leaves \union {"half"}
  /\ stack' = Linked(stack, XmlNode(IF Now.kind = "half" THEN "comment" ELSE Now.kind,
                                    Now.value, <<>>, <<>>))
  /\ at' = Skip(at) + 1 /\ UNCHANGED <<mode, error>> /\ Keep

\* A second attribute of a name, or a tag that does not end, is an error.
SecondOfItsName(as) ==
  Min({i \in 1 .. Len(as) + 1 : i > Len(as) \/ \E j \in 1 .. i - 1 : as[j][1] = as[i][1]})

BadTag(t) == t.kind = "tag" \/ SecondOfItsName(t.attributes) <= Len(t.attributes)

Element(t) ==
  XmlNode("element", t.value,
          [i \in 1 .. SecondOfItsName(t.attributes) - 1 |->
             <<t.attributes[i][1], Decoded(t.attributes[i][2])>>], <<>>)

ParseElement ==
  /\ mode = "content" /\ Now.kind \in {"start", "empty", "tag"}
  /\ at' = Skip(at) + 1 /\ Keep
  /\ \/ BadTag(Now) /\ Fail(Append(stack, Element(Now)))
     \/ /\ ~BadTag(Now)
        /\ stack' = IF Now.kind = "empty" THEN Linked(stack, Element(Now))
                    ELSE Append(stack, Element(Now))
        /\ UNCHANGED <<mode, error>>

\* Another end tag taken for the end of the element.
AnyEndTag ==
  /\ mode = "content" /\ Now.kind = "end" /\ InElement
  /\ stack' = Closed(stack) /\ at' = Skip(at) + 1 /\ UNCHANGED <<mode, error>> /\ Keep

EndTag ==
  /\ mode = "content" /\ Now.kind = "end" /\ InElement
  /\ \/ Now.value # Top.value /\ Fail(stack) /\ UNCHANGED at
     \/ Now.value = Top.value /\ stack' = Closed(stack) /\ at' = Skip(at) + 1 /\ UNCHANGED <<mode, error>>
  /\ Keep

\* Outside of elements an end tag is an unknown node.
StrayEndTag ==
  /\ mode = "content" /\ Now.kind = "end" /\ ~InElement
  /\ stack' = Linked(stack, XmlNode("unknown", <<"/">> \o Now.value, <<>>, <<>>))
  /\ at' = Skip(at) + 1 /\ UNCHANGED <<mode, error>> /\ Keep

TextEnd(i) == Min({j \in i .. Len(file) + 1 : j > Len(file) \/ file[j].kind # "char"})

\* The parser going back by one after every text.
ResumeBefore(end) == end - 1

\* Where the parser goes on: at the "<", or at the last character of the file.
Resume(end) == IF end > Len(file) THEN Len(file) ELSE end

\* A text goes to the next "<".  At the end of the file the parser reads the last
\* character as a text again, and again: of these texts the model keeps one, and
\* the character is the last piece.
ReadText ==
  /\ mode = "content" /\ Now.kind = "char" /\ InElement
  /\ LET end   == TextEnd(Skip(at))
         value == TextRead(FlattenSeq([i \in 1 .. end - Skip(at) |-> file[Skip(at) + i - 1].value]))
         text  == XmlNode("text", value, <<>>, <<>>)
         again == Skip(at) = Len(file) /\ Top.kids # <<>> /\ Last(Top.kids) = text
     IN  /\ stack' = IF value = <<>> \/ again THEN stack ELSE Linked(stack, text)
         /\ at' = Resume(end)
  /\ mode' = "text" /\ UNCHANGED error /\ Keep

AfterText == mode = "text" /\ mode' = "content" /\ UNCHANGED <<at, stack, error>> /\ Keep

Parse == \/ EndDocument \/ EndTooEarly \/ ParseLeaf \/ ParseElement
         \/ EndTag \/ StrayEndTag \/ ReadText \/ AfterText

TextNext ==
  \/ \E stream \in BOOLEAN : Load(stream)
  \/ \E style \in {"file", "lines", "stream"} : SaveFile(style)
  \/ Parse

TextSpec == TextInit /\ [][TextNext]_textVars /\ WF_textVars(Parse)
-----------------------------------------------------------------------------
RECURSIVE Plain(_), Markup(_)

\* Documents that a file can tell: texts apart from each other, without white space
\* at their ends, and no value with a reference, which is written as it is.
Plain(n) ==
  LET IsPlain(s) == \A i \in 1 .. Len(s) - 1 : ~(s[i] = "&" /\ s[i + 1] = "#x61;")
  IN  /\ n.kind = "text" => IsPlain(n.value) /\ n.value # <<>> /\ TextRead(Encoded(n.value)) = n.value
      /\ \A i \in DOMAIN n.attributes : IsPlain(n.attributes[i][2])
      /\ \A i \in DOMAIN n.kids :
           /\ Plain(n.kids[i])
           /\ i > 1 => {n.kids[i - 1].kind, n.kids[i].kind} # {"text"}

\* What operator>> takes of the children of a document.
ToElement(kids) ==
  LET elements == {i \in DOMAIN kids : kids[i].kind = "element"}
  IN  IF elements = {} THEN kids ELSE SubSeq(kids, 1, Min(elements))

\* A document that was written, in whichever style, and is loaded again is the
\* same: nodes, order, attributes and values (tinyxml.cc:615 to :656, :1420 to :1508).
SavedDocumentsAreLoaded ==
  mode = "loaded" /\ saved # <<>> /\ Plain(saved[1]) =>
    ~error /\ TheDocument.kids \in {saved[1].kids, ToElement(saved[1].kids)}

\* The tags, comments and the like of a file, with <a></a> for <a/>.
Markup(ts) ==
  LET Of(t) == CASE t.kind = "char" -> <<>>
                 [] t.kind = "empty" -> <<[t EXCEPT !.kind = "start"], Token("end", t.value, <<>>)>>
                 [] t.kind = "half" -> <<[t EXCEPT !.kind = "comment"]>>
                 [] OTHER -> <<t>>
  IN  FlattenSeq([i \in DOMAIN ts |-> Of(ts[i])])

\* A file that is loaded without an error is balanced, and all of it that was read
\* is in the document, at its place (tinyxmlparser.cc:905 to :1085).
AcceptedFilesAreBalanced ==
  mode = "loaded" /\ ~error =>
    /\ Len(stack) = 1
    /\ Markup(SubSeq(file, 1, at - 1)) = Markup(Printed(TheDocument, "stream"))

\* "Fix for [ 1663758 ] Failure to report error on bad XML" (tinyxmlparser.cc:969):
\* a file is loaded, or refused with an error.
LoadingEnds == (mode \in {"content", "text"}) ~> (mode = "loaded")

\* It is when it does not end in the middle of a text (tinyxmlparser.cc:1340).
EndsInText == file # <<>> /\ Last(file).kind = "char" /\ Last(file) # Blank
WholeFilesAreLoaded ==
  (mode \in {"content", "text"} /\ ~EndsInText) ~> (mode = "loaded")
=============================================================================
