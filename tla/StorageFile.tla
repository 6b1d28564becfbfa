----------------------------- MODULE StorageFile -----------------------------
(***************************************************************************)
(* MonitorElementManager::parseStorage(): a <storage> element of XML sets  *)
(* the styles, opens files of references, creates quality tests, and books *)
(* or reads elements with their reference and their tests.  The functions  *)
(* that parse are one walk over the document: Steps gives the calls of the *)
(* walk in order, each call is an action on the manager, and the first     *)
(* that does not return SUCCESS ends the walk.                             *)
(*                                                                         *)
(* An attribute that is missing is "", or Unset for a path or a name; of   *)
(* the style of an object only where it comes from is kept.                *)
(***************************************************************************)
EXTENDS MonitorElements

CONSTANTS
  StorageFiles,  \* the <storage> elements
  RootFiles,     \* for each ROOT file, the name of the object of each key
  Classes,       \* classes without an allocator: "named", "unnamed", "foreign"
  Themes,        \* the builtin themes
  MaxCalls       \* bound: calls of parseStorage()

None == <<>>   \* no <style>, no <reference>

IsSeq(s) == s \in Seq(Range(s))

\* What a <bookElement> or a <fileElement> says of the element.
IsItem(i) ==
  /\ i.path \in Paths \union {Unset} /\ i.name \in ObjNames \union {Unset}
  /\ IsSeq(i.tests)

ASSUME StorageFilesAssumption ==
  /\ \A x \in StorageFiles :
       /\ x.style = None \/ {x.style.object, x.style.reference} \subseteq {"none", "good", "bad"}
       /\ IsSeq(x.references) /\ IsSeq(x.tests) /\ IsSeq(x.elements)
       /\ \A t \in Range(x.tests) : t.name \in Tests \union {Unset}
       /\ \A i \in Range(x.elements) :
            /\ i.tag \in {"bookElement", "fileElement"} => IsItem(i)
            /\ i.tag = "file" => IsSeq(i.elements) /\ \A j \in Range(i.elements) : IsItem(j)
  /\ \A f \in DOMAIN RootFiles : Range(RootFiles[f]) \subseteq ObjNames

VARIABLES
  call,        \* "none", "reading", "done", or "undefined"
  calls,       \* calls so far
  xml,         \* what the last call was given
  todo,        \* the calls the walk still makes
  current,     \* monitorElement: the element the walk made last
  created,     \* m_qualityTestMap
  references,  \* m_references: the file of each id
  styles,      \* m_objectStyle and m_referenceStyle
  styleOf,     \* the style of the object of an element
  reference,   \* the reference object of an element
  before       \* what was stored when the call began

document  == <<xml, before, calls>>
walk      == <<call, todo>>
setup     == <<created, references, styles>>
furnished == <<current, styleOf, reference>>
fileVars  == <<document, walk, setup, furnished>>

FileInit ==
  /\ call = "none" /\ calls = 0 /\ xml = None /\ todo = <<>> /\ before = <<>>
  /\ current = NoElement /\ created = {} /\ references = <<>>
  /\ styles = [object |-> "plain", reference |-> "plain"]
  /\ styleOf = [e \in Elements |-> "plain"]
  /\ reference = [e \in Elements |-> None]
-----------------------------------------------------------------------------
\* The walk over the children of <monitorElements>.
Configures(i) ==
  (IF i.reference = None THEN <<>> ELSE << [do |-> "reference", of |-> i.reference] >>)
    \o [t \in DOMAIN i.tests |-> [do |-> "test", of |-> i.tests[t]]]

Reads(file, i) == << [do |-> "read", of |-> i, file |-> file] >> \o Configures(i)

ElementSteps(i) ==
  CASE i.tag = "bookElement" -> << [do |-> "book", of |-> i] >> \o Configures(i)
    [] i.tag = "fileElement" -> << [do |-> "attribute", of |-> i.file] >> \o Reads(i.file, i)
    [] i.tag = "file" ->
         << [do |-> "attribute", of |-> i.file] >>
           \o FlattenSeq([k \in DOMAIN i.elements |-> Reads(i.file, i.elements[k])])
    [] OTHER -> <<>>

Parts(x) ==
  << << [do |-> "style", of |-> x.style] >>,
     [k \in DOMAIN x.references |-> [do |-> "file", of |-> x.references[k]]],
     [k \in DOMAIN x.tests |-> [do |-> "create", of |-> x.tests[k]]],
     FlattenSeq([k \in DOMAIN x.elements |-> ElementSteps(x.elements[k])]) >>

\* The styles are parsed last.
StepsStyledLast(x) == Parts(x)[2] \o Parts(x)[3] \o Parts(x)[4] \o Parts(x)[1]

Steps(x) == FlattenSeq(Parts(x))

ParseStorage(x) ==
  /\ call # "reading" /\ calls < MaxCalls
  /\ call' = "reading" /\ calls' = calls + 1
  /\ xml' = x /\ todo' = Steps(x) /\ before' = stored
  /\ UNCHANGED <<vars, setup, furnished>>

\* RETURN_RESULT_IF after each call of the walk.
Continues ==
  /\ todo' = IF status' = "SUCCESS" THEN Tail(todo) ELSE <<>>
  /\ call' = IF todo' = <<>> THEN "done" ELSE "reading"

Returns(s) == Return(s) /\ UNCHANGED <<storage, element>> /\ NoResults
-----------------------------------------------------------------------------
\* builtinStyle() resets both styles, also for a theme it does not know.
Builtin(theme) ==
  IF theme \in Themes THEN [object |-> theme, reference |-> theme]
  ELSE [object |-> "plain", reference |-> "plain"]

\* fromXml() of <object> or <reference>: one that fails has set some fields.
FromXml(style, change) ==
  IF change = "none" THEN style ELSE IF change = "good" THEN "changed" ELSE "partly"

ThemeOf(style) ==
  IF style = None \/ style.theme = "" THEN "default" ELSE style.theme

ParseStyle(style) ==
  LET theme == ThemeOf(style)
      built == Builtin(theme)
  IN IF style = None \/ theme \notin Themes
     THEN styles' = built /\ Returns(IF theme \in Themes THEN "SUCCESS" ELSE "NOT_FOUND")
     ELSE /\ styles' = [object |-> FromXml(built.object, style.object),
                        reference |-> IF style.object = "bad" THEN built.reference
                                      ELSE FromXml(built.reference, style.reference)]
          /\ Returns(IF "bad" \in {style.object, style.reference} THEN "FAILURE" ELSE "SUCCESS")

\* addReferenceFile(): an id is taken once, a file that cannot be opened fails.
AddReferenceFile(r) ==
  LET opens == r.file \in DOMAIN RootFiles
  IN IF "" \in {r.id, r.file} THEN Returns("NOT_FOUND") /\ UNCHANGED references
     ELSE IF r.id \in DOMAIN references THEN Returns("ALREADY_PRESENT") /\ UNCHANGED references
     ELSE IF ~opens THEN Returns("FAILURE") /\ UNCHANGED references
     ELSE /\ references' = [i \in DOMAIN references \union {r.id} |->
                              IF i = r.id THEN r.file ELSE references[i]]
          /\ Returns("SUCCESS")

\* createQualityTest(): known is the type, and good its settings.
CreateTest(t) ==
  LET s == IF t.name = Unset THEN "NOT_FOUND"
           ELSE IF t.name \in created THEN "ALREADY_PRESENT"
           ELSE IF t.good THEN "SUCCESS" ELSE "FAILURE"
  IN /\ created' = IF s = "SUCCESS" THEN created \union {t.name} ELSE created
     /\ Returns(s)
-----------------------------------------------------------------------------
\* The attributes that an allocator (AllocatorHelper.cc) needs.
HistogramAttributes ==
  [ TH1 |-> {"nBinsX", "minX", "maxX"},
    TH2 |-> {"nBinsX", "minX", "maxX", "nBinsY", "minY", "maxY"},
    TH3 |-> {"nBinsX", "minX", "maxX", "nBinsY", "minY", "maxY", "nBinsZ", "minZ", "maxZ"} ]

ProfileAttributes ==
  [ THStack |-> {}, TH2Poly |-> {"xlow", "xup", "ylow", "yup"},
    TProfile |-> {"nBinsX", "xlow", "xup", "ylow", "yup"},
    TProfile2D |-> {"nBinsX", "nBinsY", "xlow", "xup", "ylow", "yup", "zlow", "zup"} ]

\* A scalar with a value that is missing, or is not a number, holds 0.
ScalarTypes == {"int", "real", "float", "double", "short", "long", "long64"}

Needs(type) ==
  IF type \in DOMAIN HistogramAttributes THEN HistogramAttributes[type]
  ELSE IF type \in DOMAIN ProfileAttributes THEN ProfileAttributes[type] ELSE {}

\* The default allocator takes any class that ROOT can make an object of.
Known(type) ==
  type \in DOMAIN HistogramAttributes \union DOMAIN ProfileAttributes
             \union ScalarTypes \union DOMAIN Classes

Allocates(i) == Known(i.type) /\ Needs(i.type) \subseteq i.has

ClassOf(type) == IF type \in DOMAIN Classes THEN Classes[type] ELSE "named"

PathOf(i) == IF i.path = Unset THEN <<>> ELSE i.path

\* applyTo(): the object of e gets the style of objects.
Styled(e) == styleOf' = [styleOf EXCEPT ![e] = styles.object]

\* The element is made, its object styled, and then it may be refused.
Makes(p, n) ==
  \E e \in Elements :
    /\ Book(e, p, n)
    /\ current' = e
    /\ Styled(e)
    /\ reference' = [reference EXCEPT ![e] = None]

\* bookMonitorElement(): SetNameTitle() of an object that is no TNamed comes
\* before the class is checked.
BookElement(i) ==
  IF i.type = "" \/ i.name = Unset THEN Returns("NOT_FOUND") /\ UNCHANGED furnished
  ELSE IF ~Allocates(i) THEN Returns("FAILURE") /\ UNCHANGED furnished
  ELSE IF ClassOf(i.type) = "foreign" THEN Returns("NOT_ALLOWED") /\ UNCHANGED furnished
  ELSE ClassOf(i.type) = "named" /\ Makes(PathOf(i), i.name)

Crashes(i) ==
  /\ i.type # "" /\ i.name # Unset /\ Allocates(i) /\ ClassOf(i.type) = "unnamed"
  /\ call' = "undefined" /\ todo' = <<>>
  /\ UNCHANGED <<vars, document, setup, furnished>>

\* What Get() gives for a key of a file that may not be there.
Has(file, key) == file \in DOMAIN RootFiles /\ key \in DOMAIN RootFiles[file]

ReadElement(file, i) ==
  LET key == <<PathOf(i), i.name>>
  IN IF i.name = Unset \/ ~Has(file, key) THEN Returns("NOT_FOUND") /\ UNCHANGED furnished
     ELSE Makes(PathOf(i), RootFiles[file][key])

\* attachReference(): the path and the name are those of the element, where
\* they are not given.
Target(r, e) == << IF r.path = Unset THEN path[e] ELSE r.path,
                   IF r.name = Unset THEN name[e] ELSE r.name >>

AttachReference(r) ==
  LET key == Target(r, current)
  IN IF r.id \notin DOMAIN references \/ ~Has(references[r.id], key)
     THEN Returns("NOT_FOUND") /\ UNCHANGED furnished
     ELSE /\ reference' = [reference EXCEPT ![current] =
               [file |-> references[r.id], key |-> key, style |-> styles.reference]]
          /\ Returns("SUCCESS") /\ UNCHANGED <<current, styleOf>>

AttachTest(t) ==
  IF t \notin created THEN Returns("NOT_FOUND")
  ELSE AddQualityTest(path[current], name[current], t)

\* One call of the walk.
Walks ==
  /\ call = "reading"
  /\ LET s == Head(todo) IN
     \/ /\ \/ s.do = "style" /\ ParseStyle(s.of) /\ UNCHANGED <<created, references>>
           \/ s.do = "file" /\ AddReferenceFile(s.of) /\ UNCHANGED <<created, styles>>
           \/ s.do = "create" /\ CreateTest(s.of) /\ UNCHANGED <<references, styles>>
        /\ Continues /\ UNCHANGED <<document, furnished>>
     \/ /\ \/ s.do = "book" /\ BookElement(s.of)
           \/ s.do = "read" /\ ReadElement(s.file, s.of)
           \/ s.do = "reference" /\ AttachReference(s.of)
        /\ Continues /\ UNCHANGED <<document, setup>>
     \/ /\ \/ s.do = "test" /\ AttachTest(s.of)
           \/ /\ s.do = "attribute"
              /\ Returns(IF s.of = "" THEN "NOT_FOUND" ELSE "SUCCESS")
        /\ Continues /\ UNCHANGED <<document, setup, furnished>>
     \/ s.do = "book" /\ Crashes(s.of)

\* Between two calls, elements are removed, and the handle of one that could
\* not be stored goes with the call.
Meanwhile ==
  /\ call \in {"none", "done"}
  /\ \/ \E e \in Elements : Drop(e)
     \/ \E p \in Paths, n \in ObjNames : RemoveMonitorElement(p, n)
  /\ call' = "none"
  /\ UNCHANGED <<document, todo, setup, furnished>>

FileNext ==
  \/ call # "undefined" /\ \E x \in StorageFiles : ParseStorage(x)
  \/ Walks \/ Meanwhile

FileSpec == Init /\ FileInit /\ [][FileNext]_<<vars, fileVars>>
-----------------------------------------------------------------------------
\* The elements a document asks for, in its order, each with the name of its
\* object.
Named(file, i) == << <<i, RootFiles[file][<<PathOf(i), i.name>>]>> >>

WantedOf(i) ==
  CASE i.tag = "bookElement" -> << <<i, i.name>> >>
    [] i.tag = "fileElement" -> Named(i.file, i)
    [] i.tag = "file" ->
         FlattenSeq([k \in DOMAIN i.elements |-> Named(i.file, i.elements[k])])
    [] OTHER -> <<>>

Wanted(x) == FlattenSeq([k \in DOMAIN x.elements |-> WantedOf(x.elements[k])])

StylesOf(x) ==
  LET theme == IF x.style = None \/ x.style.theme = "" THEN "default" ELSE x.style.theme
  IN [object |-> IF x.style # None /\ x.style.object = "good" THEN "changed" ELSE theme,
      reference |-> IF x.style # None /\ x.style.reference = "good" THEN "changed" ELSE theme]

\* The element e is what the XML element i, with an object called n, says.
Begun(e, i, n, x) ==
  /\ path[e] = PathOf(i) /\ name[e] = n /\ Find(PathOf(i), n) = e
  /\ styleOf[e] = StylesOf(x).object
  /\ attached[e] \subseteq Range(i.tests)

\* The reference that i asks for, of an element with an object called n.
Meant(i, n, x) ==
  IF i.reference = None THEN None
  ELSE [file |-> references[i.reference.id],
        key |-> << IF i.reference.path = Unset THEN PathOf(i) ELSE i.reference.path,
                   IF i.reference.name = Unset THEN n ELSE i.reference.name >>,
        style |-> StylesOf(x).reference]

Furnished(e, i, n, x) ==
  /\ Begun(e, i, n, x)
  /\ attached[e] = Range(i.tests)
  /\ reference[e] = Meant(i, n, x)

(***************************************************************************)
(* After a storage file is read with SUCCESS, its elements, and no others, *)
(* were added in its order, each in its place, with its own tests, in the  *)
(* style of the file and with the reference the file means.  If reading    *)
(* failed, this holds of the elements before the one it failed at, and     *)
(* nothing of the later ones was done (MonitorElementManager.h:875-929 and *)
(* 993-1020).                                                              *)
(***************************************************************************)
StorageFilesAreReadInOrder ==
  call = "done" =>
    LET new == SubSeq(stored, Len(before) + 1, Len(stored))
        whole == IF status = "SUCCESS" THEN Len(new) ELSE Len(new) - 1
    IN /\ SubSeq(stored, 1, Len(before)) = before
       /\ status = "SUCCESS" => Len(new) = Len(Wanted(xml))
       /\ \A k \in DOMAIN new :
            LET w == Wanted(xml)[k]
            IN IF k <= whole THEN Furnished(new[k], w[1], w[2], xml)
               ELSE Begun(new[k], w[1], w[2], xml)
=============================================================================
