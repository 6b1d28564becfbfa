------------------------------ MODULE EventReader ------------------------------
(***************************************************************************)
(* GenericEventXMLReader (GenericEventXMLReader.cc), the implementation of *)
(* EventReader (EventReader.h): an XML document and a pointer to its next  *)
(* event element.  readNextEvent() gives the event to the callbacks of a   *)
(* signal before it moves the pointer, and a callback may call the reader. *)
(*                                                                         *)
(* A document is the sequence of its event elements, each of which         *)
(* readNextEvent() can convert ("good") or not ("bad").                    *)
(***************************************************************************)
EXTENDS Integers, Sequences, FiniteSets, Functions

CONSTANTS
  EventFiles,     \* the files that load, by their events
  Missing,        \* files that cannot be opened
  Malformed,      \* files that open and do not parse
  RootlessFiles,  \* files that parse and have no root element
  NoDoc,          \* a document without root element
  Partial,        \* what a file that does not parse leaves, if it has a root
  SkipCounts,     \* the arguments of skipNEvents()
  MaxDepth,       \* bound: reads nested in one another by callbacks
  MaxGiven        \* bound: events given before the documented use begins

ASSUME ReaderAssumption ==
  /\ EventFiles \subseteq Seq({"good", "bad"})
  /\ NoDoc \notin EventFiles /\ Partial \notin EventFiles /\ NoDoc # Partial
  /\ SkipCounts \subseteq Int
  /\ MaxDepth \in Nat /\ MaxGiven \in Nat

Null     == 0    \* m_currentEvent is null
Dangling == -1   \* m_currentEvent points at an element that was deleted

VARIABLES
  doc,        \* m_document
  cursor,     \* m_currentEvent: Null, Dangling or a position in doc
  reads,      \* the calls of readNextEvent() whose callbacks are running
  given,      \* the events given to the callbacks since doc was loaded
  skipped,    \* the events skipped since doc was loaded
  nested,     \* what callbacks did to the reader since doc was loaded
  status,     \* the last status code returned
  undefined   \* a null or dangling pointer was followed

readerVars == <<doc, cursor, reads, given, skipped, nested, status, undefined>>

ReaderInit ==
  /\ doc = NoDoc /\ cursor = Null
  /\ reads = <<>> /\ given = <<>> /\ skipped = {} /\ nested = {}
  /\ status = "SUCCESS" /\ undefined = FALSE

Returns(s) == status' = s /\ UNCHANGED undefined

Crashes ==
  /\ undefined' = TRUE
  /\ UNCHANGED <<doc, cursor, reads, given, skipped, nested, status>>

\* nested' after an operation of kind k, called from a callback or not.
Nests(k) == IF reads = <<>> THEN {} ELSE {k}

Forget(k) == given' = <<>> /\ skipped' = {} /\ nested' = Nests(k)
-----------------------------------------------------------------------------
FirstEvent(d) == IF d = <<>> THEN Null ELSE 1

OpenDocument(d) ==
  /\ doc' = d
  /\ cursor' = FirstEvent(d)
  /\ Forget("load")
  /\ Returns(IF d = <<>> THEN "FAILURE" ELSE "SUCCESS")
  /\ UNCHANGED reads

\* LoadFile() does not touch the document when the file does not open.
OpenMissing ==
  /\ Missing # {}
  /\ Returns("FAILURE")
  /\ UNCHANGED <<doc, cursor, reads, given, skipped, nested>>

\* LoadFile() deletes the previous elements before it parses.
OpenMalformed ==
  /\ Malformed # {}
  /\ doc' \in {NoDoc, Partial}
  /\ cursor' = IF cursor = Null THEN Null ELSE Dangling
  /\ Forget("load")
  /\ Returns("FAILURE")
  /\ UNCHANGED reads

\* open() follows the null pointer that RootElement() returns.
OpenRootless == RootlessFiles # {} /\ Crashes

Close ==
  /\ doc' = NoDoc
  /\ cursor' = IF cursor = Null THEN Null ELSE Dangling
  /\ Forget("load")
  /\ Returns("SUCCESS")
  /\ UNCHANGED reads

RunInfo ==
  \/ doc = NoDoc /\ Crashes
  \/ /\ doc # NoDoc
     /\ \E s \in {"SUCCESS", "NOT_FOUND", "FAILURE"} : Returns(s)
     /\ UNCHANGED <<doc, cursor, reads, given, skipped, nested>>
-----------------------------------------------------------------------------
\* NextSiblingElement("event") of the event at position i.
Sibling(i) == IF i < Len(doc) THEN i + 1 ELSE Null

\* The position after n turns of the loop of skipNEvents(); for n < 0 the
\* counter never meets n.
SkipTo(n) ==
  IF n < 0 \/ cursor + n > Len(doc) THEN Null ELSE cursor + n

Passed(to) == cursor .. (IF to = Null THEN Len(doc) ELSE to - 1)

SkipNEvents(n) ==
  \/ /\ n = 0
     /\ Returns("SUCCESS")
     /\ UNCHANGED <<doc, cursor, reads, given, skipped, nested>>
  \/ n # 0 /\ cursor \in {Null, Dangling} /\ Crashes
  \/ /\ n # 0 /\ cursor > 0
     /\ cursor' = SkipTo(n)
     /\ skipped' = skipped \cup Passed(SkipTo(n))
     /\ nested' = nested \cup Nests("move")
     /\ Returns(IF SkipTo(n) = Null THEN "OUT_OF_RANGE" ELSE "SUCCESS")
     /\ UNCHANGED <<doc, reads, given>>

\* readNextEvent() that does not tell the end of the file from an event.
ReadAtEndSucceeds ==
  /\ cursor = Null
  /\ Returns("SUCCESS")
  /\ UNCHANGED <<doc, cursor, reads, given, skipped, nested>>

ReadAtEnd ==
  /\ cursor = Null
  /\ Returns("OUT_OF_RANGE")
  /\ UNCHANGED <<doc, cursor, reads, given, skipped, nested>>

ReadDangling == cursor = Dangling /\ Crashes

\* An error returns before the pointer is moved.
ReadBad ==
  /\ cursor > 0 /\ doc[cursor] = "bad"
  /\ Returns("FAILURE")
  /\ UNCHANGED <<doc, cursor, reads, given, skipped, nested>>

\* The emission of onEventRead begins.
ReadGood ==
  /\ cursor > 0 /\ doc[cursor] = "good"
  /\ reads' = Append(reads, cursor)
  /\ given' = Append(given, cursor)
  /\ nested' = nested \cup Nests("move")
  /\ UNCHANGED <<doc, cursor, skipped, status, undefined>>

ReadNextEvent == ReadAtEnd \/ ReadDangling \/ ReadBad \/ ReadGood

\* The callbacks have returned, and nothing moves the pointer.
EmissionEndsInPlace ==
  /\ reads # <<>>
  /\ reads' = SubSeq(reads, 1, Len(reads) - 1)
  /\ Returns("SUCCESS")
  /\ UNCHANGED <<doc, cursor, given, skipped, nested>>

\* The callbacks have returned: the pointer, as they leave it, is moved.
EmissionEnds ==
  /\ reads # <<>>
  /\ \/ cursor \in {Null, Dangling} /\ Crashes
     \/ /\ cursor > 0
        /\ cursor' = Sibling(cursor)
        /\ reads' = SubSeq(reads, 1, Len(reads) - 1)
        /\ Returns("SUCCESS")
        /\ UNCHANGED <<doc, given, skipped, nested>>

Open == (\E d \in EventFiles : OpenDocument(d)) \/ OpenMissing \/ OpenMalformed \/ OpenRootless

ReaderNext ==
  /\ ~undefined
  /\ \/ Open \/ Close \/ RunInfo
     \/ \E n \in SkipCounts : SkipNEvents(n)
     \/ ReadNextEvent \/ EmissionEnds

ReaderSpec == ReaderInit /\ [][ReaderNext]_readerVars
-----------------------------------------------------------------------------
Accounted == Range(given) \cup skipped

\* Every event before the pointer was given to the callbacks once and in the
\* order of the file, or skipped, and none after it was, as long as no callback
\* calls the reader; a null pointer means that no event is left.
EventsAreGivenInOrder ==
  doc \in EventFiles /\ nested = {} =>
    /\ \A i, j \in DOMAIN given : i < j => given[i] < given[j]
    /\ Range(given) \cap skipped = {}
    /\ Accounted = IF cursor = Null THEN DOMAIN doc
                   ELSE 1 .. (IF reads = <<>> THEN cursor - 1 ELSE cursor)

\* Each event given, or skipped, moves the pointer by one, also when callbacks
\* read and skip: a read nested in a callback gives the same event again, and
\* an event that follows it is then never given.
MovesMatchEvents ==
  doc \in EventFiles /\ "load" \notin nested /\ cursor > 0 =>
    cursor = 1 + Cardinality(skipped) + Len(given) - Len(reads)
-----------------------------------------------------------------------------
(***************************************************************************)
(* A consumer of an EventReader.  It uses the reader in any way, callbacks *)
(* that call the reader included, and at some time as EventReader.h:45-62  *)
(* documents: open a file, skip events ("not mandatory": none, too), then  *)
(*     while (STATUS_CODE_SUCCESS == reader->readNextEvent());             *)
(* with callbacks that return and do not call the reader.  What open() and *)
(* skipNEvents() return is not looked at.                                  *)
(***************************************************************************)
VARIABLES
  pc,      \* "free", or what the consumer does next in the documented use
  opened,  \* the pointer as open() leaves it in the documented use
  got      \* the events given in the documented use

consumer == <<pc, opened, got>>
loopVars == <<doc, cursor, reads, given, skipped, nested, status, undefined, consumer>>

LoopInit == ReaderInit /\ pc = "free" /\ opened = Null /\ got = <<>>

UsesFreely ==
  /\ pc = "free" /\ ReaderNext
  /\ Len(reads') <= MaxDepth /\ Len(given') <= MaxGiven
  /\ UNCHANGED consumer

\* Whatever the reader has been used for, no callback of it is running.
ConsumerOpens ==
  /\ pc = "free" /\ ~undefined /\ reads = <<>>
  /\ Open
  /\ opened' = cursor'
  /\ pc' = IF undefined' THEN "free" ELSE "skip"
  /\ UNCHANGED got

ConsumerSkips ==
  /\ pc = "skip"
  /\ \E n \in SkipCounts : n >= 0 /\ SkipNEvents(n)
  /\ pc' = "read"
  /\ UNCHANGED <<opened, got>>

ConsumerReads ==
  /\ pc = "read"
  /\ ReadNextEvent
  /\ got' = IF reads' # <<>> THEN Append(got, cursor) ELSE got
  /\ pc' = IF reads' # <<>> THEN "callbacks"
           ELSE IF status' = "SUCCESS" THEN "read" ELSE "done"
  /\ UNCHANGED opened

CallbacksReturn ==
  /\ pc = "callbacks"
  /\ EmissionEnds
  /\ pc' = "read"
  /\ UNCHANGED <<opened, got>>

InTheLoop == ~undefined /\ (ConsumerSkips \/ ConsumerReads \/ CallbacksReturn)

LoopNext == UsesFreely \/ ConsumerOpens \/ InTheLoop

\* The loop is one thread, and its callbacks return: once it has begun, some
\* step is always taken until the loop ends or the program is undefined.
LoopSpec == LoopInit /\ [][LoopNext]_loopVars /\ WF_loopVars(InTheLoop)
-----------------------------------------------------------------------------
\* The events given are, in the order of the file, those between the pointer
\* that open() left and where the reader stands, but for those skipped; and the
\* reader stands at the end, or at an event that cannot be read.
ReadsEverything ==
  LET passed == opened .. (IF cursor = Null THEN Len(doc) ELSE cursor - 1)
  IN  /\ IF cursor = Null THEN status = "OUT_OF_RANGE"
                          ELSE status = "FAILURE" /\ doc[cursor] = "bad"
      /\ IF opened = Null
         THEN cursor = Null /\ got = <<>>
         ELSE /\ \A i, j \in DOMAIN got : i < j => got[i] < got[j]
              /\ \A i \in Range(got) : i \in passed /\ doc[i] = "good"
              /\ passed \ Range(got) \subseteq skipped

\* A null or dangling pointer is followed only if open() left one: the file has
\* no event, or did not load and no event was left of the one before.
LoopOutcome ==
  \/ pc = "done" /\ ReadsEverything
  \/ undefined /\ opened \in {Null, Dangling}

(***************************************************************************)
(* The documented loop (EventReader.h:45-62) ends, whatever the reader was *)
(* used for before.  If open() succeeds, every event of the file is given  *)
(* or skipped up to the first after the skip that cannot be read, wherever *)
(* the skip leaves the reader, and no pointer is followed that should not  *)
(* be.  The consumer does not look at what open() returns: if it fails,    *)
(* the loop reads what is left of the file before                          *)
(* (GenericEventXMLReader.cc:72), nothing, or is undefined, no worse.      *)
(***************************************************************************)
LoopEnds ==
  /\ (pc = "skip" /\ status = "SUCCESS") ~> (pc = "done" /\ opened = 1 /\ ReadsEverything)
  /\ pc = "skip" ~> LoopOutcome
=============================================================================
