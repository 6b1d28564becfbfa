----------------------------- MODULE ElementStream -----------------------------
(***************************************************************************)
(* MonitorElementStreamer (MonitorElementStreamer.h) with                  *)
(* MonitorElement::toDevice() and fromDevice() (MonitorElement.cc):        *)
(* elements, vectors of them and maps of vectors, written one after the    *)
(* other, then read from a copy of the device that may be cut short.       *)
(*                                                                         *)
(* Names, objects and paths are values; an element is its path, its object *)
(* and its reference.  The containers of StreamingHelper                   *)
(* (StreamingHelper.h) go through the same device, an xdrstream device     *)
(* with one cell for each value; its callers drop a device on which a      *)
(* write failed.                                                           *)
(***************************************************************************)
EXTENDS Naturals, SequencesExt

CONSTANTS
  Records,     \* what callers write, [kind, value]: a bound on the inputs
  NoObject,    \* a null object pointer, and a null element pointer
  MaxRecords,  \* bound: records on the device
  MaxFailures  \* bound: writes that fail, and reads that fail

Cut == <<"cut", 0>>   \* what a failed write leaves

IsSeq(s) == s \in Seq(Range(s))
IsElement(e) == e = [path |-> e.path, object |-> e.object, reference |-> e.reference]
IsList(es) == IsSeq(es) /\ \A e \in Range(es) : e = NoObject \/ IsElement(e)
IsEntries(m) == IsSeq(m) /\ \A x \in Range(m) : x = <<x[1], x[2]>>
IsMap(m) == IsEntries(m) /\ \A i, j \in DOMAIN m : m[i][1] = m[j][1] => i = j

ASSUME RecordsAssumption ==
  \A rec \in Records :
    CASE rec.kind = "element"  -> rec.value = NoObject \/ IsElement(rec.value)
      [] rec.kind = "list"     -> IsList(rec.value)
      [] rec.kind = "map"      -> IsMap(rec.value) /\ \A x \in Range(rec.value) : IsList(x[2])
      [] rec.kind = "values"   -> IsSeq(rec.value)
      [] rec.kind = "entries"  -> IsMap(rec.value)
      [] rec.kind = "multimap" -> IsEntries(rec.value)
      [] rec.kind = "vectors"  -> IsMap(rec.value) /\ \A x \in Range(rec.value) : IsSeq(x[2])
      [] OTHER -> FALSE
-----------------------------------------------------------------------------
(* The device, external: cells and a position.  The outcome of writing is  *)
(* the status and the device that results; every write of a cell may fail, *)
(* so writing gives a set of outcomes.  A reader sees the first `limit'    *)
(* cells only, and its outcome has what was read so far in `got'.          *)

Outcome(code, cells, pos) == [code |-> code, cells |-> cells, pos |-> pos]
Ok(o) == o.code = "SUCCESS"

\* write() over what is at the position, or at the end.
WriteCell(o, c) ==
  LET With(x) == IF o.pos < Len(o.cells) THEN [o.cells EXCEPT ![o.pos + 1] = x]
                 ELSE Append(o.cells, x)
  IN  {Outcome("SUCCESS", With(c), o.pos + 1), Outcome("FAILURE", With(Cut), o.pos)}

\* A call that is made only if those before it succeeded.
Then(outcomes, Call(_)) ==
  {o \in outcomes : ~Ok(o)} \union UNION {Call(o) : o \in {p \in outcomes : Ok(p)}}

WriteNext(outcomes, c) == Then(outcomes, LAMBDA p : WriteCell(p, c))

WriteCells(o, cs) ==
  LET after[i \in 0 .. Len(cs)] == IF i = 0 THEN {o} ELSE WriteNext(after[i - 1], cs[i])
  IN  after[Len(cs)]

\* XDRSTREAM_SUCCESS_RESTORE and the like: what fails seeks back.
Restoring(pos, outcomes) ==
  {IF Ok(o) THEN o ELSE [o EXCEPT !.pos = pos] : o \in outcomes}

Reader(cells, pos, limit, got) ==
  [code |-> "SUCCESS", cells |-> cells, pos |-> pos, limit |-> limit, got |-> got]

\* read() of a cell, and what it gave.
ReadCell(r) ==
  IF ~Ok(r) THEN r
  ELSE IF r.pos < r.limit THEN [r EXCEPT !.pos = @ + 1] ELSE [r EXCEPT !.code = "FAILURE"]

Given(r) == r.cells[r.pos][2]
-----------------------------------------------------------------------------
(* StreamingHelper.  Nothing is restored when a call fails.  A container   *)
(* is the sequence of its entries as they were inserted (the order of the  *)
(* keys is not modelled); a map has one entry for a key, and insert()      *)
(* keeps the one it has.                                                   *)

Value(x) == <<"value", x>>

\* write() of a list, a vector or a set.
WriteValues(o, xs) ==
  WriteCells(o, <<<<"count", Len(xs)>>>> \o [i \in DOMAIN xs |-> Value(xs[i])])

\* write() of a map or a multimap; an entry is a key and a value, one after the
\* other.
WriteEntries(o, es) ==
  WriteCells(o, <<<<"count", Len(es)>>>>
                \o [i \in 1 .. 2 * Len(es) |-> Value(es[(i + 1) \div 2][2 - (i % 2)])])

\* insert() of a map, near its end.
Inserted(es, entry) ==
  IF \E i \in DOMAIN es : es[i][1] = entry[1] THEN es ELSE Append(es, entry)

\* One turn of the loop of a read().
ReadValue(p) ==
  LET q == ReadCell(p)
  IN  IF Ok(q) THEN [q EXCEPT !.got = Append(@, Given(q))] ELSE q

ReadEntry(p, kind) ==
  LET q == ReadCell(p)
      s == ReadCell(q)
      entry == <<Given(q), Given(s)>>
  IN  IF ~Ok(s) THEN s
      ELSE [s EXCEPT !.got = IF kind = "multimap" THEN Append(@, entry) ELSE Inserted(@, entry)]
-----------------------------------------------------------------------------
VARIABLES
  out,       \* the device that is written: [code, cells, pos]
  log,       \* the records written completely: [kind, value, start, end]
  in,        \* the reader: [code, cells, pos, limit, got]
  fails,     \* how many calls failed, writing and reading
  lastRecord \* the last read: the record at that position, what the caller had

stream == <<out, log, in, fails, lastRecord>>

Blank == [path |-> "", object |-> NoObject, reference |-> NoObject]

StreamInit ==
  /\ out = Outcome("SUCCESS", <<>>, 0)
  /\ log = <<>>
  /\ in = Reader(<<>>, 0, 0, <<>>)
  /\ fails = [write |-> 0, read |-> 0]
  /\ lastRecord = <<>>
-----------------------------------------------------------------------------
(* Writing.                                                                *)

\* The flag, and the object if there is one.
PartCells(x) == IF x = NoObject THEN <<<<"flag", FALSE>>>>
                ELSE <<<<"flag", TRUE>>, <<"object", x>>>>

\* MonitorElement::toDevice().
toDevice(o, e) ==
  Restoring(o.pos, WriteCells(o, <<<<"path", e.path>>>> \o PartCells(e.object)
                                                        \o PartCells(e.reference)))

writeMonitorElement(o, e) ==
  IF e = NoObject THEN {[o EXCEPT !.code = "INVALID_PTR"]} ELSE toDevice(o, e)

WriteListed(outcomes, e) == Then(outcomes, LAMBDA p : writeMonitorElement(p, e))

WriteElements(outcomes, es) ==
  LET after[i \in 0 .. Len(es)] == IF i = 0 THEN outcomes ELSE WriteListed(after[i - 1], es[i])
  IN  after[Len(es)]

\* The count goes in last, over the place that was kept for it.
WriteList(o, es) ==
  LET kept == WriteCell(o, <<"count", 0>>)
      Counted(p) ==
        Then(WriteCell([p EXCEPT !.pos = o.pos], <<"count", Len(es)>>),
             LAMBDA q : {[q EXCEPT !.pos = p.pos]})
  IN  Restoring(o.pos, Then(WriteElements(kept, es), Counted))

\* A map of vectors, of elements or of values: each key, then its vector.
WriteVector(outcomes, kind, x) ==
  Then(WriteNext(outcomes, Value(x[1])),
       LAMBDA p : IF kind = "map" THEN WriteList(p, x[2]) ELSE WriteValues(p, x[2]))

WriteVectors(o, kind, m) ==
  LET after[i \in 0 .. Len(m)] ==
        IF i = 0 THEN WriteCell(o, <<"count", Len(m)>>) ELSE WriteVector(after[i - 1], kind, m[i])
  IN  after[Len(m)]

WriteAny(o, rec) ==
  CASE rec.kind = "element" -> writeMonitorElement(o, rec.value)
    [] rec.kind = "list"    -> WriteList(o, rec.value)
    [] rec.kind = "map"     -> Restoring(o.pos, WriteVectors(o, "map", rec.value))
    [] rec.kind = "values"  -> WriteValues(o, rec.value)
    [] rec.kind = "vectors" -> WriteVectors(o, "vectors", rec.value)
    [] rec.kind \in {"entries", "multimap"} -> WriteEntries(o, rec.value)

Restored == {"element", "list", "map"}   \* the kinds of MonitorElementStreamer

Write(rec) ==
  /\ Len(log) < MaxRecords
  /\ Ok(out) /\ in.cells = <<>>
  /\ \E o \in WriteAny(out, rec) :
       /\ IF Ok(o)
          THEN /\ log' = Append(log, [kind |-> rec.kind, value |-> rec.value,
                                      start |-> out.pos, end |-> o.pos])
               /\ UNCHANGED fails
          ELSE /\ fails.write < MaxFailures
               /\ fails' = [fails EXCEPT !.write = @ + 1]
               /\ UNCHANGED log
       /\ out' = IF rec.kind \in Restored THEN [o EXCEPT !.code = "SUCCESS"] ELSE o
  /\ UNCHANGED <<in, lastRecord>>
-----------------------------------------------------------------------------
(* Reading.                                                                *)

\* The flag, and the object if there is one.
ReadPart(r, part) ==
  LET q == ReadCell(r)
      s == ReadCell(q)
  IN  IF ~Ok(q) \/ Given(q) = FALSE THEN q
      ELSE IF Ok(s) THEN [s EXCEPT !.got[part] = Given(s)] ELSE s

RestoringReader(pos, r) == IF Ok(r) THEN r ELSE [r EXCEPT !.pos = pos]

\* MonitorElement::fromDevice(): the element is reset first and keeps what was
\* read before a failure.
fromDevice(r) ==
  LET q == ReadCell([r EXCEPT !.got = Blank])
      s == IF Ok(q) THEN [q EXCEPT !.got.path = Given(q)] ELSE q
  IN  RestoringReader(r.pos, ReadPart(ReadPart(s, "object"), "reference"))

\* A readMonitorElement() that reads into the caller's element.
readInPlace(r) == fromDevice(r)

\* readMonitorElement(): a new element is read, given to the caller when complete.
readMonitorElement(r) ==
  LET q == fromDevice(r) IN IF Ok(q) THEN q ELSE [q EXCEPT !.got = r.got]

\* One turn of the loop over a vector of elements.
ReadListed(p) ==
  LET q == readMonitorElement([p EXCEPT !.got = NoObject])
  IN  [q EXCEPT !.got = IF Ok(q) THEN Append(p.got, @) ELSE p.got]

\* A count, then that many turns of the loop, up to one that fails; what was
\* read is kept.
ReadTurn(p, kind) ==
  CASE kind = "list" -> ReadListed(p)
    [] kind = "values" -> ReadValue(p)
    [] OTHER -> ReadEntry(p, kind)

ReadMany(r, kind) ==
  LET counted == ReadCell(r)
      after[i \in 0 .. Given(counted)] ==
        IF i = 0 THEN counted
        ELSE IF Ok(after[i - 1]) THEN ReadTurn(after[i - 1], kind) ELSE after[i - 1]
  IN  IF Ok(counted) THEN after[Given(counted)] ELSE counted

ReadList(r) == RestoringReader(r.pos, ReadMany(r, "list"))

\* elementMap[key] = elements.
Stored(m, key, es) ==
  IF \E i \in DOMAIN m : m[i][1] = key
  THEN [i \in DOMAIN m |-> IF m[i][1] = key THEN <<key, es>> ELSE m[i]]
  ELSE Append(m, <<key, es>>)

\* One turn of the loop over a map of vectors.
ReadVector(p, kind) ==
  LET q == ReadCell(p)
      empty == [q EXCEPT !.got = <<>>]
      s == IF kind = "map" THEN ReadList(empty) ELSE ReadMany(empty, "values")
  IN  IF ~Ok(q) THEN q
      ELSE [s EXCEPT !.got = IF ~Ok(s) THEN q.got
                             ELSE IF kind = "map" THEN Stored(q.got, Given(q), @)
                             ELSE Inserted(q.got, <<Given(q), @>>)]

ReadVectors(r, kind) ==
  LET counted == ReadCell(r)
      after[i \in 0 .. Given(counted)] ==
        IF i = 0 THEN counted
        ELSE IF Ok(after[i - 1]) THEN ReadVector(after[i - 1], kind) ELSE after[i - 1]
  IN  IF Ok(counted) THEN after[Given(counted)] ELSE counted

ReadAny(r, kind) ==
  CASE kind = "element" -> readMonitorElement(r)
    [] kind = "list"    -> ReadList(r)
    [] kind = "map"     -> RestoringReader(r.pos, ReadVectors(r, "map"))
    [] kind = "vectors" -> ReadVectors(r, "vectors")
    [] OTHER            -> ReadMany(r, kind)

\* What the callers of the reading functions have: nothing, or the value of a
\* record of that kind, read before.
Had(kind) == {IF kind = "element" THEN NoObject ELSE <<>>} \union
             {rec.value : rec \in {x \in Records : x.kind = kind}}

\* The written bytes reach a reader, all of them or the first ones.
Receive ==
  /\ in.cells = <<>> /\ log # <<>>
  /\ \E limit \in 0..out.pos : in' = Reader(out.cells, 0, limit, <<>>)
  /\ UNCHANGED <<out, log, fails, lastRecord>>

\* What a call of the readers leaves behind.
Finish(rec, had, r) ==
  /\ Ok(r) \/ fails.read < MaxFailures
  /\ fails' = IF Ok(r) THEN fails ELSE [fails EXCEPT !.read = @ + 1]
  /\ in' = [r EXCEPT !.got = <<>>, !.code = IF rec.kind \in Restored THEN "SUCCESS" ELSE @]
  /\ lastRecord' = <<[record |-> rec, had |-> had, code |-> r.code, got |-> r.got, pos |-> r.pos]>>

\* The readers ask for what was written, in order.
Read ==
  \E i \in DOMAIN log :
    /\ Ok(in) /\ in.cells # <<>> /\ in.pos = log[i].start
    /\ \E had \in Had(log[i].kind) :
         Finish(log[i], had, ReadAny([in EXCEPT !.got = had], log[i].kind))
    /\ UNCHANGED <<out, log>>

StreamNext == Receive \/ Read \/ \E rec \in Records : Write(rec)

StreamSpec == StreamInit /\ [][StreamNext]_stream
-----------------------------------------------------------------------------
\* A read gives what was written and ends where it ends, added to what the caller
\* has: a vector is appended to, an entry of a map replaced (by MonitorElement-
\* Streamer) or kept (by StreamingHelper).  A failed read of elements is as if it
\* had not begun, for the position and for the caller's element, and what a vector
\* or a map got from it is a whole part of what was written
\* (MonitorElementStreamer.h:132-217, StreamingHelper.h:125-232).
ReadsAreWhole ==
  \A l \in ToSet(lastRecord) :
    LET rec == l.record
        Keys(m) == {m[i][1] : i \in DOMAIN m}
        Of(m, k) == {m[i][2] : i \in {j \in DOMAIN m : m[j][1] = k}}
        Whole == l.had \o rec.value
    IN  /\ l.code = "SUCCESS" => l.pos = rec.end
        /\ l.code # "SUCCESS" /\ rec.kind \in Restored => l.pos = rec.start
        /\ rec.kind = "element" =>
             l.got = IF l.code = "SUCCESS" THEN rec.value ELSE l.had
        /\ rec.kind \in {"list", "values", "multimap"} =>
             /\ IsPrefix(l.had, l.got) /\ IsPrefix(l.got, Whole)
             /\ l.code = "SUCCESS" => l.got = Whole
        /\ rec.kind \in {"map", "entries", "vectors"} =>
             LET first == IF rec.kind = "map" THEN rec.value ELSE l.had
                 second == IF rec.kind = "map" THEN l.had ELSE rec.value
             IN  /\ l.code = "SUCCESS" => Keys(l.got) = Keys(Whole)
                 /\ Keys(l.had) \subseteq Keys(l.got)
                 /\ \A k \in Keys(l.got) :
                      /\ Of(l.got, k) \in {Of(first, k), Of(second, k)}
                      /\ l.code = "SUCCESS" /\ k \in Keys(first) => Of(l.got, k) = Of(first, k)
=============================================================================
