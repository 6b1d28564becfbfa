# Verification of DQM4HEP core

TLA+ models of `dqm4hep-core`, the library under the DQM4HEP data-quality
monitoring framework: a directory tree of monitor elements, quality tests run on
them and their reports, events and their streamers, plugins, a parameter data
base, an archiver of ROOT files, signals, a pre-processed XML configuration, and
the XML and JSON libraries it carries in its own source. Paths below are relative
to `source/` in the repository. TLC checks the models on small instances; TLAPS
proves, for every instance, the theorems of the `*Proofs` modules and those at the
end of `SystemStats`.

The library is single threaded: no file of it creates a thread. What is hard in
it is not scheduling but order: long sequences of legal calls, callbacks that
call back, loops that edit the list they walk, work half done when a step fails,
ownership, caches and limits. The models are therefore small machines whose
environment calls any operation at any time, and whose long operations advance
one loop turn per action. Only the programs of the data base are processes that
run side by side, against one server.

## Inventory

Status of each part (modelled, partly, not) and why: the last section.

| Component | State it keeps | Operations | Talks to | What makes it correct |
|---|---|---|---|---|
| `Directory` | name, owning pointer to the parent, list of sub-directories, list of objects | mkdir, find, add, remove, rmdir, clear, fullPath | `Storage` | sibling names differ; parent and child agree; what leaves the tree is freed |
| `Storage` | root and current directory | mkdir, cd, goUp, find, add, remove, rmdir, clear, iterate, dump | `Directory`, `Path` | the current directory is in the tree; a path means one directory; a failure leaves the rest alone; an iteration misses nothing that stays |
| `Path` | text of a path | normalise, split, isValid, isRelative, append | `Storage` | splitting and joining agree |
| `MonitorElementManager` | a `Storage` of monitor elements, the quality tests by name, references, styles | book, read, add, remove, reset, attach reference, create/add/run quality tests, parse XML, archive | `Storage`, `QualityTest`, `PluginManager`, `Archiver`, `XMLParser` | names are unique in a directory; a test that ran has exactly one report; a partial failure is visible |
| `MonitorElement` | object, reference, path, quality tests | set, reset, to/from device, run quality tests | `QualityTest`, ROOT | an element keeps its identity while it is stored |
| `QualityTest`, `QReportStorage`, five plugins | limits; reports by element and test | run, setLimits; addReport, reports, filters by quality | plugins | flags are monotone in the quality; a success is earned |
| `PtrHandler` and other owners | pointer and ownership flag | set, take, clear | `MonitorElement`, events | each object is deleted once by its one owner |
| `Signal` | list of callbacks | connect, disconnect, emit | receivers, `EventReader` | each connected callback is called once per emission, whatever callbacks do |
| `EventReader`, `GenericEventXMLReader` | open document, current event element | open, skipNEvents, readNextEvent, runInfo, close | `Signal`, XML | each event is emitted once and in order |
| `EventStreamer`, `Event`, streamer plugins | cached streamer and its name, event base data | writeEvent, readEvent | xdrstream device, `PluginManager` | reading back gives what was written, and leaves the device at the next event |
| `MonitorElementStreamer`, `StreamingHelper` | none of their own | write and read of elements, vectors, maps | xdrstream device | what is read is whole, and a failure undoes the position |
| `PluginManager`, `Plugin` | plugins by name, libraries | loadLibraries, registerPlugin, create, kill | `dlopen`, static constructors | one plugin per name, alive while registered |
| `DBInterface` | MySQL handle | connect, disconnect, set, query, parameter tables | MySQL | a handle is closed once, and only an open one is used |
| Programs of the data base | none: processes | create-db, create-user, rm-user, push, set and dump parameters | `DBInterface` | the exit code says what was stored; accounts are complete |
| `Archiver` | ROOT file, selector | open, close, archive | `Storage`, ROOT files | no archive overwrites one it should keep; the archive has the elements of the storage |
| `XMLParser` | document, constants, data bases | includes, constants, `$ENV{}`, db selects, for loops | `DBInterface`, TinyXML | every construct is resolved once and in document order; parsing terminates |
| TinyXML (`tinyxml*.cc`) | nodes with five pointers each | insert, replace, remove, copy, clear, look up; load, print, stream | all XML readers | the pointers are those of a tree; what is saved is loaded again |
| `json.h` | values | parse, dump, pointers, patch, diff, flatten, CBOR, MessagePack, UBJSON | reports, elements, runs | writer and reader agree; a patch means one thing |
| `dqm4hep-run-qtests` | parsed reports | one run, exit code | manager | the exit code says what `-e` asked for |
| Statistics of the system (`Internal.cc`) | the last reading | netStats, cpuStats, procStats | `/proc`, the clock | a rate is that of its interval |
| `Run`, `Logger`, `RootStyle`, `Version`, helpers | plain values | setters, queries | all | |

## The models

A state is one the program can be in between two lines that matter; an action is
one operation, or one turn of its loop where the order of turns matters. In every
module `status` is the status code last returned, an exception included. Where the
behaviour of C++ is undefined (a dangling iterator, a freed node, an event pointer
into a cleared document) the model either records it in `undefined` and stops, or
takes each outcome a build can give.

Several components share no state. An MC module that has more than one of them has a
variable `subject`, chosen in the initial state, that says which of them takes steps
in a behaviour; the others rest in one fixed initial state. The states of such a run
are the sum of those of its components and not their product, and an invariant of a
component that rests holds of the state it rests in.

### Storage (Storage.tla, StorageIterate.tla, Namespace.tla)

`Storage` is a heap of `Directory` objects (`Dirs` are identities, `heap` those
allocated) with `m_parent`, `m_subdirs`, `m_contents` and `m_currentDirectory`. An
operation on a path is entered by `Call` (its early returns are `Reject`), advances
one component per `Step...` action as the loops of Storage.h:122, 168 and 273 do, and
does its work in an `End...` action: what it finds at the end of a walk is what the
tree is then. A directory that is detached stays allocated while a reference count
holds it (`Kept`): parent and child own each other, and directories out of the tree that
only own each other are `Lost`. The destructor of `Storage` is not an action: it is the
default one (Storage.h:104) and leaves the tree to those counts. The test of `rmdir()` for
"a parent of the current directory" is a search of texts; `OccursIn` is that search,
`StartsWith` saying which names begin with which.

`StorageIterate` adds `iterate()`: the calls in progress from the root down, each with
its own copies of the objects and of the sub-directories, the second taken only after
the first has been walked; the function it calls may use the storage, and stops the
iteration by returning false. The pairs in `visited` name directories that may be gone
since: `Fresh` says that a directory made meanwhile is none of those, even where the
allocator gives it the address of one.

`Namespace` is what a user of `Storage` may rely on: a set of paths closed under
nothing but what was made, one current path, and entries. `ImplementsNamespace` is
the refinement: a directory stands for its path. It holds of iterations as well.

| Property | What it says, and what would break it |
|---|---|
| `CurrentAttached` | `rmdir()` and `clear()` never leave the current directory, or one being walked to, outside the tree |
| `OnlyRmdirLoses` | a directory that becomes `Lost` was below one, with sub-directories, that `rmdir()` took out; `clear()` breaks every cycle before it lets go, also in an iteration |
| `PathsAreUnique` | no two directories with one path |
| `WalksGiveUpRightly` | a walk fails only where a component is missing or leaves the root; the second walk of `add()` never fails |
| `IterationIsComplete` | an iteration meets all that stays in its place, once, whatever the function changes |
| `ImplementsNamespace` | every step is one of the name space, or changes nothing in it |

### Signal (Signal.tla)

The vector of callbacks with its storage: `store` (slots ever written), `size`,
`capacity`. `emit()` is an emission with the two iterators of Signal.h:401; a callback
in progress may emit again, connect and disconnect. A connect that fits writes past
the end iterator and disturbs nothing; one that does not moves the elements and
leaves every iterator dangling; `erase()` shifts them under the iterator.
`EmissionsAreComplete` says what an undisturbed emission promises, and that only a
disturbed one is undefined; `ConnectedOnce` holds in any case.

### Event reader (EventReader.tla)

`EventReader` is `GenericEventXMLReader`: the document loaded, the pointer to the
current event, the reads in progress (a callback may read, skip, close and open). Its
consumer is at the end of the module: any use of the reader first, then what is
documented at EventReader.h:58-61. That code calls `open()` on any file and looks at no
result but that of `readNextEvent()`: a file that does not load leaves the one before in
place, or a pointer into a document that was deleted, and a file without events a null
pointer, which `skipNEvents()` follows. `LoopEnds` says that after an `open()` that
succeeds the loop ends with every event of the file given, or skipped, up to where the
reader stands; after one that fails it ends with what was left of the file before, or is
undefined, and only where `open()` left a null or dangling pointer.

### Quality tests (TestLimits.tla, QualityTests.tla, RunQTests.tla, TestPlugins.tla)

`TestLimits` has what the others share: limits given by XML attributes at two levels,
each validated on its own and possibly absent, or by a caller, and the flag that
`QualityTest::run()` gives. `QualityTests` is the life of tests and reports: creation,
runs, reports replaced by element and test. A test may compute any quality, in range
or not, or throw.

`RunQTests` puts the program `dqm4hep-run-qtests` on top of it, in phases: `parsing`
creates tests from one section, `running` runs each pair of an element and a test once,
and `done` has an exit code. Any step that may fail ends the program with the status
of the exception. Other users of the library are the phase `library`, where any
operation comes at any time and the program's variables rest.

`TestPlugins` replaces "any quality" by what the five plugins compute from an element's
object and reference, with the checks they make first and what they do to the element
itself: `KolmogorovTest` sorts graphs in place. An object has a class, a kind, a size
and data; fits, p-values and statistics are external and may be any of a set.

| Property | What it says, and what would break it |
|---|---|
| `FlagsAreMonotone` | a better quality never has a worse flag, whatever limits were accepted |
| `XmlTestsAreSound` | limits that are inherited, absent or validated singly are in order together |
| `CleanExitIsEarned` | exit code 0 means that every test ran, as well as `-e` asks |
| `TestsAreFair` | a plugin says `SUCCESS` only of what it is a test of, no difference found is outweighed by the limits, and a test that changes its element does not make equal graphs differ |

### Monitor elements (MonitorElements.tla, StorageFile.tla)

`MonitorElementManager` over a tree of directories that behaves as `Namespace` says.
Elements are handles that outlive the storage; a caller may rename one, give it
another object or drop it at any time. Every way to book an element ends in
`addToStorage()` (`AddToStorage`); `NotBooked` is a class, file or object that gives no
element. Names are checked when an element is booked,
paths are copied then, and reports are filed by path, name and test. A run over all
elements stops at the first test that throws, with what it had added before.

`StorageFile` is `parseStorage()`: one walk over a `<storage>` element that sets styles
(`RootStyle`), opens files of references, creates tests, and books elements
(`AllocatorHelper`) or reads them from ROOT files. `Steps` gives the calls of the walk in
order, one action applies one of them, and the first that fails ends the walk.
`StorageFilesAreReadInOrder` compares what was added with what the file asks for.

### What goes through a device, and who owns it (EventStream, PluginManager, ElementStream, Ownership)

`PluginManager` is the map of plugins with the libraries of the process. A plugin is a
static object whose constructor registers it, so registration happens once in the life
of a process, whatever the manager does later; what follows a taken name is undefined
and ends the model. `EventStream` uses it: its device is a sequence of parts (name,
base data, and what the plugin writes). A write may stop after any part, or in the
middle of one. A read takes what it finds: at the start of an event, in the middle of
one, or after the rest of a failed write; then arrays may fail, or give garbage.
`streamer` and `streamerName` are the plugin kept from call to call. Generic events
have two parts, of which `read()` takes one. `StreamersAssumption`: a name stands for one
kind of streamer in all libraries. Without it, after `kill()`, another library could
register another streamer under the name on the device, and the read would be its.

`ElementStream` has a device of cells, any of which may fail, and the containers of
`StreamingHelper`; it writes elements, vectors and maps of them, and reads a copy that
may be cut anywhere. A loop of the code is a function of the turns made, each a call on
what the turn before gave. The count of a list is written first as zero and overwritten
last.
`Ownership` counts owners: pointers of callers, slots that may own what they point at,
and what nothing will delete (`PtrHandler` has no destructor).

| Property | What it says, and what would break it |
|---|---|
| `ReadsWhatWasWritten` | a read at the start of a complete write gives that event and, if its plugin reads all that it writes, ends where the write ended, whichever plugin was in use before |
| `LoadedPluginsAreFound` | every plugin of every library opened is found under its own name |
| `ReadsAreWhole` | what is read ends where it was written to end; a read that failed leaves whole elements only, and the position |
| `ObjectsHaveOneOwner` | nothing is deleted twice or used when deleted, and nothing is lost but by what the code is known to leak |

### Data base and its programs (DBInterface.tla, ParameterTables.tla, DBPrograms.tla)

`DBInterface`: the handle (`handle`, and `open` for those not closed yet), `m_isConnected`,
the settings, and the tables on the server. Every query may be refused. `mysql_init`,
`mysql_real_connect` and `mysql_close` are external.

`DBPrograms`: the six programs as processes, one query at a step; each query may fail, and
nothing is rolled back. The server has data bases, accounts by user and host, privileges
and the tables. `PushesStoreTheirSections` relates the rows to a prefix of the file and to
the exit code, with two programs that write the same cells; `CreatedUsersCanWork` relates
the exit code of create-user to the privileges on the server while others create and
remove users.

### XML configuration (XMLDocument.tla, XMLParser.tla)

`XMLParser` walks and edits lists of siblings: a frame is one call of a recursive
pass with the list it walks and its place in it, one action is one turn. What each
pass should give is written a second time in `XMLDocument` as recursive functions on
documents (`Included`, `WithConstants`, `Selected`, `Looped`), and
`DocumentsAreResolved` compares the two. That the next sibling of a deleted loop is
read (XMLParser.cc:649) is modelled by both outcomes: the memory still holds it, or
the parser crashes. The files of the instance include each other without cycles, and
its loops have an increment: for both of these `parse()` does not end (see below).

### TinyXML (XmlTree.tla, TinyXml.tla, XmlText.tla)

`TinyXml` has nodes with their parent, first and last child and two neighbours, and every
operation that changes them. `XmlTree` is the abstract specification, children as
sequences: `ImplementsTree` is the refinement, and says with it that every lookup of the
library finds the children of the tree. `XmlText` prints documents in the three styles
and reads files, token by token (a tag, a comment, a character): what is written is
loaded again, and what is accepted is balanced.

### JSON (JsonValue.tla, JsonLexer.tla, JsonParser.tla, JsonPatch.tla, JsonBinary.tla)

Values are those of `json.h` with its rules of equality. `JsonLexer` reads bytes, with the
reference given by UTF-8 and the grammar of RFC 7159 written as definitions;
`JsonParser` reads tokens, with a callback that may refuse any part of the value;
`JsonPatch` applies operations one by one and compares with what RFC 6902 says of a value
as a set of places; `JsonBinary` writes and reads three formats. The widths of numbers are
scaled down and keep their order: the base of a digit is 8, the largest integer 7, the
largest unsigned 15.

| Property | What it says, and what would break it |
|---|---|
| `TokensAreScanned` | a token is what its bytes say, and what `dump()` writes is scanned as the same value |
| `TextsAreParsed` | `parse()` and `accept()` agree; what was dumped is parsed as the same value; a callback only takes parts away |
| `PatchesMeanWhatTheySay` | a diff leads from one value to the other; flattened values come back; valid operations do what the RFC says |
| `BinaryValuesAreKept` | what was written is read back, and what is cut off or too long is refused |

### Archiver (Archiver.tla)

The disk (each file a tree of directories that hold objects by name), the file that
is open, and other programs that create files between the choice of a name and its
opening. `mkdir()` of a name that is taken gives null: `archive()` then leaves out
everything below it and returns success. So `FirstArchiveIsComplete` promises the
elements only where none of the directories was there before, and
`ArchivesArePreserved` that nothing archived is lost but by `overwrite`.

### Statistics (SystemStats.tla)

`netStats()` between its two readings, while interfaces come and go and counters wrap
around; `cpuStats()` and `procStats()` while ticks and the clock may go back. Quotients
of floats are pairs. An interface that vanished between the readings is undefined
behaviour (`end()` is dereferenced).

## Runs

| Run | Instance | Bounds, and why they are enough | Shows |
|---|---|---|---|
| `storage` | three directories besides the root; names `a` and `ab`, one a prefix of the other; one object on paths, two in iterations | paths of up to two components, all kinds: enough for a detached tree two deep, and for the search of texts to meet a match that is no parent; one change by the function of an iteration, at any of its calls | the six of Storage |
| `storage_leak` | as `storage` | | `RemovedAreDestroyed` fails: a directory removed with its sub-directory is never destroyed |
| `readers` | the XML parser on every document of one or two of fifteen nodes and thirteen longer ones, three settings; the event reader on every file of up to three events, good or bad, two of four, and three that do not load; skips of -1 to 5 | two nodes meet each way an include or select can stand to its neighbour, files nested two deep; reads three deep, five events given | the parser's three and the reader's three |
| `quality_tests` | one test, two elements, the four exit levels; eighteen objects and the limits XML can give, every type of test. A unit is a sixtieth | limits and qualities on both sides of each other and of the range; histograms of one and two bins and of 2x1 that differ inside and outside their range, graphs of two points in both orders: each comparison is made, refused, and right or wrong | flags, limits, exit codes and plugins agree |
| `monitor_elements` | two elements, root and one directory, two names, two tests, one element is renamed; three valid storage files, and others with one mistake each | two of everything: two elements are enough for a clash of names or keys; three calls of `parseStorage()`, so that one meets what two others left | booking, reports, storage files |
| `streams` | two base records, three libraries; records of each kind, whole and with a null element; one handle, one element, one wrapper and three objects | six parts, two of them lost by failed writes: a write that failed and an event after it; two records, one failure each way; one library opened | the four above |
| `event_size` | as `streams` | | `SizesAreOfTheEvent` fails: the second event on a device is given the size of both |
| `documents` | four nodes; files of up to four tokens of eleven, truncated ones, and documents two levels deep in each style | four nodes are a parent with three children, or a chain: each pointer has a neighbour on both sides; four tokens are an element with two children | the four of TinyXML |
| `documents_end` | as `documents` | | `LoadingEnds` fails: `<a>text` is never loaded |
| `json_and_signals` | strings of up to two of the pieces that the tables of the lexer tell apart, numbers of up to four characters; values two levels deep; patches of up to two operations on eight keys; a signal with two methods of one object and a function, emissions two deep | every row of the tables for UTF-8, every state of the number scanner; keys that need both escapes, indices and `-`; four `SignalT` identities: the vector grows from 1 to 2 to 4 under an emission | the four above and the two of Signal |
| `persistence` | two servers and two tables; up to three programs at once on one; one archive name; two interfaces, counters modulo 4 | three handles: open, closed, open again; three programs are two that race and one that undoes; three objects or directories on the disk, two files of one archiver, two ids; three packets between readings: every counter wraps around; three calls of `procStats()` | the five of the data base, its programs and the archiver, and the two of SystemStats |
| `db_reconnect` | two servers, two tables, two parameters of two values | | `DisconnectIsSafe` fails: a handle is closed twice |

Deadlock is checked in `storage` and in `documents`. Elsewhere the program may really
stop: after undefined behaviour (`json_and_signals`, `streams`, `event_size`), at the end of a
loop, of a program, of a file or of a text (`readers`, `quality_tests`, `monitor_elements`,
`json_and_signals`, `persistence`), when the object is destroyed (`db_reconnect`), or at the bound
on calls (`persistence`).

Symmetry is used over directories, `SignalT` identities, methods of one object and
objects on the heap, in runs without liveness.

Fairness. In `readers`, of `Step` (a turn of `parse()`) and of `InTheLoop` (a step of the
documented loop, the return of its callbacks included): each is one thread that calls no
code but its own, and the callbacks of the reader return. Nothing is assumed of the free
use of the reader before the loop. In `documents`, of `Parse`, for the same reason.

## Theorems

`StorageProofs`, for every set of directories, names, objects and path arguments:
`CurrentStaysAttached`, `TypeCorrect`, `FullPathsAreUnique`, `WalksOnlyGiveUpRightly`.
`CurrentAttached` alone is not inductive: that `rmdir()` refuses what contains the
current directory says something about a tree only if paths say how directories are
linked. The invariant `IInv` therefore adds `HeapShape` (a listed directory is
allocated, points back at the one that lists it, and has its path and one name more;
what is freed lists nothing), `SiblingsDiffer` (siblings have different paths) and
`ContentsShape` (what is freed holds nothing). The argument: reachability is the least
set closed under `m_subdirs` (`ReachLeast`), so an attached directory has an attached
parent; what `rmdir()` of `d` may detach has the path of `d` as a prefix
(`UnlinkKeepsOthers`), and a prefix occurs in the text that the code searches
(`PrefixOccurs`), so it would have been refused were it above the current directory.
That the test refuses too much does not matter here.

`WalksOnlyGiveUpRightly` (and `IterationsWalkRightly`, the same of `IterateSpec`): the
places along a path are a recursive function, `Way`. `WalkInv` says that the components
left are the last ones of the path, that the cursor is at `Way` of those before, and that
all places up to there exist; `find()` in `add()` walks where `mkdir()` has just been, so it
keeps that all of them do. A walk stops at the first place that does not exist.

`Refinement`: `Storage` implements `Namespace`, from `IInv`. A walk stutters; `StepCreate`
is `Make`, `EndCd`, `GoUp` and `CdRoot` are `Go`, adding and removing are `Put` and `Take`,
and `EndRmdir` is `RemoveTree` because exactly the directories with that prefix are
detached (`UnlinkExactly`).

`IterationsAreComplete`, `IterationsKeepTheTree`, `IterationsRefine`: the same of
`IterateSpec`, with any number of changes made by the function. `IterationInv` adds to
`IInv` the calls in progress (`FramesOK`: each is of another directory, allocated, and
has walked its objects before it takes its sub-directories) and `Ahead`: the least set
that has the sub-directories that are copied and left, those that the call on top will
copy, and with each directory its own. Nothing ahead was visited (`OnceOK`); an object
that stayed was called, is in the copy of a call, or is ahead (`MissesNothing`). A change
by the function adds only new directories to what is ahead, and what it takes from it is
no longer attached (`ChangeKeepsInv`). At the end no call is left, so nothing is ahead.

`SignalProofs`: `TargetsStayConnectedOnce`, `UndisturbedEmissionsAreComplete`, for any
targets and callbacks nested to any depth. `FramesOK` says of an emission that nothing
disturbed that its end is within the vector, that the elements before it still call what
they called when it began, and that those before its iterator have been called; of a
disturbed one only that an iterator that does not dangle points into the storage.

`ReaderProofs`: `ReaderGivesInOrder`, `ReaderMovesWithEvents`, `LoopReadsEverything`.
`MovesOK` counts: the pointer is one more than the events skipped and given, less the
reads in progress. `OrderOK` holds as long as no callback calls the reader. That the
consumer is a user of the reader (`ConsumersOnlyUseTheReader`) carries both over to the
documented loop. There no callback calls the reader, and by `LoopInv` the document is the
one that `open()` left, the reader has only moved on from where it left the pointer, and
each event passed was given in order or skipped: when the loop ends all was read
(`ReadsEverything`), and only a null or dangling pointer from `open()` makes it undefined.
That it ends is left to `LoopEnds`.

`TokensAreAlwaysScanned` (`ReaderProofs`), of the lexer and the serializer of `json.h`, for any
texts, any strings and numbers to dump, and any width of integers. `LexInv` has, beside the
three parts of the property: what was read of a string is UTF-8 (`StringOK`); what was read
of a number is as much of the grammar as its label says (`Reached`), and the label lies on
the way of every reading of the whole run as a number (`NumberOK`, `LabelAt`), so an error
means that there is no such reading. That strings of any length agree with UTF-8 needs two
facts of the tables of `decode()`: every character leads from `Accept` to `Accept`
(`Utf8IsWritten`), and from `Accept` the next one, two, three or four bytes are a character
unless the string is refused (`NextCharacter`). `DumpedOK` says of a text that was dumped that the
lexer has read it up to the end of a character of the value: each character is written in one of
five forms (`WritesForms`: itself, raw bytes, a short escape, one `\u` escape or two), and the
one step of the lexer on each form adds that character and moves behind it (`FormStep`). Of a
number, `IntegersAreRead` and `FloatsAreRead` say that what is written follows the grammar and
has the same value.

`QualityTestsProofs`, for any tests, elements, values, and any number that stands for 1:
`LimitsStaySound`, `TypeCorrect`, `FlagsStayMonotone`, `XmlTestsStaySound`. The invariant
`LimitsOK` says that what a test has was accepted by `setLimits()`, and is in the range
too if XML gave it: the error limit from the validators, the order from `setLimits()`,
and neither alone gives both, because a limit that is inherited is not validated again.
Monotone flags then follow from the order. `CleanExitsAreEarned`: the program's steps are
those of a caller (`ProgramUsesTheLibrary`), so `LimitsOK` holds of it, and `ReportsOK` says
that a report tells of the limits of its test: a flag that the exit level lets through is
then that of a quality that does. `PluginsAreFair`, for any objects of ROOT: what a
difference leaves of the error limit is less than it (`ExactQualityBelow`), every bin inside
the range is compared (`BinsAreCompared`), so no difference there reaches the warning
limit; the two cases of `FitQuality` that are not within the range stay below it, too.

`MonitorElementsProofs`: `ElementsStayFound` says that the elements stored that no caller has
touched have the path of their directory and that their places and names differ, and that
a touched one may do as it likes; `ReportsStayWhole`. `StorageFilesStayInOrder`: every
list of calls that `Steps` gives is laid out as `Laid` says, the elements of the file in its
order, each directly followed by the calls that configure it; the others set up styles,
references and tests, or change nothing that is stored. This follows the nesting of the file,
list by list (the `...Laid` lemmas, over `FlattenSeq`). `FileInv`: after `k` calls the new
elements are those whose calls were among them, each configured as far, and the library
has what the setup calls gave it. `FilesHideNothing`: the reader of files is a caller of the
manager, so `FoundByPathAndName` holds of it.

`PersistenceProofs`, whose three components share no state:
- `HandlesInUseAreOpen`, `SettingsStay`, for any number of handles. The invariant is types,
  `ConnectedHandlesAreOpen` and `SettingsAreOfTheConnection` together, because a step may
  close or open a handle only while not connected.
- `CreatedUsersStayAble`, `PushedSectionsAreStored`, for any programs side by side. `UsersInv`:
  what a create-user has to grant is granted or still on its list, and only rm-user takes
  privileges, those of its user and never the reader's. `PushInv`: a program wrote just the
  cells of its first `k` sections, each as they say unless another wrote it later, and what
  is left on its list is the file after those.
- `ArchivesStay`, `FirstArchivesAreComplete`. `FilesOK`: the files the archiver has opened
  are on the disk, and one being opened without `overwrite` is none of them.

`StreamProofs`, whose components share no state but that `EventStream` uses the plugins:
- `ElementsAreReadWhole`. `HoldsAny` says of cells of a device that they hold a value: an
  element cell by cell, a container as a count and then parts that lie one after the other
  between two positions. Writing any value leaves it on the device from the position on
  (`AnyLaid`), and disturbs nothing before; reading where a value lies gives it, or a first
  part of it, from any device that agrees there (`AnyRead`). Both go through the loops by
  induction on the turns made. `ElementsInv`: what was written completely lies on the
  device, up to its position, and a reader has the same cells.
- `PluginsStayFound`. `ManagerInv`: the map has each plugin under its own name and all of
  the libraries loaded since `kill()`; a plugin of a library opened earlier is not
  registered again.
- `EventsAreReadAsWritten`. `StreamInv`: the streamer kept is that of `streamerName`, and a
  write that was complete is on the device as it was written, whatever came before it.
- `OwnersAreUnique`. The slots that own, the pointers of callers and what nothing deletes
  are disjoint and cover what is allocated (`OwnersOK`), and a buffer that an event owns
  has none itself, nor is a wrapper left that could give it one (`BuffersOK`): `delete`
  goes one level down.

`SystemStats`: `RatesAreExact`, for any width of the counters: modular differences are those
of the traffic, which is below the width between two readings. `SharesStaySound`:
ticks that went back are taken for 0, and the process never used less than the last call
found (`UsageOK`).

Assumptions, each checked by TLC in a run: `StorageAssumption` (the root is a directory,
null is not, special names are no names), `IterateAssumption`, `DBAssumption`,
`WorkloadsAssumption`, `TablesAssumption`, `ArchiverAssumption`, `LimitsAssumption` (1 is a
multiple of ten units), `QualityAssumption`, `PluginsAssumption`, `ObjectsAssumption`, `ReaderAssumption`, `SignalAssumption`,
`OwnershipAssumption`, `PluginAssumption`, `StreamAssumption`, `StreamersAssumption`,
`StatsAssumption`, `ElementsAssumption`, `StorageFilesAssumption` (what a file may contain),
`RecordsAssumption` (what is written is an element, a vector or a map), `WidthAssumption` (the
largest unsigned number is twice the largest signed one and one more), `TextsAssumption` (texts
are bytes), `ValuesAssumption` (a value that is dumped is one its type can hold, and the text of
a float is a number): bounds are numbers, and a value that stands for
"none" is none of the others. `ObjectsAssumption` has what ROOT promises: histograms have
bins, and sorting keeps the points of a graph. Two restrict what users do:
`StreamersAssumption`, and `PluginsAssumption`, whose limits are not negative. XML gives no
others (`XmlTestsStaySound`), but `setLimits()` takes an error limit below 0, with which an
exact comparison that finds more differences than bins can say `SUCCESS`.

Only model-checked:
- liveness: `ParsingEnds`, `LoopEnds`, `WholeFilesAreLoaded`;
- `OnlyRmdirLoses`: that directories which own each other are lost is a greatest fixed point,
  and the invariants proved of the tree are of what can be reached from the root;
- what goes through recursive operators, which TLAPS cannot unfold: `DocumentsAreResolved`,
  `FailuresHaveAReason`, `ImplementsTree`, `SavedDocumentsAreLoaded`,
  `AcceptedFilesAreBalanced`, `TextsAreParsed`, `PatchesMeanWhatTheySay`,
  `BinaryValuesAreKept`; documents and JSON values nest to any depth.

Where a theorem needs an induction over numbers (the ways, the loops), it is stated of a
set of numbers and follows from `<` being well-founded: the library's induction theorems
take an operator, which the provers cannot instantiate. A recursive function is defined on
numbers for the same reason, from the function on fewer of them.

## Where the code departs from its comments

Four of these are shown by runs (`storage_leak`, `event_size`, `documents_end`,
`db_reconnect`); the others are read from single lines and named so that a reader need not find them again. The models do
what the code does.

- Storage.h:239-243: `rmdir()` refuses when the removed path occurs anywhere in the
  current one (`/ab` current, `rmdir("/a")` fails); the comment says "is a parent of the
  current one".
- Directory.h:160: `m_parent` owns the parent, so a removed directory that has a
  sub-directory is never destroyed, against Directory.h:124 "Remove the directory and
  its contents" (`storage_leak`). Storage.h:104: the destructor of a storage clears nothing,
  so a tree that has sub-directories outlives it for the same reason.
- EventReader.h:58-60: the documented use looks neither at the result of `open()` nor at the
  number of events: of a file without events `skipNEvents()` follows a null pointer
  (GenericEventXMLReader.cc:92), and after an `open()` that failed the loop reads the rest of
  the file before or follows a dangling pointer (lines 72 and 220-223).
- GenericEventXMLReader.cc:93: skipping exactly what is left fails with "file has less".
- QualityTest.cc:392 accepts equal limits, 0 and 1; QualityTest.h:216 says
  "0 < error < warning < 1".
- MonitorElementManager.cc:200: the error limit of an XML test defaults to the default
  warning limit.
- QualityTest.cc:215: the guard `0.f < qlimit || qlimit > 1.f` refuses every positive limit.
- dqm4hep-run-qtests.cc:241: with `-e failure` errors and warnings do not change the exit
  code; its text (line 168) says they do. `-e warning` lets errors pass.
- FitParamInRangeTest.cc:447: the case "within its error of the range" holds of every
  parameter; with the default limits its quality is a success. Line
  344: the tests of the element's class are inverted and refuse nothing.
- ExactRefCompareTest.cc:200: the overflow option is the wrong way round, and of a
  histogram of two or three dimensions only the first global bins are compared, against
  lines 50-55.
- ExactRefCompareTest.cc:218: more differences than bins make the quality negative, which
  is `INVALID`; an error limit of 0 makes a difference a `WARNING`.
- KolmogorovTest.cc:149: the graphs are sorted by x, in place; the test of ROOT needs
  sorted values.
- AnalysisHelper.cc:202: for an odd number of points the index of the median is one
  too high, and the points are not sorted.
- MonitorElement.cc:255: `reset()` clears the path of an element that stays stored:
  two such elements then share a key for their reports.
- GenericEventStreamer.cc:123: `read()` leaves the strings on the device, where the next
  event is read from.
- RootEventStreamer.cc:151: `setEvent()` clears the base data that was just read.
- EventStreamer.cc:92: the size of an event read is the absolute position of the device, against
  Event.h:178 "The serialized event size (unit bytes)" (`event_size`).
- DBInterface.cc:97: `disconnect()` does nothing when connected, and closes the handle when
  it is not; after a connect that failed, for the second time (`db_reconnect`).
- DBInterface.cc:179: the row that `queryRaw()` gives belongs to a result it has released.
- DBInterface.cc:285-296: the backup of a table is two statements in one query, which the
  client refuses unless it was opened for several: the model has it fail.
- XMLParser.cc:305: after an include without elements, includes of the file before it are
  resolved though nesting is not allowed.
- XMLParser.cc:629: when a select is the first element and its table is empty, the element
  after it is passed over.
- XMLParser.cc:649: the next sibling is read from a deleted node.
- XMLParser.cc:675: a loop without an increment is accepted and never ends.
- XMLParser.cc:350: nothing stops a file from including itself.
- Archiver.cc:97: a `TFile` that cannot be opened is not null; `open()` reports success.
- Archiver.cc:195: below a directory that exists already nothing is archived, with success.
- Archiver.cc:74-76: with `overwrite` off the run number is appended only when the plain
  name is taken, against Archiver.h "If the run number is positive then it is appended".
- PtrHandler.h: no destructor, so a destroyed element leaves what it owns. Line 135: `set()`
  of the pointer that the handler owns deletes it and keeps it.
- MonitorElement.cc:349: an element whose `fromDevice()` fails has been reset;
  MonitorElementStreamer.h leaves the elements already read in the caller's list.
- StreamingHelper.h: `read()` of a map keeps the entries the caller has, where
  `MonitorElementStreamer` replaces them; a failure does not restore the position.
  `readStreamables()` and `writeStreamables()` cannot be instantiated.
- BufferEvent.cc:55: `copyBuffer()` of the event's own buffer reads it after it was freed.
- PluginManager.h:147: `create<T>()` of a plugin of another type leaks the object.
  PluginManager.cc:150 deletes a static object whose name is taken. A library opened again
  after `kill()` registers nothing.
- MonitorElementManager.h: `iterate<T>()` and `getObjects<U>()` give null pointers for objects
  of other types.
- MonitorElementManager.cc:237 and 426: a storage file that failed half way cannot be read
  again, its references or tests are already there; an object of a class that is refused
  leaks, and the default allocator's cast to `TNamed` is followed before `checkClass()`.
- RootStyle.cc:116: an unknown theme fails, but has reset both styles.
- XMLParser.cc:302-350 and 675: a file that includes itself, and a loop without an increment,
  never end.
- tinyxmlparser.cc:1340: `<a>text` at the end of a file is read for ever (`documents_end`).
- TinyXML: a bare `&` at the end of a value is dropped; a text that looks like `&#x61;` is
  written as it is and read back as `a`; an end tag without a start becomes an unknown
  node; text after the root ends the reading without an error, several roots and an
  unterminated comment at the top are accepted; errors of `operator>>` are cleared by the
  `Parse()` that follows (tinyxmlparser.cc:615); `LinkEndChild()` of a node that has a
  parent already corrupts two lists.
- json.h:3007: after an object or array that the callback refused, the depth that it is given
  is one too high; the end of an empty array is told even where its start was refused
  (line 3093).
- json.h: of a key given twice the first value stays, of binary maps of indefinite length the
  last; an unsigned number of 2^63 or more equals the negative number of the same bits.
- json.h:7973: an index that is no number throws `std::invalid_argument`, not an exception of
  the library. Line 15004: `add` creates the parents that are missing, against RFC 6902, and
  below a scalar does nothing.
- json.h:14899 says `j == j.flatten().unflatten()`: an object whose first key is "0" comes back
  as an array, an empty container as null (which line 14866 says).
- json.h:5425 and 5442: the count of an UBJSON container may be written as any number and is
  converted to `size_t`: a negative one asks for more than any input has (of the type null, which
  takes no input, for that many), and the count -1, which is `npos`, means that there is none.
  The model refuses negative counts, as the end of the input does, and has neither -1 nor counts
  that are floats.
- json.h:5892: UBJSON refuses unsigned numbers above the largest signed one. MessagePack writes
  no head for a length of 2^32 or more.
- dqm4hep-mysql-create-user.cc:113: nothing is rolled back, so a second attempt fails at the
  user that exists; a user cannot be given a second data base; on a host called "localhost"
  one statement names an account twice and always fails.
- dqm4hep-mysql-dump-parameters.cc:109: the file names the user DQM4HEP, who may only read, so
  it cannot be pushed again; the result of `SaveFile()` (line 126) is ignored.
- dqm4hep-mysql-push-parameters.cc: a missing name, a connection that fails and a file that
  does not parse end in an exception that nothing catches.
- Internal.cc:376 and 388: the fields called kbytes hold bytes, divided only at the end of the
  file. Lines 349 and 400: without `DQM4HEP_WITH_PROC_FS` on Linux a function begins inside
  another. Line 312: `vmUsed` leaves out the swap, unlike line 553. `cpuTimeTot` is never set;
  the first `procStats()` gives no load; a sample time of 0 divides by zero.
- dqm4hep-netstats.cc:55-61: rates are printed received first, totals sent first.

## Not modelled, and the plan

| Part | State |
|---|---|
| `dump()` and other forms to print, JSON forms of elements and reports, filters of `QReportStorage` | no state; they read what is modelled |
| Normalisation of the text of a `Path`, `wildcardMatch` (used nowhere) | texts character by character |
| The numbers of fits, p-values and of `AnalysisHelper`; colours and sizes of `RootStyle` | floating point and ROOT |
| TinyXML: positions of errors, encodings, line ends, conversion of attributes to numbers | beside the structure that the properties are about |
| json.h: digits of floating point numbers, iterators, conversions from and to types of programs, element access, merge patches | templates, or arithmetic of floats |
| Files that include themselves, loops without an increment | `parse()` does not end on them |
| `Internal.cc` for macOS and for Linux without `DQM4HEP_WITH_PROC_FS` | the second does not compile (see above) |
| `Run`, `Logger`, `Version`, `StatusCodes`, dqm4hep-dump-plugins, dqm4hep-generate-qtest-file | plain records, constants and printing |
| spdlog, fmt, tclap in `extern/` | code of other projects, for messages and command lines |
