------------------------------ MODULE EventStream ------------------------------
(***************************************************************************)
(* EventStreamer (EventStreamer.cc): events written to a device and read   *)
(* back, each by the streamer plugin its name asks for; the plugin in use  *)
(* is kept from one call to the next.                                      *)
(*                                                                         *)
(* The device is the sequence of the parts written, one unit of size each: *)
(* the streamer's name, the base data (Event.cc), and what the plugins     *)
(* for buffers, ROOT objects and generic events write.  One streamer both  *)
(* writes and reads, in any order, while libraries are loaded and the      *)
(* plugin manager is killed.                                               *)
(***************************************************************************)
EXTENDS PluginManager, Integers, FiniteSets

CONSTANTS
  Bases,      \* base data of events: type, source, time stamp, numbers
  NoBase,     \* base data after Event::clear(), or of a new event
  Contents,   \* what an event holds, for each map of a generic event
  Unknown,    \* a streamer name that no plugin of the core library has
  Garbage,    \* what reading bytes written for something else gives
  MaxParts,   \* bound: parts on the device
  MaxLost     \* bound: parts left there by writes that failed

ASSUME StreamAssumption ==
  /\ NoBase \notin Bases
  /\ Garbage \notin Bases \union Contents \union {NoBase}
  /\ MaxParts \in Nat /\ MaxLost \in Nat

Plugins == {"Buffer", "Root", "Generic"}

AllPlugins ==
  Range(CorePlugins) \union UNION {Range(PluginsOf[lib]) : lib \in DOMAIN PluginsOf}

\* The streamers that libraries bring are of the kinds of the core library, and
\* a name stands for the same kind in all of them.
ASSUME StreamersAssumption ==
  /\ Unknown \notin Plugins /\ Garbage \notin Plugins \union {Unknown}
  /\ \A p \in AllPlugins : p.type = "EventStreamerPlugin" => p.class \in Plugins
  /\ \A p, q \in AllPlugins :
       p.name = q.name /\ p.type = "EventStreamerPlugin" /\ q.type = "EventStreamerPlugin"
         => p.class = q.class

Nothing == "nothing"   \* a null pointer

VARIABLES
  streamerName,   \* m_streamerName
  streamer,       \* the plugin behind m_streamer, or Nothing
  device,         \* the parts on the device
  position,       \* of the device, when reading
  written,        \* the complete writes: start, end, event
  lastRead        \* what the last read gave: {[start, end, event]}, or {} if it failed

vars == <<manager, streamerName, streamer, device, position, written,
          lastRead>>
-----------------------------------------------------------------------------
\* The parts that hold the contents of an event: one map of a generic event
\* stands for the int, float and double maps, the other for the strings.
Parts(kind) ==
  CASE kind = "Buffer"  -> <<"buffer">>
    [] kind = "Root"    -> <<"object">>
    [] kind = "Generic" -> <<"numbers", "strings">>

\* What read() of the plugin takes from the device.
PartsRead(kind) == IF kind = "Generic" THEN <<"numbers">> ELSE Parts(kind)

\* An event: the type of its implementation, the name its user gave it,
\* the base data, the contents by part, and the size.
Event(kind, name, base, contents, size) ==
  [kind |-> kind, name |-> name, base |-> base, contents |-> contents,
   size |-> size]

Events ==
  UNION {{Event(k, n, b, c, 0) : n \in {k, "Buffer", Unknown}, b \in Bases,
                                 c \in [1 .. Len(Parts(k)) -> Contents]} :
         k \in Plugins}

Part(part, value) == [part |-> part, value |-> value]

\* What writeEvent() puts on the device for e, with the streamer named n.
Record(e, n) ==
  <<Part("name", n), Part("base", e.base)>>
    \o [i \in 1 .. Len(Parts(e.kind)) |-> Part(Parts(e.kind)[i], e.contents[i])]

Init ==
  /\ ManagerInit
  /\ streamerName = "" /\ streamer = Nothing
  /\ device = <<>> /\ position = 0
  /\ written = {} /\ lastRead = {}

\* The streamer keeps its plugin whatever happens to the manager.
Manage ==
  /\ \/ Idle /\ \E libs \in SeqOf(Libraries, MaxLoads + 1) : LoadLibraries(libs)
     \/ LoadLibrary
     \/ Idle /\ Kill
  /\ UNCHANGED <<streamerName, streamer, device, position, written, lastRead>>
-----------------------------------------------------------------------------
\* The plugin of the last call is used again.
InUse(n) == streamer # Nothing /\ streamerName = n

Class(n) == Create(n, "EventStreamerPlugin")

\* SetUp() that stores the name before it knows whether the plugin exists.
SetUpNameFirst(n) ==
  IF InUse(n) THEN UNCHANGED <<streamerName, streamer>>
  ELSE IF Class(n) # NoPlugin THEN streamerName' = n /\ streamer' = Class(n)
  ELSE streamerName' = n /\ UNCHANGED streamer

\* m_streamer and m_streamerName after the set-up for n.
SetUp(n) ==
  IF InUse(n) THEN UNCHANGED <<streamerName, streamer>>
  ELSE IF Class(n) # NoPlugin THEN streamerName' = n /\ streamer' = Class(n)
  ELSE streamer' = Nothing /\ UNCHANGED streamerName

\* What a write of e puts on the device if it stops after n parts, in the
\* middle of the next one if cut.
Stopped(e, n, cut) ==
  SubSeq(Record(e, streamerName'), 1, n)
    \o IF cut THEN <<Part("cut", Garbage)>> ELSE <<>>

\* The parts on the device that belong to no complete write.
Lost == Cardinality({i \in 1 .. Len(device) :
                       \A w \in written : i \notin w.start + 1 .. w.end})

PutAll(e) ==
  /\ device' = device \o Record(e, streamerName')
  /\ written' = written \union
       {[start |-> Len(device), end |-> Len(device'), event |-> e]}

PutSome(parts) ==
  /\ Lost + Len(parts) <= MaxLost
  /\ device' = device \o parts
  /\ UNCHANGED written

\* A null event, and a plugin that is not found, are refused and write nothing.
WriteEvent(e) ==
  /\ Len(device) + Len(Record(e, e.name)) <= MaxParts
  /\ SetUp(e.name)
  /\ \/ /\ streamer' = Nothing
        /\ UNCHANGED <<device, written>>
     \/ /\ streamer' = e.kind
        /\ PutAll(e)
     \* getEvent<T>() of the plugin's type gives null for another event
     \/ /\ streamer' \notin {Nothing, e.kind}
        /\ PutSome(Stopped(e, 2, FALSE))
     \* the device refuses a part, or a piece of it
     \/ /\ streamer' # Nothing
        /\ \E n \in 0 .. Len(Record(e, e.name)) - 1, cut \in BOOLEAN :
             /\ n < 2 \/ streamer' = e.kind
             /\ PutSome(Stopped(e, n, cut))
  /\ UNCHANGED <<manager, position, lastRead>>
-----------------------------------------------------------------------------
\* Reading() of an array that forgets the length the array carries.
ReadingShort(part, p) ==
  IF p < Len(device) /\ device[p + 1].part = part
  THEN {[ok |-> TRUE, value |-> device[p + 1].value,
         end |-> IF part = "buffer" THEN p ELSE p + 1]}
  ELSE {[ok |-> FALSE, value |-> Garbage, end |-> p]}

\* The ways to read a part at p: its value if it is the part expected; if it
\* is not, its bytes may be taken for anything, of any length, or refused.
Reading(part, p) ==
  IF p < Len(device) /\ device[p + 1].part = part
  THEN {[ok |-> TRUE, value |-> device[p + 1].value, end |-> p + 1]}
  ELSE {[ok |-> FALSE, value |-> Garbage, end |-> p]} \union
       {[ok |-> TRUE, value |-> Garbage, end |-> q] : q \in p + 1 .. Len(device)}

\* The name read: garbage may be any text, the name of a plugin too.
NameReading(p) ==
  LET r == Reading("name", p)
  IN  {x \in r : x.value # Garbage \/ ~x.ok} \union
      {[x EXCEPT !.value = n] : x \in {y \in r : y.value = Garbage /\ y.ok},
                                n \in Plugins \union {Unknown}}

\* The ways to read one part after the other from p, up to one that fails.
ReadingAll(parts, p) ==
  IF Len(parts) = 1
  THEN {[ok |-> x.ok, values |-> <<x.value>>, end |-> x.end] :
        x \in Reading(parts[1], p)}
  ELSE UNION {{[ok |-> x.ok /\ y.ok, values |-> <<x.value, y.value>>,
                end |-> IF x.ok THEN y.end ELSE x.end] :
               y \in Reading(parts[2], x.end)} :
              x \in Reading(parts[1], p)}

\* A map that is not read stays empty.
Filled(kind, values) ==
  [i \in 1 .. Len(Parts(kind)) |->
     IF i \in DOMAIN values THEN values[i] ELSE Nothing]

\* The base data once the plugin has read: setEvent() of a ROOT event clears
\* the event it sets.
BaseAfter(kind, base) == IF kind = "Root" THEN NoBase ELSE base

\* The event of a read that gave the base data and the contents in c.
EventRead(base, c) ==
  Event(streamer', streamerName', BaseAfter(streamer', base),
        Filled(streamer', c.values), c.end)

ReadEvent ==
  \E n \in NameReading(position) :
    IF ~n.ok
    THEN /\ position' = n.end /\ lastRead' = {}
         /\ UNCHANGED <<manager, streamerName, streamer, device, written>>
    ELSE
    /\ SetUp(n.value)
    /\ UNCHANGED <<manager, device, written>>
    /\ \/ /\ streamer' = Nothing
          /\ position' = n.end /\ lastRead' = {}
       \/ /\ streamer' # Nothing
          /\ \E b \in Reading("base", n.end) :
             \E c \in ReadingAll(PartsRead(streamer'), b.end) :
               /\ position' = IF b.ok THEN c.end ELSE b.end
               /\ IF b.ok /\ c.ok
                  THEN lastRead' = {[start |-> position, end |-> c.end,
                                     event |-> EventRead(b.value, c)]}
                  ELSE lastRead' = {}

\* The reader of the device starts again at its beginning.
Rewind ==
  /\ position' = 0
  /\ lastRead' = {}
  /\ UNCHANGED <<manager, streamerName, streamer, device, written>>

Next ==
  \/ Manage
  \/ \E e \in Events : Idle /\ WriteEvent(e)
  \/ Idle /\ ReadEvent
  \/ Idle /\ Rewind

Spec == Init /\ [][Next]_vars
-----------------------------------------------------------------------------
\* The last successful read with the write it met at its start, if any.
Met == {m \in written \X lastRead : m[1].start = m[2].start}

(***************************************************************************)
(* A read that starts where a complete write started gives that event,     *)
(* whichever streamers were used in between (readEvent(),                  *)
(* EventStreamer.cc:65-94): its streamer, the maps its plugin reads, its   *)
(* base data where the plugin sets nothing after readBase().  A buffer or  *)
(* a ROOT object is read to its end, so that the next read starts at the   *)
(* next event (the arrays carry their length: BufferEventStreamer.cc:92,   *)
(* RootEventStreamer.cc:139).                                              *)
(***************************************************************************)
ReadsWhatWasWritten ==
  \A m \in Met :
    LET w == m[1]
        e == m[2].event
    IN  /\ e.kind = w.event.kind /\ e.name = w.event.name
        /\ \A i \in 1 .. Len(PartsRead(e.kind)) :
             e.contents[i] = w.event.contents[i]
        /\ e.kind # "Root" => e.base = w.event.base
        /\ e.kind # "Generic" => m[2].end = w.end

\* "The serialized event size" (Event.h:178): an event that was read is not
\* larger than what its write has put on the device.
SizesAreOfTheEvent ==
  \A m \in Met : m[2].event.size <= m[1].end - m[1].start
=============================================================================
