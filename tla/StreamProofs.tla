------------------------------ MODULE StreamProofs ------------------------------
(***************************************************************************)
(* Events and elements on a device and who owns objects, for any           *)
(* libraries, any names and any contents, and any number of objects and    *)
(* handlers: the plugins loaded are found (PluginManager), events and      *)
(* elements are read as they were written (EventStream, ElementStream),    *)
(* and every object that is allocated has one owner (Ownership).  The      *)
(* modules share no state.                                                 *)
(***************************************************************************)
EXTENDS EventStream, Ownership, ElementStream, FiniteSetTheorems, SequenceTheorems,
        WellFoundedInduction, TLAPS

(***************************************************************************)
(* PluginManager                                                           *)
(***************************************************************************)
\* What is registered without a collision is found, and hides nothing.
LEMMA RegisterFacts ==
  ASSUME NEW map, NEW S, NEW plugins \in Seq(S), ~Collides(map, plugins)
  PROVE  /\ DOMAIN Register(map, plugins) = DOMAIN map \union Names(plugins)
         /\ \A n \in DOMAIN map : Register(map, plugins)[n] = map[n]
         /\ \A p \in Range(plugins) : Register(map, plugins)[p.name] = p
         /\ \A p \in Range(plugins) : p.name \in Names(plugins)
<1>1. DOMAIN plugins = 1 .. Len(plugins) /\ Len(plugins) \in Nat
  OBVIOUS
<1>2. \A p \in Range(plugins) : p.name \in Names(plugins)
  BY DEF Names
<1>3. DOMAIN Register(map, plugins) = DOMAIN map \union Names(plugins)
  BY DEF Register
<1>4. \A n \in DOMAIN map : Register(map, plugins)[n] = map[n]
  BY DEF Register
<1>5. ASSUME NEW p \in Range(plugins) PROVE Register(map, plugins)[p.name] = p
  <2>1. PICK i \in DOMAIN plugins : plugins[i] = p
    BY DEF Range
  <2>2. p.name \notin DOMAIN map
    BY <1>2 DEF Collides
  <2>3. \A j \in DOMAIN plugins : j # i => plugins[j].name # p.name
    BY <2>1 DEF Collides
  <2> DEFINE First(k) == /\ plugins[k].name = p.name
                         /\ \A j \in 1 .. k - 1 : plugins[j].name # p.name
  <2>4. First(i)
    <3> SUFFICES ASSUME NEW j \in 1 .. i - 1 PROVE plugins[j].name # p.name
      BY <2>1
    <3>1. j \in DOMAIN plugins /\ j # i
      BY <1>1
    <3> QED BY <2>3, <3>1
  <2>5. \A k \in DOMAIN plugins : First(k) => k = i
    BY <2>3
  <2>6. Register(map, plugins)[p.name] = plugins[CHOOSE k \in DOMAIN plugins : First(k)]
    BY <1>2, <2>2 DEF Register
  <2> HIDE DEF First
  <2> QED BY <2>1, <2>4, <2>5, <2>6
<1> QED BY <1>2, <1>3, <1>4, <1>5

\* What is in the map is there under its own name.
MapOK ==
  process = "running" =>
    \A n \in DOMAIN pluginMap : pluginMap[n] \in AllPlugins /\ pluginMap[n].name = n

\* Until the manager is killed, a library is in the process when it was opened
\* through this manager, so that opening it again cannot miss its plugins.
LibrariesOK ==
  /\ dlLibraries \in Seq(DOMAIN PluginsOf)
  /\ ~killed => mapped = Range(dlLibraries)

ManagerInv == MapOK /\ LibrariesOK /\ LoadedPluginsAreFound

LEMMA ManagerStarts == ManagerInit => ManagerInv
<1> SUFFICES ASSUME ManagerInit PROVE ManagerInv
  OBVIOUS
<1>1. /\ DOMAIN pluginMap = Names(CorePlugins)
      /\ \A p \in Range(CorePlugins) : pluginMap[p.name] = p /\ p.name \in DOMAIN pluginMap
  <2>1. DOMAIN <<>> = {}
    OBVIOUS
  <2> QED BY <2>1, RegisterFacts, PluginAssumption DEF ManagerInit
<1>2. Range(dlLibraries) = {} /\ dlLibraries \in Seq(DOMAIN PluginsOf) /\ mapped = {}
  BY DEF ManagerInit, Range
<1>3. MapOK
  BY <1>1 DEF MapOK, Names, AllPlugins
<1> QED BY <1>1, <1>2, <1>3 DEF ManagerInv, LibrariesOK, LoadedPluginsAreFound

LEMMA OpenKeepsInv ==
  ASSUME ManagerInv, NEW lib, process = "running", Open(lib)
  PROVE  ManagerInv'
<1>1. /\ lib \in DOMAIN PluginsOf /\ dlLibraries' = Append(dlLibraries, lib)
      /\ mapped' = mapped \union {lib} /\ killed' = killed
      /\ dlLibraries \in Seq(DOMAIN PluginsOf)
  BY DEF Open, ManagerInv, LibrariesOK
<1>2. dlLibraries' \in Seq(DOMAIN PluginsOf) /\ Range(dlLibraries') = Range(dlLibraries) \union {lib}
  <2>1. /\ dlLibraries' \in Seq(DOMAIN PluginsOf)
        /\ Len(dlLibraries') = Len(dlLibraries) + 1
        /\ \A i \in 1 .. Len(dlLibraries) : dlLibraries'[i] = dlLibraries[i]
        /\ dlLibraries'[Len(dlLibraries) + 1] = lib
    BY <1>1, AppendProperties
  <2>2. DOMAIN dlLibraries' = 1 .. Len(dlLibraries) + 1 /\ DOMAIN dlLibraries = 1 .. Len(dlLibraries)
    BY <1>1, <2>1
  <2>3. DOMAIN dlLibraries' = DOMAIN dlLibraries \union {Len(dlLibraries) + 1}
    BY <1>1, <2>2
  <2> QED BY <2>1, <2>2, <2>3 DEF Range
<1>3. LibrariesOK'
  BY <1>1, <1>2 DEF ManagerInv, LibrariesOK
<1>4. CASE lib \in mapped
  <2>1. pluginMap' = pluginMap /\ process' = process
    BY <1>4 DEF Open
  <2>2. ~killed => Range(dlLibraries') = Range(dlLibraries)
    BY <1>2, <1>4 DEF ManagerInv, LibrariesOK
  <2> QED
    BY <1>1, <1>3, <2>1, <2>2 DEF ManagerInv, MapOK, LoadedPluginsAreFound
<1>5. CASE lib \notin mapped /\ Collides(pluginMap, PluginsOf[lib])
  <2>1. process' = "undefined"
    BY <1>5 DEF Open
  <2> QED BY <1>3, <2>1 DEF ManagerInv, MapOK, LoadedPluginsAreFound
<1>6. CASE lib \notin mapped /\ ~Collides(pluginMap, PluginsOf[lib])
  <2>1. pluginMap' = Register(pluginMap, PluginsOf[lib]) /\ process' = process
    BY <1>6 DEF Open
  <2>2. PluginsOf[lib] \in Seq(Range(PluginsOf[lib]))
    BY <1>1, PluginAssumption
  <2>3. /\ DOMAIN pluginMap' = DOMAIN pluginMap \union Names(PluginsOf[lib])
        /\ \A n \in DOMAIN pluginMap : pluginMap'[n] = pluginMap[n]
        /\ \A p \in Range(PluginsOf[lib]) : pluginMap'[p.name] = p /\ p.name \in DOMAIN pluginMap'
    <3>1. LET map == Register(pluginMap, PluginsOf[lib])
          IN  /\ DOMAIN map = DOMAIN pluginMap \union Names(PluginsOf[lib])
              /\ \A n \in DOMAIN pluginMap : map[n] = pluginMap[n]
              /\ \A p \in Range(PluginsOf[lib]) :
                   map[p.name] = p /\ p.name \in Names(PluginsOf[lib])
      BY <1>6, <2>2, RegisterFacts, ZenonT(40)
    <3> QED BY <2>1, <3>1
  <2>4. MapOK'
    <3>1. Range(PluginsOf[lib]) \subseteq AllPlugins
      BY <1>1 DEF AllPlugins
    <3> QED BY <2>1, <2>3, <3>1 DEF ManagerInv, MapOK, Names
  <2>5. LoadedPluginsAreFound'
    BY <1>1, <1>2, <2>1, <2>3 DEF ManagerInv, LoadedPluginsAreFound
  <2> QED BY <1>3, <2>4, <2>5 DEF ManagerInv
<1> QED BY <1>4, <1>5, <1>6

LEMMA ManageKeepsInv == ManagerInv /\ Manage => ManagerInv'
<1> SUFFICES ASSUME ManagerInv, Manage PROVE ManagerInv'
  OBVIOUS
<1>1. ASSUME NEW libs, LoadLibraries(libs) PROVE ManagerInv'
  BY <1>1 DEF LoadLibraries, ManagerInv, MapOK, LibrariesOK, LoadedPluginsAreFound
<1>2. ASSUME LoadLibrary PROVE ManagerInv'
  <2>1. CASE Open(Head(toLoad))
    BY <1>2, <2>1, OpenKeepsInv DEF LoadLibrary
  <2>2. CASE CannotOpen(Head(toLoad))
    BY <2>2 DEF CannotOpen, ManagerInv, MapOK, LibrariesOK, LoadedPluginsAreFound
  <2> QED BY <1>2, <2>1, <2>2 DEF LoadLibrary
<1>3. ASSUME Kill PROVE ManagerInv'
  BY <1>3 DEF Kill, ManagerInv, MapOK, LibrariesOK, LoadedPluginsAreFound
<1> QED BY <1>1, <1>2, <1>3 DEF Manage

LEMMA ManagerStays == ManagerInv /\ UNCHANGED manager => ManagerInv'
BY DEF manager, ManagerInv, MapOK, LibrariesOK, LoadedPluginsAreFound

LEMMA ManagerInvKept == ManagerInv /\ [Next]_vars => ManagerInv'
<1> SUFFICES ASSUME ManagerInv, [Next]_vars PROVE ManagerInv'
  OBVIOUS
<1>1. CASE Manage
  BY <1>1, ManageKeepsInv
<1>2. ASSUME NEW e \in Events, WriteEvent(e) PROVE UNCHANGED manager
  BY <1>2 DEF WriteEvent
<1>3. CASE ReadEvent
  BY <1>3, ManagerStays DEF ReadEvent, manager
<1>4. CASE Rewind
  BY <1>4, ManagerStays DEF Rewind
<1>5. CASE UNCHANGED vars
  BY <1>5, ManagerStays DEF vars
<1> QED BY <1>1, <1>2, <1>3, <1>4, <1>5, ManagerStays DEF Next

(***************************************************************************)
(* Whatever libraries are named, in which order and how often, no plugin   *)
(* of a library that was loaded is missing or replaced, unless the manager *)
(* was killed or the process is undefined (registerPlugin()).              *)
(***************************************************************************)
THEOREM PluginsStayFound == Spec => []LoadedPluginsAreFound
<1>1. Init => ManagerInv
  BY ManagerStarts DEF Init
<1>2. ManagerInv => LoadedPluginsAreFound
  BY DEF ManagerInv
<1> QED BY <1>1, <1>2, ManagerInvKept, PTL DEF Spec
-----------------------------------------------------------------------------
(***************************************************************************)
(* EventStream                                                             *)
(***************************************************************************)
StreamerNames == Plugins \union {Unknown}

Cells ==
  [part : {"name", "base", "buffer", "object", "numbers", "strings", "cut"},
   value : StreamerNames \union Bases \union Contents \union {Garbage}]

\* The streamers of this name in the libraries are of this kind.
StandsFor(n, kind) ==
  \E p \in AllPlugins : p.name = n /\ p.type = "EventStreamerPlugin" /\ p.class = kind

DeviceOK == device \in Seq(Cells) /\ position \in Nat

\* The streamer in use is of the kind its name stands for.
StreamerOK == streamer # Nothing => StandsFor(streamerName, streamer)

\* What a complete write has put on the device.
Holds(dev, w) ==
  LET record == Record(w.event, w.event.name)
  IN  /\ w.start \in Nat /\ w.end = w.start + Len(record) /\ w.end <= Len(dev)
      /\ \A i \in 1 .. Len(record) : dev[w.start + i] = record[i]

WritesOK ==
  \A w \in written : /\ w.event \in Events
                     /\ StandsFor(w.event.name, w.event.kind)
                     /\ Holds(device, w)

\* A read that succeeded started before the end, so no later write starts there.
ReadOK == \A r \in lastRead : r.start \in Nat /\ r.start < Len(device)

StreamInv ==
  ManagerInv /\ DeviceOK /\ StreamerOK /\ WritesOK /\ ReadOK /\ ReadsWhatWasWritten

LEMMA OneKind ==
  ASSUME NEW n, NEW k, NEW l, StandsFor(n, k), StandsFor(n, l)
  PROVE  k = l /\ k \in Plugins /\ k # Nothing
BY StreamersAssumption DEF StandsFor, Plugins, Nothing

\* One part is read, the first of those written.
LEMMA PartFacts ==
  ASSUME NEW k \in Plugins
  PROVE  /\ Len(Parts(k)) \in 1 .. 2 /\ Len(PartsRead(k)) = 1
         /\ PartsRead(k)[1] = Parts(k)[1]
         /\ k # "Generic" => Len(Parts(k)) = 1
         /\ \A i \in 1 .. Len(Parts(k)) :
              Parts(k)[i] \in {"buffer", "object", "numbers", "strings"}
<1>1. CASE k = "Buffer"
  BY <1>1 DEF Parts, PartsRead
<1>2. CASE k = "Root"
  BY <1>2 DEF Parts, PartsRead
<1>3. CASE k = "Generic"
  BY <1>3 DEF Parts, PartsRead
<1> QED BY <1>1, <1>2, <1>3 DEF Plugins

LEMMA EventFacts ==
  ASSUME NEW e \in Events
  PROVE  /\ e.kind \in Plugins /\ e.name \in StreamerNames /\ e.base \in Bases
         /\ e.contents \in [1 .. Len(Parts(e.kind)) -> Contents]
<1>1. PICK k \in Plugins :
        \E n \in {k, "Buffer", Unknown}, b \in Bases,
           c \in [1 .. Len(Parts(k)) -> Contents] : e = Event(k, n, b, c, 0)
  BY DEF Events
<1>2. PICK n \in {k, "Buffer", Unknown}, b \in Bases,
           c \in [1 .. Len(Parts(k)) -> Contents] : e = Event(k, n, b, c, 0)
  BY <1>1
<1> QED BY <1>2 DEF Event, StreamerNames, Plugins

\* The first three parts of a record are its name, its base data and what the
\* plugin reads.
LEMMA RecordFacts ==
  ASSUME NEW e \in Events, NEW n \in StreamerNames
  PROVE  /\ Record(e, n) \in Seq(Cells)
         /\ Len(Record(e, n)) = 2 + Len(Parts(e.kind))
         /\ Record(e, n)[1] = Part("name", n) /\ Record(e, n)[2] = Part("base", e.base)
         /\ Record(e, n)[3] = Part(Parts(e.kind)[1], e.contents[1])
<1> DEFINE k == e.kind
           head == <<Part("name", n), Part("base", e.base)>>
           tail == [i \in 1 .. Len(Parts(k)) |-> Part(Parts(k)[i], e.contents[i])]
<1>1. head \in Seq(Cells) /\ Len(head) = 2
  BY EventFacts DEF Cells, Part
<1>2. tail \in Seq(Cells) /\ Len(tail) = Len(Parts(k))
  <2>1. Len(Parts(k)) \in Nat
    BY EventFacts, PartFacts
  <2>2. \A i \in 1 .. Len(Parts(k)) : Part(Parts(k)[i], e.contents[i]) \in Cells
    <3> SUFFICES ASSUME NEW i \in 1 .. Len(Parts(k))
                 PROVE  Part(Parts(k)[i], e.contents[i]) \in Cells
      OBVIOUS
    <3>1. Parts(k)[i] \in {"buffer", "object", "numbers", "strings"}
      BY EventFacts, PartFacts
    <3>2. e.contents[i] \in Contents
      BY EventFacts
    <3> HIDE DEF k
    <3> QED BY <3>1, <3>2 DEF Cells, Part
  <2> QED BY <2>1, <2>2, IsASeq
<1>3. Record(e, n) = head \o tail
  BY DEF Record
<1>4. Len(Parts(k)) \in 1 .. 2
  BY EventFacts, PartFacts
<1>5. tail[1] = Part(Parts(k)[1], e.contents[1])
  BY <1>4
<1>6. head[1] = Part("name", n) /\ head[2] = Part("base", e.base)
  OBVIOUS
<1> HIDE DEF head, tail, k
<1> QED
  <2> DEFINE record == Record(e, n)
             len == Len(Parts(k))
  <2> HIDE DEF len
  <2>1. /\ record \in Seq(Cells) /\ Len(record) = Len(head) + Len(tail)
        /\ \A i \in 1 .. Len(head) + Len(tail) :
             record[i] = IF i <= Len(head) THEN head[i] ELSE tail[i - Len(head)]
    <3>1. /\ head \o tail \in Seq(Cells) /\ Len(head \o tail) = Len(head) + Len(tail)
          /\ \A i \in 1 .. Len(head) + Len(tail) :
               (head \o tail)[i] = IF i <= Len(head) THEN head[i] ELSE tail[i - Len(head)]
      BY <1>1, <1>2, ConcatProperties, ZenonT(40)
    <3>2. record = head \o tail
      BY <1>3
    <3> HIDE DEF record
    <3> QED BY <3>1, <3>2
  <2> HIDE DEF record
  <2>2. Len(head) = 2 /\ Len(tail) = len /\ len \in 1 .. 2
    BY <1>1, <1>2, <1>4 DEF len
  <2>3. Len(record) = 2 + len /\ record[1] = head[1] /\ record[2] = head[2]
    BY <2>1, <2>2
  <2>4. record[3] = tail[1]
    BY <2>1, <2>2
  <2> QED BY <1>5, <1>6, <2>1, <2>3, <2>4 DEF record, len, k
-----------------------------------------------------------------------------
\* A set-up that gives a streamer gives the one asked for.
LEMMA SetUpFacts ==
  ASSUME ManagerInv, StreamerOK, process = "running", NEW n, SetUp(n)
  PROVE  /\ StreamerOK'
         /\ streamer' # Nothing => streamerName' = n
<1>1. CASE InUse(n)
  BY <1>1 DEF SetUp, InUse, StreamerOK
<1>2. CASE ~InUse(n) /\ Class(n) # NoPlugin
  <2>1. /\ n \in DOMAIN pluginMap /\ pluginMap[n].type = "EventStreamerPlugin"
        /\ pluginMap[n].class = Class(n)
    BY <1>2 DEF Class, Create
  <2>2. pluginMap[n] \in AllPlugins /\ pluginMap[n].name = n
    BY <2>1 DEF ManagerInv, MapOK
  <2>3. StandsFor(n, Class(n))
    BY <2>1, <2>2 DEF StandsFor
  <2> QED BY <1>2, <2>3 DEF SetUp, StreamerOK
<1>3. CASE ~InUse(n) /\ Class(n) = NoPlugin
  BY <1>3 DEF SetUp, StreamerOK
<1> QED BY <1>1, <1>2, <1>3

\* What is on the device stays there when more is written behind it.
LEMMA AppendKeepsWrites ==
  ASSUME DeviceOK, WritesOK, NEW parts \in Seq(Cells), device' = device \o parts
  PROVE  /\ device' \in Seq(Cells) /\ Len(device') = Len(device) + Len(parts)
         /\ \A w \in written : Holds(device', w)
<1>1. /\ device' \in Seq(Cells) /\ Len(device') = Len(device) + Len(parts)
      /\ \A i \in 1 .. Len(device) : device'[i] = device[i]
      /\ Len(device) \in Nat /\ Len(parts) \in Nat
  BY ConcatProperties DEF DeviceOK
<1>2. ASSUME NEW w \in written PROVE Holds(device', w)
  <2> DEFINE record == Record(w.event, w.event.name)
             len == Len(record)
  <2>1. /\ w.start \in Nat /\ w.end = w.start + len /\ w.end <= Len(device)
        /\ \A i \in 1 .. len : device[w.start + i] = record[i]
    BY DEF WritesOK, Holds
  <2>2. len \in Nat
    BY EventFacts, RecordFacts, LenProperties DEF WritesOK
  <2> HIDE DEF record, len
  <2>3. w.end <= Len(device')
    BY <1>1, <2>1, <2>2
  <2>4. \A i \in 1 .. len : device'[w.start + i] = record[i]
    <3> TAKE i \in 1 .. len
    <3>1. w.start + i \in 1 .. Len(device)
      BY <1>1, <2>1, <2>2
    <3> QED BY <1>1, <2>1, <3>1
  <2> QED BY <2>1, <2>3, <2>4 DEF Holds, record, len
<1> QED BY <1>1, <1>2

LEMMA ReadsStay ==
  ReadsWhatWasWritten /\ UNCHANGED <<written, lastRead>> => ReadsWhatWasWritten'
BY DEF ReadsWhatWasWritten, Met

LEMMA StoppedFacts ==
  ASSUME NEW e \in Events, streamerName' = e.name, NEW cut \in BOOLEAN,
         NEW n \in 0 .. Len(Record(e, e.name))
  PROVE  Stopped(e, n, cut) \in Seq(Cells)
<1> DEFINE record == Record(e, e.name)
<1>1. record \in Seq(Cells) /\ Len(record) \in Nat
  BY EventFacts, RecordFacts, LenProperties
<1>2. SubSeq(record, 1, n) \in Seq(Cells)
  <2> HIDE DEF record
  <2>1. n \in Int /\ 1 \in Int /\ n <= Len(record) /\ \A i \in 1 .. n : record[i] \in Cells
    BY <1>1, ElementOfSeq DEF record
  <2> QED BY <1>1, <2>1, SubSeqProperties
<1>3. <<Part("cut", Garbage)>> \in Seq(Cells) /\ <<>> \in Seq(Cells)
  BY DEF Cells, Part
<1>4. Stopped(e, n, cut) = SubSeq(record, 1, n) \o IF cut THEN <<Part("cut", Garbage)>> ELSE <<>>
  BY DEF Stopped
<1> HIDE DEF record
<1>5. CASE cut
  BY <1>2, <1>3, <1>4, <1>5, ConcatProperties
<1>6. CASE ~cut
  BY <1>2, <1>3, <1>4, <1>6, ConcatProperties
<1> QED BY <1>5, <1>6

LEMMA WriteKeepsInv ==
  ASSUME StreamInv, process = "running", NEW e \in Events, WriteEvent(e)
  PROVE  DeviceOK' /\ StreamerOK' /\ WritesOK' /\ ReadOK' /\ ReadsWhatWasWritten'
<1> USE DEF StreamInv
<1>1. /\ StreamerOK' /\ (streamer' # Nothing => streamerName' = e.name)
      /\ UNCHANGED <<manager, position, lastRead>>
  BY SetUpFacts DEF WriteEvent
<1>2. CASE UNCHANGED <<device, written>>
  BY <1>1, <1>2, ReadsStay DEF DeviceOK, WritesOK, ReadOK
<1>3. ASSUME NEW parts \in Seq(Cells), PutSome(parts) PROVE DeviceOK' /\ WritesOK' /\ ReadOK' /\ ReadsWhatWasWritten'
  <2>1. /\ device' \in Seq(Cells) /\ Len(device') = Len(device) + Len(parts)
        /\ \A w \in written : Holds(device', w)
    BY <1>3, AppendKeepsWrites DEF PutSome
  <2>2. DeviceOK'
    BY <1>1, <2>1 DEF DeviceOK
  <2>3. WritesOK'
    BY <1>3, <2>1 DEF PutSome, WritesOK
  <2>4. ReadOK'
    <3> SUFFICES ASSUME NEW r \in lastRead PROVE r.start \in Nat /\ r.start < Len(device')
      BY <1>1 DEF ReadOK
    <3>1. Len(device) \in Nat /\ Len(parts) \in Nat
      BY LenProperties DEF DeviceOK
    <3> QED BY <2>1, <3>1 DEF ReadOK
  <2> QED BY <1>1, <1>3, <2>2, <2>3, <2>4, ReadsStay DEF PutSome
<1>4. CASE streamer' = e.kind /\ PutAll(e)
  <2>1. streamerName' = e.name
    BY <1>1, <1>4, EventFacts DEF Plugins, Nothing
  <2> DEFINE record == Record(e, e.name)
             new == [start |-> Len(device), end |-> Len(device'), event |-> e]
  <2>2. record \in Seq(Cells)
    BY EventFacts, RecordFacts
  <2>3. device' = device \o record /\ written' = written \union {new}
    BY <1>4, <2>1 DEF PutAll
  <2>4. /\ device' \in Seq(Cells) /\ Len(device') = Len(device) + Len(record)
        /\ \A w \in written : Holds(device', w)
    BY <2>2, <2>3, AppendKeepsWrites
  <2>5. StandsFor(e.name, e.kind)
    BY <1>1, <1>4, <2>1, EventFacts DEF StreamerOK, Plugins, Nothing
  <2>6. Holds(device', new)
    <3>1. Len(device) \in Nat /\ Len(record) \in Nat
      BY <2>2, LenProperties DEF DeviceOK
    <3>2. \A i \in 1 .. Len(record) : device'[Len(device) + i] = record[i]
      <4>1. \A i \in 1 .. Len(device) + Len(record) : (device \o record)[i] =
              IF i <= Len(device) THEN device[i] ELSE record[i - Len(device)]
        BY <2>2, ConcatProperties DEF DeviceOK
      <4> HIDE DEF record
      <4> QED BY <2>3, <3>1, <4>1
    <3>3. new.start = Len(device) /\ new.end = Len(device') /\ new.event = e
      OBVIOUS
    <3> HIDE DEF new
    <3> QED BY <2>4, <3>1, <3>2, <3>3 DEF Holds
  <2>7. WritesOK'
    BY <2>3, <2>4, <2>5, <2>6 DEF WritesOK
  <2>8. ReadOK'
    <3> SUFFICES ASSUME NEW r \in lastRead PROVE r.start \in Nat /\ r.start < Len(device')
      BY <1>1 DEF ReadOK
    <3>1. Len(record) \in Nat /\ Len(device) \in Nat
      BY <2>2, LenProperties DEF DeviceOK
    <3> HIDE DEF record
    <3> QED BY <2>4, <3>1 DEF ReadOK
  <2>9. ReadsWhatWasWritten'
    \* No read started where the device ended.
    <3>1. \A r \in lastRead : r.start # new.start
      BY LenProperties DEF ReadOK, DeviceOK
    <3>2. Met' \subseteq Met
      <4> HIDE DEF new
      <4> QED BY <1>1, <2>3, <3>1 DEF Met
    <3> QED BY <3>2 DEF ReadsWhatWasWritten
  <2> QED BY <1>1, <2>4, <2>7, <2>8, <2>9 DEF DeviceOK
<1>5. CASE streamer' \notin {Nothing, e.kind} /\ PutSome(Stopped(e, 2, FALSE))
  <2>1. 2 \in 0 .. Len(Record(e, e.name))
    BY EventFacts, RecordFacts, PartFacts
  <2>2. Stopped(e, 2, FALSE) \in Seq(Cells)
    BY <1>1, <1>5, <2>1, StoppedFacts
  <2> QED BY <1>1, <1>3, <1>5, <2>2
<1>6. ASSUME streamer' # Nothing, NEW n \in 0 .. Len(Record(e, e.name)) - 1, NEW cut \in BOOLEAN,
             PutSome(Stopped(e, n, cut))
      PROVE  DeviceOK' /\ WritesOK' /\ ReadOK' /\ ReadsWhatWasWritten'
  <2>1. n \in 0 .. Len(Record(e, e.name))
    BY EventFacts, RecordFacts, LenProperties
  <2>2. Stopped(e, n, cut) \in Seq(Cells)
    BY <1>1, <1>6, <2>1, StoppedFacts
  <2> QED BY <1>3, <1>6, <2>2
<1> QED BY <1>1, <1>2, <1>4, <1>5, <1>6 DEF WriteEvent
-----------------------------------------------------------------------------
\* A read moves on, and needs something to read to succeed.
LEMMA ReadingFacts ==
  ASSUME DeviceOK, NEW p \in Nat, NEW part, NEW x \in Reading(part, p)
  PROVE  x.end \in Nat /\ x.ok \in BOOLEAN /\ (x.ok => p < Len(device))
<1>1. Len(device) \in Nat
  BY LenProperties DEF DeviceOK
<1>2. CASE p < Len(device) /\ device[p + 1].part = part
  <2>1. x = [ok |-> TRUE, value |-> device[p + 1].value, end |-> p + 1]
    BY <1>2 DEF Reading
  <2>2. x.ok = TRUE /\ x.end = p + 1
    BY <2>1
  <2>3. x.end \in Nat
    BY <2>2
  <2> QED BY <1>2, <2>2, <2>3, Zenon
<1>3. CASE x = [ok |-> FALSE, value |-> Garbage, end |-> p]
  BY <1>3
<1>4. ASSUME NEW q \in p + 1 .. Len(device), x = [ok |-> TRUE, value |-> Garbage, end |-> q]
      PROVE  x.end \in Nat /\ x.ok \in BOOLEAN /\ (x.ok => p < Len(device))
  <2>1. q \in Nat /\ p < Len(device)
    BY <1>1
  <2> QED BY <1>4, <2>1
<1>5. CASE ~(p < Len(device) /\ device[p + 1].part = part)
  <2>1. \/ x = [ok |-> FALSE, value |-> Garbage, end |-> p]
        \/ \E q \in p + 1 .. Len(device) : x = [ok |-> TRUE, value |-> Garbage, end |-> q]
    BY <1>5 DEF Reading
  <2> QED BY <1>3, <1>4, <2>1
<1> QED BY <1>2, <1>5

LEMMA NameReadingFacts ==
  ASSUME DeviceOK, NEW p \in Nat, NEW x \in NameReading(p)
  PROVE  x.end \in Nat /\ x.ok \in BOOLEAN /\ (x.ok => p < Len(device))
<1>1. CASE x \in Reading("name", p)
  BY <1>1, ReadingFacts
<1>2. ASSUME NEW y \in Reading("name", p), NEW n, x = [y EXCEPT !.value = n]
      PROVE  x.end = y.end /\ x.ok = y.ok
  <2>1. y = [ok |-> y.ok, value |-> y.value, end |-> y.end]
    BY DEF Reading
  <2> QED BY <1>2, <2>1
<1> QED BY <1>1, <1>2, ReadingFacts DEF NameReading

LEMMA PartsReading ==
  ASSUME NEW k \in Plugins, NEW p
  PROVE  ReadingAll(PartsRead(k), p) =
           {[ok |-> x.ok, values |-> <<x.value>>, end |-> x.end] :
              x \in Reading(Parts(k)[1], p)}
BY PartFacts DEF ReadingAll

\* What is where it is expected is read as it is.
LEMMA ReadingHeld ==
  ASSUME NEW p, p < Len(device), NEW part, NEW v, device[p + 1] = Part(part, v)
  PROVE  Reading(part, p) = {[ok |-> TRUE, value |-> v, end |-> p + 1]}
BY DEF Reading, Part
\* A read that starts at a complete write finds its name, its base data and the
\* part that its plugin reads.
LEMMA MetFacts ==
  ASSUME StreamInv, NEW w \in written, w.start = position
  PROVE  LET e == w.event
         IN  /\ NameReading(position) = {[ok |-> TRUE, value |-> e.name, end |-> position + 1]}
             /\ Reading("base", position + 1) =
                  {[ok |-> TRUE, value |-> e.base, end |-> position + 2]}
             /\ Reading(Parts(e.kind)[1], position + 2) =
                  {[ok |-> TRUE, value |-> e.contents[1], end |-> position + 3]}
             /\ w.end = position + 2 + Len(Parts(e.kind))
<1> DEFINE e == w.event
           record == Record(e, e.name)
<1>1. e \in Events /\ Holds(device, w)
  BY DEF StreamInv, WritesOK
<1>2. /\ Len(record) = 2 + Len(Parts(e.kind)) /\ record[1] = Part("name", e.name)
      /\ record[2] = Part("base", e.base)
      /\ record[3] = Part(Parts(e.kind)[1], e.contents[1])
  BY <1>1, EventFacts, RecordFacts
<1>3. /\ position \in Nat /\ Len(device) \in Nat /\ Len(Parts(e.kind)) \in 1 .. 2
  BY <1>1, EventFacts, PartFacts, LenProperties DEF StreamInv, DeviceOK
<1>4. /\ w.end = position + Len(record) /\ w.end <= Len(device)
      /\ \A i \in 1 .. Len(record) : device[position + i] = record[i]
  BY <1>1 DEF Holds
<1> HIDE DEF record, e
<1>5. /\ position + 2 < Len(device) /\ position + 1 < Len(device) /\ position < Len(device)
      /\ 1 \in 1 .. Len(record) /\ 2 \in 1 .. Len(record) /\ 3 \in 1 .. Len(record)
  BY <1>2, <1>3, <1>4
<1>6. /\ device[position + 1] = record[1] /\ device[position + 2] = record[2]
      /\ device[position + 3] = record[3]
  BY <1>4, <1>5
<1>7. /\ position + 1 + 1 = position + 2 /\ position + 2 + 1 = position + 3
      /\ w.end = position + 2 + Len(Parts(e.kind))
  BY <1>2, <1>3, <1>4
<1>8. Reading("name", position) = {[ok |-> TRUE, value |-> e.name, end |-> position + 1]}
  BY <1>2, <1>5, <1>6, ReadingHeld
<1>9. Reading("base", position + 1) = {[ok |-> TRUE, value |-> e.base, end |-> position + 2]}
  BY <1>2, <1>5, <1>6, <1>7, ReadingHeld
<1>10. Reading(Parts(e.kind)[1], position + 2) =
         {[ok |-> TRUE, value |-> e.contents[1], end |-> position + 3]}
  BY <1>2, <1>5, <1>6, <1>7, ReadingHeld
<1>11. NameReading(position) = {[ok |-> TRUE, value |-> e.name, end |-> position + 1]}
  <2>1. e.name # Garbage
    BY <1>1, EventFacts, StreamersAssumption DEF StreamerNames, e
  <2> DEFINE x == [ok |-> TRUE, value |-> e.name, end |-> position + 1]
  <2>2. x.value # Garbage
    BY <2>1
  <2> HIDE DEF x
  <2>3. NameReading(position) = {x}
    BY <1>8, <2>2 DEF NameReading, x
  <2> QED BY <2>3 DEF x
<1> QED BY <1>7, <1>9, <1>10, <1>11 DEF e

LEMMA ReadKeepsInv ==
  ASSUME StreamInv, process = "running", ReadEvent
  PROVE  DeviceOK' /\ StreamerOK' /\ WritesOK' /\ ReadOK' /\ ReadsWhatWasWritten'
<1> USE DEF StreamInv
<1>1. PICK n \in NameReading(position) :
        \/ /\ ~n.ok /\ position' = n.end /\ lastRead' = {}
           /\ UNCHANGED <<manager, streamerName, streamer, device, written>>
        \/ /\ n.ok /\ SetUp(n.value) /\ UNCHANGED <<manager, device, written>>
           /\ \/ streamer' = Nothing /\ position' = n.end /\ lastRead' = {}
              \/ /\ streamer' # Nothing
                 /\ \E b \in Reading("base", n.end) :
                    \E c \in ReadingAll(PartsRead(streamer'), b.end) :
                      /\ position' = IF b.ok THEN c.end ELSE b.end
                      /\ \/ lastRead' = {}
                         \/ lastRead' = {[start |-> position, end |-> c.end, event |-> EventRead(b.value, c)]}
  BY DEF ReadEvent
<1>2. n.end \in Nat /\ (n.ok => position < Len(device)) /\ position \in Nat
  BY NameReadingFacts DEF DeviceOK
<1>3. UNCHANGED <<manager, device, written>>
  BY <1>1
<1>4. WritesOK'
  BY <1>3 DEF WritesOK
<1>5. lastRead' = {} => ReadOK' /\ ReadsWhatWasWritten'
  BY DEF ReadOK, ReadsWhatWasWritten, Met
<1>6. CASE position' = n.end /\ lastRead' = {} /\ UNCHANGED <<streamerName, streamer>>
  BY <1>2, <1>3, <1>4, <1>5, <1>6 DEF DeviceOK, StreamerOK
<1>7. CASE n.ok /\ SetUp(n.value)
  <2>1. StreamerOK' /\ (streamer' # Nothing => streamerName' = n.value)
    BY <1>7, SetUpFacts
  <2>2. CASE position' = n.end /\ lastRead' = {}
    BY <1>2, <1>3, <1>4, <1>5, <2>1, <2>2 DEF DeviceOK
  <2>3. ASSUME streamer' # Nothing, NEW b \in Reading("base", n.end),
               NEW c \in ReadingAll(PartsRead(streamer'), b.end),
               position' = (IF b.ok THEN c.end ELSE b.end),
               \/ lastRead' = {}
               \/ lastRead' = {[start |-> position, end |-> c.end, event |-> EventRead(b.value, c)]}
        PROVE  DeviceOK' /\ ReadOK' /\ ReadsWhatWasWritten'
    <3>1. StandsFor(n.value, streamer') /\ streamer' \in Plugins
      <4>1. StandsFor(n.value, streamer')
        BY <2>1, <2>3 DEF StreamerOK
      <4> QED BY <4>1, OneKind
    <3>2. PICK x \in Reading(Parts(streamer')[1], b.end) :
            c = [ok |-> x.ok, values |-> <<x.value>>, end |-> x.end]
      BY <2>3, <3>1, PartsReading
    <3>3. b.end \in Nat /\ c.end \in Nat /\ b.ok \in BOOLEAN
      BY <1>2, <2>3, <3>2, ReadingFacts
    <3>4. DeviceOK'
      BY <1>3, <2>3, <3>3 DEF DeviceOK
    <3>5. ReadOK'
      BY <1>2, <1>3, <1>5, <1>7, <2>3 DEF ReadOK
    <3>6. ASSUME NEW w \in written, w.start = position,
                 NEW e, e = EventRead(b.value, c)
          PROVE  /\ e.kind = w.event.kind /\ e.name = w.event.name
                 /\ \A i \in 1 .. Len(PartsRead(e.kind)) :
                      e.contents[i] = w.event.contents[i]
                 /\ e.kind # "Root" => e.base = w.event.base
                 /\ e.kind # "Generic" => c.end = w.end
      <4>1. n.value = w.event.name /\ n.end = position + 1
        BY <3>6, MetFacts
      <4>2. streamer' = w.event.kind
        BY <3>1, <4>1, OneKind DEF WritesOK
      <4>3. b.value = w.event.base /\ b.end = position + 2
        BY <2>3, <3>6, <4>1, MetFacts
      <4>4. x.value = w.event.contents[1] /\ x.end = position + 3
        BY <3>2, <3>6, <4>2, <4>3, MetFacts
      <4>5. /\ e.kind = streamer' /\ e.name = streamerName'
            /\ e.base = BaseAfter(streamer', b.value)
            /\ e.contents = Filled(streamer', c.values)
        BY <3>6 DEF EventRead, Event
      <4>6. c.values = <<x.value>> /\ c.end = x.end
        BY <3>2
      <4>7. Filled(streamer', <<x.value>>)[1] = x.value
        BY <3>1, PartFacts DEF Filled
      <4>8. \A i \in 1 .. Len(PartsRead(e.kind)) : e.contents[i] = w.event.contents[i]
        <5>1. Len(PartsRead(e.kind)) = 1
          BY <3>1, <4>5, PartFacts
        <5> QED BY <4>4, <4>5, <4>6, <4>7, <5>1
      <4>9. e.kind # "Root" => e.base = w.event.base
        BY <4>3, <4>5 DEF BaseAfter
      <4>10. e.kind # "Generic" => c.end = w.end
        <5> SUFFICES ASSUME e.kind # "Generic" PROVE c.end = w.end
          OBVIOUS
        <5>1. Len(Parts(w.event.kind)) = 1
          BY <3>1, <4>2, <4>5, PartFacts
        <5>2. w.end = position + 2 + 1
          BY <3>6, <5>1, MetFacts
        <5> QED BY <1>2, <4>4, <4>5, <4>6, <5>2
      <4> QED BY <2>1, <2>3, <4>1, <4>2, <4>5, <4>8, <4>9, <4>10
    <3>7. ReadsWhatWasWritten'
      <4> SUFFICES ASSUME lastRead' = {[start |-> position, end |-> c.end, event |-> EventRead(b.value, c)]}
                   PROVE  ReadsWhatWasWritten'
        BY <1>5, <2>3
      <4>1. \A m \in Met' : /\ m[1] \in written /\ m[1].start = position
                            /\ m[2].event = EventRead(b.value, c) /\ m[2].end = c.end
        BY <1>3 DEF Met
      <4> QED BY <3>6, <4>1 DEF ReadsWhatWasWritten
    <3> QED BY <3>4, <3>5, <3>7
  <2> QED BY <1>1, <1>3, <1>4, <1>7, <2>1, <2>2, <2>3
<1> QED BY <1>1, <1>6, <1>7

LEMMA StreamKeepsInv == StreamInv /\ [Next]_vars => StreamInv'
<1> SUFFICES ASSUME StreamInv, [Next]_vars PROVE StreamInv'
  OBVIOUS
<1>1. ManagerInv'
  BY ManagerInvKept DEF StreamInv
<1>2. SUFFICES DeviceOK' /\ StreamerOK' /\ WritesOK' /\ ReadOK' /\ ReadsWhatWasWritten'
  BY <1>1 DEF StreamInv
<1>3. CASE UNCHANGED <<streamerName, streamer, device, position, written, lastRead>>
  BY <1>3, ReadsStay DEF StreamInv, DeviceOK, StreamerOK, WritesOK, ReadOK
<1>4. ASSUME NEW e \in Events, Idle, WriteEvent(e)
      PROVE  DeviceOK' /\ StreamerOK' /\ WritesOK' /\ ReadOK' /\ ReadsWhatWasWritten'
  BY <1>4, WriteKeepsInv DEF Idle
<1>5. CASE Idle /\ ReadEvent
  BY <1>5, ReadKeepsInv DEF Idle
<1>6. CASE Rewind
  BY <1>6 DEF Rewind, StreamInv, DeviceOK, StreamerOK, WritesOK, ReadOK, ReadsWhatWasWritten, Met
<1> QED BY <1>3, <1>4, <1>5, <1>6 DEF Next, Manage, vars

(***************************************************************************)
(* An event that was written completely is read as it was written, however *)
(* many writes failed before it, whatever was read in between and whatever *)
(* happened to the plugin manager: a name always stands for one kind of    *)
(* streamer, what is on the device is not changed, and no read can have    *)
(* started where a later write starts (EventStreamer.cc).                  *)
(***************************************************************************)
THEOREM EventsAreReadAsWritten == Spec => []ReadsWhatWasWritten
<1>1. Init => StreamInv
  <2> SUFFICES ASSUME Init PROVE StreamInv
    OBVIOUS
  <2>1. ManagerInv
    BY ManagerStarts DEF Init
  <2>2. DeviceOK
    <3>1. device = <<>> /\ position = 0 /\ <<>> \in Seq(Cells)
      BY EmptySeq DEF Init
    <3> QED BY <3>1 DEF DeviceOK
  <2>3. StreamerOK /\ WritesOK /\ ReadOK /\ ReadsWhatWasWritten
    BY DEF Init, StreamerOK, WritesOK, ReadOK, ReadsWhatWasWritten, Met
  <2> QED BY <2>1, <2>2, <2>3 DEF StreamInv
<1>2. StreamInv => ReadsWhatWasWritten
  BY DEF StreamInv
<1> QED BY <1>1, <1>2, StreamKeepsInv, PTL DEF Spec
-----------------------------------------------------------------------------
(***************************************************************************)
(* Ownership                                                               *)
(***************************************************************************)
SlotType == [ptr : Objects \union {Null}, owner : BOOLEAN]

\* What a slot of this content has to delete.
Owns(r) == IF r.owner THEN {r.ptr} \ {Null} ELSE {}

TypeOK ==
  /\ heap \subseteq Objects /\ raw \subseteq heap /\ leaked \subseteq heap
  /\ slots \in [Slots -> SlotType]

\* What is allocated has an owner, and no two.
OwnersOK ==
  /\ \A s \in Slots : Owned(s) \subseteq heap /\ Owned(s) \intersect (raw \union leaked) = {}
  /\ \A s, t \in Slots : s # t => Owned(s) \intersect Owned(t) = {}
  /\ \A o \in heap : o \in raw \union leaked \/ \E s \in Slots : o \in Owned(s)
  /\ raw \intersect leaked = {}

\* delete goes one level down: a buffer that an event owns has no buffer itself,
\* and no wrapper points at it to give it one; nor has what is not allocated.
BuffersOK ==
  /\ \A o \in Objects : \A b \in Owned(o) :
       Owned(b) = {} /\ \A w \in Wrappers : slots[w].ptr # b
  /\ \A o \in Objects \ heap : Owned(o) = {}

IInv == TypeOK /\ OwnersOK /\ BuffersOK
-----------------------------------------------------------------------------
LEMMA Constants ==
  /\ Null \notin Objects /\ IsFiniteSet(Objects)
  /\ \A o \in Objects : o \in Slots /\ o \notin Wrappers /\ o \notin Handles
                        /\ o \notin Elements \X Members
  /\ \A w \in Wrappers : w \in Slots /\ w \notin Handles /\ w \notin Elements \X Members
  /\ \A h \in Handles : h \in Slots
  /\ \A e \in Elements, p \in Members : <<e, p>> \in Slots /\ <<e, p>> \in Elements \X Members
BY OwnershipAssumption DEF OwnershipAssumption, Slots

\* What slots are made of.
LEMMA SlotFacts ==
  /\ \A p \in Objects \union {Null}, own \in BOOLEAN :
       Slot(p, own) \in SlotType /\ Slot(p, own).ptr = p /\ Slot(p, own).owner = own
  /\ \A o \in Objects : Owns(Slot(o, TRUE)) = {o}
  /\ \A p : Owns(Slot(p, FALSE)) = {}
  /\ Empty \in SlotType /\ Owns(Empty) = {} /\ Empty.ptr = Null
BY Constants DEF Slot, SlotType, Owns, Empty

LEMMA OwnedFacts ==
  ASSUME TypeOK
  PROVE  /\ \A s \in Slots : /\ slots[s] \in SlotType /\ Owned(s) = Owns(slots[s])
                             /\ Owned(s) \subseteq Objects
                             /\ \A o \in Owned(s) : Owned(s) = {o} /\ slots[s].ptr = o
         /\ \A s \in Slots : /\ Cleared(s) \in SlotType /\ Cleared(s).ptr = Null
                             /\ Owns(Cleared(s)) = {}
<1>1. \A s \in Slots : slots[s] \in SlotType
  BY DEF TypeOK
<1>2. \A s \in Slots : /\ Owned(s) = Owns(slots[s]) /\ Owned(s) \subseteq Objects
                       /\ \A o \in Owned(s) : Owned(s) = {o} /\ slots[s].ptr = o
  BY <1>1 DEF Owned, Owns, SlotType
<1>3. \A s \in Slots : Cleared(s) \in SlotType /\ Cleared(s).ptr = Null /\ Owns(Cleared(s)) = {}
  BY <1>1 DEF Cleared, SlotType, Owns
<1>4. QED
  BY <1>1, <1>2, <1>3

LEMMA OwnedAfter ==
  ASSUME TypeOK'
  PROVE  \A s \in Slots : Owned(s)' = Owns(slots'[s])
BY DEF Owned, Owns

\* Whatever is given to slots that are cleared first, of the objects of callers
\* and of new ones, keeps the invariant, provided that a buffer that is given to
\* an event has no buffer and is no event of a wrapper.
LEMMA AssignKeepsInv ==
  ASSUME IInv, NEW S \in SUBSET Slots, NEW new, DOMAIN new \subseteq S,
         \A s \in DOMAIN new : new[s] \in SlotType,
         NEW given \in SUBSET raw, NEW fresh \in SUBSET (Objects \ heap),
         \A s \in DOMAIN new : Owns(new[s]) \subseteq given \union fresh,
         \A o \in given \union fresh : \E s \in DOMAIN new : o \in Owns(new[s]),
         \A s, t \in DOMAIN new : s # t => Owns(new[s]) \intersect Owns(new[t]) = {},
         \A s \in DOMAIN new : s \in Wrappers => new[s].ptr \in raw \union fresh \union {Null},
         S \intersect Objects = {} \/ S \subseteq Buffered,
         \A s \in DOMAIN new : s \in Objects =>
           \A b \in Owns(new[s]) : Owned(b) = {} /\ \A w \in Wrappers : slots[w].ptr # b,
         Assign(S, new, given, fresh)
  PROVE  IInv'
<1> DEFINE freed == WithBuffers(UNION {Owned(s) : s \in S})
<1>1. /\ heap' = (heap \ freed) \union fresh /\ raw' = raw \ given /\ leaked' = leaked
      /\ slots' = [s \in Slots |-> IF s \in DOMAIN new THEN new[s]
                                   ELSE IF s \in S THEN Cleared(s)
                                   ELSE IF s \in freed THEN Empty ELSE slots[s]]
  BY DEF Assign
<1>2. /\ \A s \in S : Owned(s) \subseteq freed
      /\ \A s \in S : \A o \in Owned(s) : Owned(o) \subseteq freed
      /\ \A x \in freed : \/ \E s \in S : x \in Owned(s)
                          \/ \E s \in S : \E o \in Owned(s) : x \in Owned(o)
  BY DEF WithBuffers
<1> HIDE DEF freed
<1>3. /\ TypeOK /\ OwnersOK /\ BuffersOK
      /\ \A s \in Slots : Owned(s) \subseteq Objects
  BY OwnedFacts DEF IInv
<1>4. freed \subseteq heap /\ freed \intersect (raw \union leaked) = {} /\ heap \subseteq Objects
      /\ raw \subseteq heap /\ leaked \subseteq heap
  BY <1>2, <1>3, Constants DEF OwnersOK, TypeOK
<1>5. \A s \in S : s \in Objects => s \in heap /\ \E w \in Wrappers : slots[w].ptr = s
  BY DEF Buffered
\* An event whose buffer changes is not deleted.
<1>6. \A s \in S : s \notin freed
  <2>1. SUFFICES ASSUME NEW x \in S, x \in freed
                 PROVE  FALSE
    OBVIOUS
  <2>2. x \in Objects /\ S \subseteq Objects
    BY <1>4, <2>1 DEF Buffered
  <2>3. PICK w \in Wrappers : slots[w].ptr = x
    BY <1>5, <2>1, <2>2
  <2>4. \A o \in Objects : x \notin Owned(o)
    BY <1>3, <2>3 DEF BuffersOK
  <2>5. QED
    BY <1>2, <1>3, <2>1, <2>2, <2>4
<1>7. /\ slots' \in [Slots -> SlotType]
      /\ \A s \in Slots : slots'[s] = IF s \in DOMAIN new THEN new[s]
                                      ELSE IF s \in S THEN Cleared(s)
                                      ELSE IF s \in freed THEN Empty ELSE slots[s]
  <2> DEFINE g(s) == IF s \in DOMAIN new THEN new[s]
                     ELSE IF s \in S THEN Cleared(s)
                     ELSE IF s \in freed THEN Empty ELSE slots[s]
  <2>1. \A s \in Slots : g(s) \in SlotType
    BY <1>3, OwnedFacts, SlotFacts
  <2> HIDE DEF g
  <2>2. slots' = [s \in Slots |-> g(s)]
    BY <1>1 DEF g
  <2>3. slots' \in [Slots -> SlotType] /\ \A s \in Slots : slots'[s] = g(s)
    BY <2>1, <2>2
  <2>4. QED
    BY <2>3 DEF g
<1>8. TypeOK'
  <2>1. raw' \subseteq heap' /\ leaked' \subseteq heap' /\ heap' \subseteq Objects
    BY <1>1, <1>4
  <2>2. QED
    BY <1>7, <2>1 DEF TypeOK
\* What each slot owns afterwards.
<1>9. /\ \A s \in DOMAIN new : Owned(s)' = Owns(new[s])
      /\ \A s \in Slots : s \notin DOMAIN new /\ s \in S \union freed => Owned(s)' = {}
      /\ \A s \in Slots : s \notin S \union freed => Owned(s)' = Owned(s)
  BY <1>3, <1>7, <1>8, OwnedAfter, OwnedFacts, SlotFacts
<1>10. ASSUME NEW s \in Slots, s \notin S \union freed, NEW x \in Owned(s)
       PROVE  x \in heap \ freed /\ x \notin raw \union leaked \union fresh
  <2>1. x \in heap /\ x \notin raw \union leaked \union fresh
    BY <1>3, <1>10 DEF OwnersOK
  <2>2. ASSUME x \in freed
        PROVE  FALSE
    <3>1. \A t \in Slots : x \in Owned(t) => t = s
      BY <1>3, <1>10 DEF OwnersOK
    <3>2. \A t \in S : x \notin Owned(t)
      BY <1>10, <3>1
    <3>3. PICK t \in S : \E o \in Owned(t) : x \in Owned(o)
      BY <1>2, <2>2, <3>2
    <3>4. PICK o \in Owned(t) : x \in Owned(o)
      BY <3>3
    <3>5. o \in Slots /\ o \in freed
      BY <1>2, <1>3, Constants
    <3>6. QED
      BY <1>10, <3>1, <3>4, <3>5
  <2>3. QED
    BY <2>1, <2>2
<1>11. ASSUME NEW s \in DOMAIN new, NEW x \in Owns(new[s])
       PROVE  x \in heap' /\ x \notin raw' \union leaked' /\ x \in raw \union fresh
  <2>1. x \in given \union fresh /\ raw \intersect leaked = {}
    BY <1>3, <1>11 DEF OwnersOK
  <2>2. QED
    BY <1>1, <1>4, <2>1
<1>12. OwnersOK'
  <2>1. \A s \in Slots : Owned(s)' \subseteq heap' /\ Owned(s)' \intersect (raw' \union leaked') = {}
    <3>1. SUFFICES ASSUME NEW s \in Slots, NEW x \in Owned(s)'
                   PROVE  x \in heap' /\ x \notin raw' \union leaked'
      OBVIOUS
    <3>2. CASE s \in DOMAIN new
      BY <1>9, <1>11, <3>1, <3>2
    <3>3. CASE s \notin DOMAIN new
      BY <1>1, <1>9, <1>10, <3>1, <3>3
    <3>4. QED
      BY <3>2, <3>3
  <2>2. ASSUME NEW s \in Slots, NEW t \in Slots, s # t, NEW x \in Owned(s)', x \in Owned(t)'
        PROVE  FALSE
    <3>1. CASE s \in DOMAIN new /\ t \in DOMAIN new
      BY <1>9, <2>2, <3>1
    <3>2. CASE s \in DOMAIN new /\ t \notin DOMAIN new
      BY <1>9, <1>10, <1>11, <2>2, <3>2
    <3>3. CASE s \notin DOMAIN new /\ t \in DOMAIN new
      BY <1>9, <1>10, <1>11, <2>2, <3>3
    <3>4. CASE s \notin DOMAIN new /\ t \notin DOMAIN new
      BY <1>3, <1>9, <2>2, <3>4 DEF OwnersOK
    <3>5. QED
      BY <3>1, <3>2, <3>3, <3>4
  <2>3. ASSUME NEW o \in heap'
        PROVE  o \in raw' \union leaked' \/ \E s \in Slots : o \in Owned(s)'
    <3>1. CASE o \in given \union fresh
      BY <1>9, <3>1
    <3>2. CASE o \notin given \union fresh
      <4>1. o \in heap /\ o \notin freed
        BY <1>1, <2>3, <3>2
      <4>2. CASE o \in raw \union leaked
        BY <1>1, <3>2, <4>2
      <4>3. CASE o \notin raw \union leaked
        <5>1. PICK s \in Slots : o \in Owned(s)
          BY <1>3, <4>1, <4>3 DEF OwnersOK
        <5>2. s \notin S
          BY <1>2, <4>1, <5>1
        <5>3. s \notin freed
          <6>1. SUFFICES ASSUME s \in freed
                         PROVE  FALSE
            OBVIOUS
          <6>2. s \in Objects
            BY <1>4, <6>1
          <6>3. CASE \E t \in S : s \in Owned(t)
            BY <1>2, <4>1, <5>1, <6>3
          <6>4. CASE \E t \in S : \E p \in Owned(t) : s \in Owned(p)
            BY <1>3, <5>1, <6>4 DEF BuffersOK
          <6>5. QED
            BY <1>2, <6>1, <6>3, <6>4
        <5>4. QED
          BY <1>9, <5>1, <5>2, <5>3
      <4>4. QED
        BY <4>2, <4>3
    <3>3. QED
      BY <3>1, <3>2
  <2>4. raw' \intersect leaked' = {}
    BY <1>1, <1>3 DEF OwnersOK
  <2>5. QED
    BY <2>1, <2>2, <2>3, <2>4 DEF OwnersOK
<1>13. BuffersOK'
  \* No slot of an event that has a new buffer is a wrapper.
  <2>1. ASSUME NEW o \in Objects, NEW b \in Owned(o)'
        PROVE  Owned(b)' = {} /\ \A w \in Wrappers : slots'[w].ptr # b
    <3>1. o \in Slots /\ o \notin Wrappers /\ b \in heap' /\ b \in Objects /\ b \in Slots
      BY <1>8, <1>12, <2>1, Constants DEF OwnersOK, TypeOK
    <3>2. b # Null /\ b \notin Wrappers
      BY <3>1, Constants
    <3>3. CASE o \in DOMAIN new
      <4>1. b \in Owns(new[o]) /\ S \subseteq Objects
        BY <1>4, <1>9, <2>1, <3>3 DEF Buffered
      <4>2. Owned(b) = {} /\ \A w \in Wrappers : slots[w].ptr # b
        BY <3>3, <4>1
      <4>3. b \notin S
        BY <1>5, <3>1, <4>2
      <4>4. Owned(b)' = {}
        BY <1>9, <3>1, <4>2, <4>3
      <4>5. \A w \in Wrappers : w \in Slots /\ w \notin S /\ w \notin freed
        BY <1>4, <4>1, Constants
      <4>6. QED
        BY <1>7, <4>2, <4>4, <4>5
    <3>4. CASE o \notin DOMAIN new
      <4>1. o \notin S \union freed /\ b \in Owned(o)
        BY <1>9, <2>1, <3>1, <3>4
      <4>2. Owned(b) = {} /\ \A w \in Wrappers : slots[w].ptr # b
        BY <1>3, <4>1 DEF BuffersOK
      <4>3. b \notin S
        BY <1>5, <3>1, <4>2
      <4>4. Owned(b)' = {}
        BY <1>9, <3>1, <4>2, <4>3
      <4>5. b \notin raw \union fresh \union {Null}
        BY <1>10, <3>1, <3>2, <4>1
      <4>6. ASSUME NEW w \in Wrappers
            PROVE  slots'[w].ptr # b
        <5>1. w \in Slots /\ w \notin freed
          BY <1>4, Constants
        <5>2. CASE w \in DOMAIN new
          BY <1>7, <4>5, <5>1, <5>2
        <5>3. CASE w \in S \ DOMAIN new
          BY <1>3, <1>7, <3>2, <5>1, <5>3, OwnedFacts
        <5>4. CASE w \notin S
          BY <1>7, <4>2, <5>1, <5>4
        <5>5. QED
          BY <5>2, <5>3, <5>4
      <4>7. QED
        BY <4>4, <4>6
    <3>5. QED
      BY <3>3, <3>4
  <2>2. ASSUME NEW o \in Objects \ heap'
        PROVE  Owned(o)' = {}
    <3>1. o \in Slots /\ (o \notin heap \/ o \in freed)
      BY <1>1, <2>2, Constants
    <3>2. o \notin S
      BY <1>5, <1>6, <3>1
    <3>3. Owned(o) = {} \/ o \in freed
      BY <1>3, <3>1 DEF BuffersOK
    <3>4. QED
      BY <1>9, <3>1, <3>2, <3>3
  <2>3. QED
    BY <2>1, <2>2 DEF BuffersOK
<1>14. QED
  BY <1>8, <1>12, <1>13 DEF IInv
-----------------------------------------------------------------------------
(* The forms in which the operations use it.                               *)

\* One slot is set.
LEMMA SetKeepsInv ==
  ASSUME IInv, NEW s \in Slots, NEW r \in SlotType,
         NEW given \in SUBSET raw, NEW fresh \in SUBSET (Objects \ heap),
         Owns(r) = given \union fresh,
         s \in Wrappers => r.ptr \in raw \union fresh \union {Null},
         s \in Objects => /\ s \in Buffered
                          /\ \A b \in Owns(r) : Owned(b) = {} /\ \A w \in Wrappers : slots[w].ptr # b,
         Assign({s}, [x \in {s} |-> r], given, fresh)
  PROVE  IInv'
<1> DEFINE new == [x \in {s} |-> r]
<1>1. DOMAIN new = {s} /\ new[s] = r
  OBVIOUS
<1>2. Assign({s}, new, given, fresh)
  OBVIOUS
<1> HIDE DEF new
<1>3. {s} \in SUBSET Slots /\ ({s} \intersect Objects = {} \/ {s} \subseteq Buffered)
  OBVIOUS
<1>4. /\ \A x \in DOMAIN new : new[x] \in SlotType
      /\ \A x \in DOMAIN new : Owns(new[x]) \subseteq given \union fresh
      /\ \A o \in given \union fresh : \E x \in DOMAIN new : o \in Owns(new[x])
      /\ \A x, t \in DOMAIN new : x # t => Owns(new[x]) \intersect Owns(new[t]) = {}
      /\ \A x \in DOMAIN new : x \in Wrappers => new[x].ptr \in raw \union fresh \union {Null}
      /\ \A x \in DOMAIN new : x \in Objects =>
           \A b \in Owns(new[x]) : Owned(b) = {} /\ \A w \in Wrappers : slots[w].ptr # b
      /\ DOMAIN new \subseteq {s}
  BY <1>1
<1>5. QED
  BY <1>2, <1>3, <1>4, AssignKeepsInv

\* Slots are cleared.
LEMMA ClearKeepsInv ==
  ASSUME IInv, NEW S \in SUBSET Slots, S \intersect Objects = {} \/ S \subseteq Buffered,
         Assign(S, [s \in {} |-> Empty], {}, {})
  PROVE  IInv'
<1> DEFINE new == [s \in {} |-> Empty]
<1>1. DOMAIN new = {} /\ Assign(S, new, {}, {})
  OBVIOUS
<1> HIDE DEF new
<1>2. {} \in SUBSET raw /\ {} \in SUBSET (Objects \ heap) /\ DOMAIN new \subseteq S
  BY <1>1
<1>3. /\ \A x \in DOMAIN new : new[x] \in SlotType
      /\ \A x \in DOMAIN new : Owns(new[x]) \subseteq {} \union {}
      /\ \A o \in {} \union {} : \E x \in DOMAIN new : o \in Owns(new[x])
      /\ \A x, t \in DOMAIN new : x # t => Owns(new[x]) \intersect Owns(new[t]) = {}
      /\ \A x \in DOMAIN new : x \in Wrappers => new[x].ptr \in raw \union {} \union {Null}
      /\ \A x \in DOMAIN new : x \in Objects =>
           \A b \in Owns(new[x]) : Owned(b) = {} /\ \A w \in Wrappers : slots[w].ptr # b
  BY <1>1
<1>4. QED
  BY <1>1, <1>2, <1>3, AssignKeepsInv

LEMMA GiftFacts ==
  ASSUME IInv, NEW g \in Gifts
  PROVE  /\ g[1] \in SlotType /\ g[2] \in SUBSET raw /\ Owns(g[1]) = g[2]
         /\ g[1].ptr \in raw \union {Null}
<1>1. raw \subseteq Objects
  BY DEF IInv, TypeOK
<1>2. CASE \E o \in raw : g = <<Slot(o, TRUE), {o}>>
  <2>1. PICK o \in raw : g = <<Slot(o, TRUE), {o}>>
    BY <1>2
  <2>2. g[1] = Slot(o, TRUE) /\ g[2] = {o} /\ o \in Objects
    BY <1>1, <2>1
  <2>3. QED
    BY <2>2, SlotFacts, ZenonT(40)
<1>3. CASE \E o \in raw : g = <<Slot(o, FALSE), {}>>
  <2>1. PICK o \in raw : g = <<Slot(o, FALSE), {}>>
    BY <1>3
  <2>2. g[1] = Slot(o, FALSE) /\ g[2] = {} /\ o \in Objects
    BY <1>1, <2>1
  <2>3. QED
    BY <2>2, SlotFacts
<1>4. CASE g = <<Empty, {}>>
  BY <1>4, SlotFacts
<1>5. QED
  BY <1>2, <1>3, <1>4 DEF Gifts

LEMMA ElementGiftFacts ==
  ASSUME IInv, NEW g \in ForElement
  PROVE  g[1] \in SlotType /\ g[2] \in SUBSET raw /\ Owns(g[1]) = g[2]
<1>1. CASE g \in ByPointer
  BY <1>1, GiftFacts DEF ByPointer
<1>2. CASE g \in ByHandle
  <2>1. PICK h \in Handles : g = <<Slot(slots[h].ptr, FALSE), {}>>
    BY <1>2 DEF ByHandle
  <2>2. slots[h].ptr \in Objects \union {Null}
    BY Constants, OwnedFacts DEF IInv, SlotType
  <2>3. QED
    BY <2>1, <2>2, SlotFacts
<1>3. QED
  BY <1>1, <1>2 DEF ForElement

\* An object with an address that no slot still has.
LEMMA FreshOne ==
  ASSUME NEW S \in Fresh(1)
  PROVE  /\ S \in SUBSET (Objects \ heap)
         /\ \E o : S = {o}
         /\ \A o \in S : \A s \in Slots : slots[s].ptr # o
<1>1. Cardinality(S) = 1 /\ S \subseteq Objects \ (heap \union {slots[s].ptr : s \in Slots})
  BY DEF Fresh
<1>2. IsFiniteSet(S)
  BY <1>1, Constants, FS_Subset
<1>3. \E o : S = {o}
  BY <1>1, <1>2, FS_Singleton
<1>4. QED
  BY <1>1, <1>3
-----------------------------------------------------------------------------
(* Callers.                                                                *)

LEMMA NewKeepsInv ==
  ASSUME IInv, New
  PROVE  IInv'
<1>1. PICK S \in Fresh(1) : /\ heap' = heap \union S /\ raw' = raw \union S
                            /\ UNCHANGED <<leaked, slots>>
  BY DEF New
<1>2. S \subseteq Objects \ heap
  BY FreshOne
<1>3. TypeOK'
  BY <1>1, <1>2 DEF IInv, TypeOK
<1>4. \A s \in Slots : Owned(s)' = Owned(s)
  BY <1>1 DEF Owned
<1>5. OwnersOK'
  BY <1>1, <1>2, <1>4 DEF IInv, OwnersOK, TypeOK
<1>6. BuffersOK'
  <2>1. \A o \in Objects : o \in Slots /\ Owned(o) \subseteq Slots
    BY Constants, OwnedFacts DEF IInv
  <2>2. \A o \in Objects : \A b \in Owned(o)' : Owned(b)' = {} /\ \A w \in Wrappers : slots'[w].ptr # b
    BY <1>1, <1>4, <2>1 DEF IInv, BuffersOK
  <2>3. \A o \in Objects \ heap' : Owned(o)' = {}
    BY <1>1, <1>4, <2>1 DEF IInv, BuffersOK
  <2>4. QED
    BY <2>2, <2>3 DEF BuffersOK
<1>7. QED
  BY <1>3, <1>5, <1>6 DEF IInv

\* An object that a caller deletes takes its buffer with it.
LEMMA DeleteKeepsInv ==
  ASSUME IInv, NEW o \in raw, Delete(o)
  PROVE  IInv'
<1>1. /\ TypeOK /\ OwnersOK /\ BuffersOK /\ o \in Slots /\ o \in heap /\ o \in Objects
      /\ o \notin Wrappers
  BY Constants DEF IInv, TypeOK
<1>2. /\ heap' = heap \ ({o} \union Owned(o)) /\ raw' = raw \ {o} /\ leaked' = leaked
      /\ slots' = [slots EXCEPT ![o] = Empty]
  BY DEF Delete, WithBuffers
<1>3. \A s \in Slots : slots'[s] = IF s = o THEN Empty ELSE slots[s]
  BY <1>1, <1>2 DEF TypeOK
<1>4. \A s \in Slots : Owned(s) \subseteq heap /\ Owned(s) \intersect (raw \union leaked) = {}
  BY <1>1 DEF OwnersOK
<1>5. TypeOK'
  <2>1. raw' \subseteq heap' /\ leaked' \subseteq heap' /\ heap' \subseteq Objects
    BY <1>1, <1>2, <1>4 DEF TypeOK, OwnersOK
  <2>2. slots' \in [Slots -> SlotType]
    BY <1>1, <1>2, SlotFacts DEF TypeOK
  <2>3. QED
    BY <2>1, <2>2 DEF TypeOK
<1>6. \A s \in Slots : Owned(s)' = IF s = o THEN {} ELSE Owned(s)
  BY <1>1, <1>3, <1>5, OwnedAfter, OwnedFacts, SlotFacts
<1>7. OwnersOK'
  <2>1. \A s \in Slots : Owned(s)' \subseteq heap' /\ Owned(s)' \intersect (raw' \union leaked') = {}
    BY <1>1, <1>2, <1>4, <1>6 DEF OwnersOK
  <2>2. \A s, t \in Slots : s # t => Owned(s)' \intersect Owned(t)' = {}
    BY <1>1, <1>6 DEF OwnersOK
  <2>3. \A x \in heap' : x \in raw' \union leaked' \/ \E s \in Slots : x \in Owned(s)'
    BY <1>1, <1>2, <1>6 DEF OwnersOK
  <2>4. QED
    BY <1>1, <1>2, <2>1, <2>2, <2>3 DEF OwnersOK
<1>8. BuffersOK'
  <2>1. ASSUME NEW p \in Objects, NEW b \in Owned(p)'
        PROVE  Owned(b)' = {} /\ \A w \in Wrappers : slots'[w].ptr # b
    <3>1. p \in Slots /\ b \in Owned(p) /\ b \in Slots
      BY <1>1, <1>4, <1>6, <2>1, Constants DEF TypeOK
    <3>2. Owned(b) = {} /\ \A w \in Wrappers : slots[w].ptr # b
      BY <1>1, <3>1 DEF BuffersOK
    <3>3. QED
      BY <1>1, <1>3, <1>6, <3>1, <3>2, Constants
  <2>2. ASSUME NEW x \in Objects \ heap'
        PROVE  Owned(x)' = {}
    <3>1. x \in Slots /\ (x \notin heap \/ x = o \/ x \in Owned(o))
      BY <1>2, <2>2, Constants
    <3>2. QED
      BY <1>1, <1>6, <3>1 DEF BuffersOK
  <2>3. QED
    BY <2>1, <2>2 DEF BuffersOK
<1>9. QED
  BY <1>5, <1>7, <1>8 DEF IInv

\* PtrHandler::take() gives the object back to the caller.
LEMMA TakeKeepsInv ==
  ASSUME IInv, NEW h \in Handles, Take(h)
  PROVE  IInv'
<1>1. TypeOK /\ OwnersOK /\ BuffersOK /\ h \in Slots /\ h \notin Wrappers /\ h \notin Objects
  BY Constants DEF IInv
<1>2. /\ slots' = [slots EXCEPT ![h] = Cleared(h)] /\ raw' = raw \union Owned(h)
      /\ heap' = heap /\ leaked' = leaked
  BY DEF Take
<1>3. \A s \in Slots : slots'[s] = IF s = h THEN Cleared(h) ELSE slots[s]
  BY <1>1, <1>2 DEF TypeOK
<1>4. TypeOK'
  <2>1. slots' \in [Slots -> SlotType]
    BY <1>1, <1>2, OwnedFacts DEF TypeOK
  <2>2. QED
    BY <1>1, <1>2, <2>1 DEF TypeOK, OwnersOK
<1>5. \A s \in Slots : Owned(s)' = IF s = h THEN {} ELSE Owned(s)
  BY <1>1, <1>3, <1>4, OwnedAfter, OwnedFacts
<1>6. OwnersOK'
  <2>1. \A s \in Slots : Owned(s)' \subseteq heap' /\ Owned(s)' \intersect (raw' \union leaked') = {}
    BY <1>1, <1>2, <1>5 DEF OwnersOK
  <2>2. \A s, t \in Slots : s # t => Owned(s)' \intersect Owned(t)' = {}
    BY <1>1, <1>5 DEF OwnersOK
  <2>3. \A x \in heap' : x \in raw' \union leaked' \/ \E s \in Slots : x \in Owned(s)'
    BY <1>1, <1>2, <1>5 DEF OwnersOK
  <2>4. QED
    BY <1>1, <1>2, <2>1, <2>2, <2>3 DEF OwnersOK
<1>7. BuffersOK'
  BY <1>1, <1>2, <1>3, <1>5, OwnedFacts, Constants DEF BuffersOK
<1>8. QED
  BY <1>4, <1>6, <1>7 DEF IInv
-----------------------------------------------------------------------------
(* MonitorElement.                                                         *)

LEMMA SetPartKeepsInv ==
  ASSUME IInv, NEW e \in Elements, NEW part \in Members, SetPart(e, part)
  PROVE  IInv'
<1>1. PICK g \in ForElement :
        Assign({<<e, part>>}, [s \in {<<e, part>>} |-> g[1]], g[2], {})
  BY DEF SetPart
<1>2. g[1] \in SlotType /\ g[2] \in SUBSET raw /\ Owns(g[1]) = g[2] \union {}
  BY ElementGiftFacts
<1>3. <<e, part>> \in Slots /\ <<e, part>> \notin Objects /\ <<e, part>> \notin Wrappers
  BY Constants
<1>4. {} \in SUBSET (Objects \ heap)
  OBVIOUS
<1>5. QED
  BY <1>1, <1>2, <1>3, <1>4, SetKeepsInv

LEMMA SetBothKeepsInv ==
  ASSUME IInv, NEW e \in Elements, SetBoth(e)
  PROVE  IInv'
<1> DEFINE S == {e} \X Members
<1>1. PICK g \in ForElement, k \in ForElement :
        /\ g[2] \intersect k[2] = {}
        /\ Assign(S, [s \in S |-> IF s[2] = "object" THEN g[1] ELSE k[1]], g[2] \union k[2], {})
  <2> HIDE DEF S
  <2>1. PICK how \in {ByPointer, ByHandle} : \E g, k \in how :
          /\ g[2] \intersect k[2] = {}
          /\ Assign(S, [s \in S |-> IF s[2] = "object" THEN g[1] ELSE k[1]], g[2] \union k[2], {})
    BY DEF SetBoth, S
  <2>2. how \subseteq ForElement
    BY DEF ForElement
  <2>3. QED
    BY <2>1, <2>2
<1> DEFINE new == [s \in S |-> IF s[2] = "object" THEN g[1] ELSE k[1]]
<1>2. /\ g[1] \in SlotType /\ g[2] \in SUBSET raw /\ Owns(g[1]) = g[2]
      /\ k[1] \in SlotType /\ k[2] \in SUBSET raw /\ Owns(k[1]) = k[2]
  BY ElementGiftFacts
<1>3. S = {<<e, "object">>, <<e, "reference">>} /\ <<e, "object">> # <<e, "reference">>
  BY DEF Members
<1>4. S \in SUBSET Slots /\ S \intersect Objects = {} /\ S \intersect Wrappers = {}
  BY <1>3, Constants DEF Members
<1>5. DOMAIN new = S /\ new[<<e, "object">>] = g[1] /\ new[<<e, "reference">>] = k[1]
  BY <1>3
<1>6. Assign(S, new, g[2] \union k[2], {})
  BY <1>1
<1> HIDE DEF new, S
<1>7. /\ \A x \in DOMAIN new : new[x] \in SlotType
      /\ \A x \in DOMAIN new : Owns(new[x]) \subseteq (g[2] \union k[2]) \union {}
      /\ \A o \in (g[2] \union k[2]) \union {} : \E x \in DOMAIN new : o \in Owns(new[x])
      /\ \A x, t \in DOMAIN new : x # t => Owns(new[x]) \intersect Owns(new[t]) = {}
  BY <1>1, <1>2, <1>3, <1>5
<1>8. /\ \A x \in DOMAIN new : x \in Wrappers => new[x].ptr \in raw \union {} \union {Null}
      /\ \A x \in DOMAIN new : x \in Objects =>
           \A b \in Owns(new[x]) : Owned(b) = {} /\ \A w \in Wrappers : slots[w].ptr # b
      /\ DOMAIN new \subseteq S
      /\ {} \in SUBSET (Objects \ heap) /\ g[2] \union k[2] \in SUBSET raw
  BY <1>2, <1>4, <1>5
<1>9. QED
  BY <1>4, <1>6, <1>7, <1>8, AssignKeepsInv

LEMMA ResetKeepsInv ==
  ASSUME IInv, NEW e \in Elements, Reset(e)
  PROVE  IInv'
<1>1. {e} \X Members \in SUBSET Slots /\ ({e} \X Members) \intersect Objects = {}
  BY Constants DEF Slots
<1>2. QED
  BY <1>1, ClearKeepsInv DEF Reset

\* As many new objects as parts: each part has one of its own.
LEMMA OneEach ==
  ASSUME NEW parts \in SUBSET Members, NEW S \in Fresh(Cardinality(parts)),
         NEW f \in [parts -> Objects], {f[p] : p \in parts} = S
  PROVE  /\ S \in SUBSET (Objects \ heap)
         /\ \A p, q \in parts : p # q => f[p] # f[q]
<1>1. S \in SUBSET (Objects \ heap) /\ Cardinality(S) = Cardinality(parts)
  BY DEF Fresh
<1>2. IsFiniteSet(Members)
  <2>1. IsFiniteSet({"object"}) /\ IsFiniteSet({"reference"})
    BY FS_Singleton
  <2>2. IsFiniteSet({"object"} \union {"reference"})
    BY <2>1, FS_Union
  <2>3. Members = {"object"} \union {"reference"}
    BY DEF Members
  <2>4. QED
    BY <2>2, <2>3
<1>3. IsFiniteSet(parts)
  BY <1>2, FS_Subset
<1>4. f \in Surjection(parts, S)
  BY DEF Surjection
<1>5. f \in Injection(parts, S)
  BY <1>1, <1>3, <1>4, FS_Surjection
<1>6. QED
  BY <1>1, <1>5 DEF Injection, IsInjective

LEMMA ReadElementKeepsInv ==
  ASSUME IInv, NEW e \in Elements, ReadElement(e)
  PROVE  IInv'
<1>1. PICK parts \in SUBSET Members :
        \E S \in Fresh(Cardinality(parts)), f \in [parts -> Objects] :
          /\ {f[p] : p \in parts} = S
          /\ Assign({e} \X Members, [s \in {e} \X parts |-> Slot(f[s[2]], TRUE)], {}, S)
  BY DEF ReadElement
<1>2. PICK S \in Fresh(Cardinality(parts)), f \in [parts -> Objects] :
        /\ {f[p] : p \in parts} = S
        /\ Assign({e} \X Members, [s \in {e} \X parts |-> Slot(f[s[2]], TRUE)], {}, S)
  BY <1>1
<1> DEFINE new == [s \in {e} \X parts |-> Slot(f[s[2]], TRUE)]
           T == {e} \X Members
<1>3. S \in SUBSET (Objects \ heap) /\ \A p, q \in parts : p # q => f[p] # f[q]
  BY <1>2, OneEach
<1>4. T \in SUBSET Slots /\ T \intersect Objects = {} /\ T \intersect Wrappers = {}
  BY Constants DEF Slots
<1>5. DOMAIN new = {e} \X parts /\ \A p \in parts : new[<<e, p>>] = Slot(f[p], TRUE)
  OBVIOUS
<1>6. \A x \in {e} \X parts : x[2] \in parts /\ x = <<e, x[2]>> /\ x \in T
  OBVIOUS
<1>7. Assign(T, new, {}, S)
  BY <1>2
<1> HIDE DEF new, T
<1>8. \A p \in parts : /\ new[<<e, p>>] \in SlotType /\ Owns(new[<<e, p>>]) = {f[p]}
                       /\ f[p] \in S /\ <<e, p>> \in DOMAIN new
  <2>1. ASSUME NEW p \in parts
        PROVE  /\ new[<<e, p>>] = Slot(f[p], TRUE) /\ f[p] \in Objects
               /\ f[p] \in S /\ <<e, p>> \in DOMAIN new
    BY <1>2, <1>5
  <2>2. QED
    BY <2>1, SlotFacts, ZenonT(40)
<1>9. /\ \A x \in DOMAIN new : new[x] \in SlotType
      /\ \A x \in DOMAIN new : Owns(new[x]) \subseteq {} \union S
      /\ DOMAIN new \subseteq T
  BY <1>5, <1>6, <1>8
<1>10. \A o \in {} \union S : \E x \in DOMAIN new : o \in Owns(new[x])
  <2>1. ASSUME NEW o \in S
        PROVE  \E x \in DOMAIN new : o \in Owns(new[x])
    <3>1. PICK p \in parts : o = f[p]
      BY <1>2
    <3>2. QED
      BY <1>8, <3>1
  <2>2. QED
    BY <2>1
<1>11. ASSUME NEW x \in DOMAIN new, NEW t \in DOMAIN new, x # t
       PROVE  Owns(new[x]) \intersect Owns(new[t]) = {}
  <2>1. PICK p \in parts, q \in parts : x = <<e, p>> /\ t = <<e, q>>
    BY <1>5, <1>6
  <2>2. QED
    BY <1>3, <1>8, <1>11, <2>1
<1>12. /\ \A x \in DOMAIN new : x \in Wrappers => new[x].ptr \in raw \union S \union {Null}
       /\ \A x \in DOMAIN new : x \in Objects =>
            \A b \in Owns(new[x]) : Owned(b) = {} /\ \A w \in Wrappers : slots[w].ptr # b
       /\ {} \in SUBSET raw
  BY <1>4, <1>9
<1>13. QED
  BY <1>3, <1>4, <1>7, <1>9, <1>10, <1>11, <1>12, AssignKeepsInv

\* What a destroyed element owned is leaked, and stays as it is.
LEMMA DestroyElementKeepsInv ==
  ASSUME IInv, NEW e \in Elements, DestroyElement(e)
  PROVE  IInv'
<1> DEFINE S == {e} \X Members
           lost == UNION {Owned(<<e, p>>) : p \in Members}
<1>1. /\ leaked' = leaked \union lost /\ heap' = heap /\ raw' = raw
      /\ slots' = [s \in Slots |-> IF s \in S THEN Empty ELSE slots[s]]
  BY DEF DestroyElement
<1>2. S \subseteq Slots /\ S \intersect Objects = {} /\ S \intersect Wrappers = {}
  BY Constants DEF Slots
<1>3. \A x : x \in lost <=> \E s \in S : x \in Owned(s)
  <2>1. \A p \in Members : <<e, p>> \in S
    OBVIOUS
  <2>2. \A s \in S : s[2] \in Members /\ s = <<e, s[2]>>
    OBVIOUS
  <2> HIDE DEF S
  <2>3. QED
    BY <2>1, <2>2
<1> HIDE DEF S, lost
<1>4. TypeOK /\ OwnersOK /\ BuffersOK
  BY DEF IInv
<1>5. slots' \in [Slots -> SlotType] /\ \A s \in Slots : slots'[s] = IF s \in S THEN Empty ELSE slots[s]
  BY <1>1, <1>4, SlotFacts DEF TypeOK
<1>6. lost \subseteq heap /\ lost \intersect raw = {}
  BY <1>2, <1>3, <1>4 DEF OwnersOK
<1>7. TypeOK'
  BY <1>1, <1>4, <1>5, <1>6 DEF TypeOK
<1>8. \A s \in Slots : Owned(s)' = IF s \in S THEN {} ELSE Owned(s)
  BY <1>4, <1>5, <1>7, OwnedAfter, OwnedFacts, SlotFacts
<1>9. OwnersOK'
  <2>1. ASSUME NEW s \in Slots, NEW x \in Owned(s)'
        PROVE  x \in heap' /\ x \notin raw' \union leaked'
    <3>1. s \notin S /\ x \in Owned(s)
      BY <1>8, <2>1
    <3>2. x \notin lost
      BY <1>2, <1>3, <1>4, <3>1 DEF OwnersOK
    <3>3. QED
      BY <1>1, <1>4, <3>1, <3>2 DEF OwnersOK
  <2>2. \A s, t \in Slots : s # t => Owned(s)' \intersect Owned(t)' = {}
    BY <1>4, <1>8 DEF OwnersOK
  <2>3. ASSUME NEW x \in heap'
        PROVE  x \in raw' \union leaked' \/ \E s \in Slots : x \in Owned(s)'
    BY <1>1, <1>3, <1>4, <1>8, <2>3 DEF OwnersOK
  <2>4. raw' \intersect leaked' = {}
    BY <1>1, <1>4, <1>6 DEF OwnersOK
  <2>5. QED
    BY <2>1, <2>2, <2>3, <2>4 DEF OwnersOK
<1>10. BuffersOK'
  <2>1. \A o \in Objects : o \in Slots /\ o \notin S /\ Owned(o) \subseteq Objects
    BY <1>2, <1>4, Constants, OwnedFacts
  <2>2. \A w \in Wrappers : w \in Slots /\ w \notin S
    BY <1>2, Constants
  <2>3. QED
    BY <1>1, <1>4, <1>5, <1>8, <2>1, <2>2 DEF BuffersOK
<1>11. QED
  BY <1>7, <1>9, <1>10 DEF IInv
-----------------------------------------------------------------------------
(* Handles and events.                                                     *)

\* A plain pointer is given to a handle or to a wrapper.
LEMMA SetGiftKeepsInv ==
  ASSUME IInv, NEW s \in Handles \union Wrappers,
         \E g \in Gifts : Assign({s}, [x \in {s} |-> g[1]], g[2], {})
  PROVE  IInv'
<1>1. PICK g \in Gifts : Assign({s}, [x \in {s} |-> g[1]], g[2], {})
  OBVIOUS
<1>2. /\ g[1] \in SlotType /\ g[2] \in SUBSET raw /\ Owns(g[1]) = g[2] \union {}
      /\ g[1].ptr \in raw \union {} \union {Null}
  BY GiftFacts
<1>3. s \in Slots /\ s \notin Objects /\ {} \in SUBSET (Objects \ heap)
  BY Constants
<1>4. QED
  BY <1>1, <1>2, <1>3, SetKeepsInv

LEMMA ClearOneKeepsInv ==
  ASSUME IInv, NEW s \in Handles \union Wrappers \union Buffered,
         Assign({s}, [x \in {} |-> Empty], {}, {})
  PROVE  IInv'
<1>1. s \in Slots /\ (s \notin Objects \/ s \in Buffered)
  BY Constants DEF Buffered, IInv, TypeOK
<1>2. {s} \in SUBSET Slots /\ ({s} \intersect Objects = {} \/ {s} \subseteq Buffered)
  BY <1>1
<1>3. QED
  BY <1>2, ClearKeepsInv

\* A wrapper with a new object, and one that is destroyed.
LEMMA WrapperKeepsInv ==
  ASSUME IInv, NEW w \in Wrappers, CreateEvent(w) \/ DestroyEvent(w)
  PROVE  IInv'
<1>1. w \in Slots /\ w \notin Objects
  BY Constants
<1>2. CASE CreateEvent(w)
  <2>1. PICK S \in Fresh(1) : \E o \in S : Assign({w}, [s \in {w} |-> Slot(o, TRUE)], {}, S)
    BY <1>2 DEF CreateEvent
  <2>2. PICK o \in S : Assign({w}, [s \in {w} |-> Slot(o, TRUE)], {}, S)
    BY <2>1
  <2>3. S \in SUBSET (Objects \ heap) /\ S = {o} /\ o \in Objects /\ {} \in SUBSET raw
    BY FreshOne
  <2>4. /\ Slot(o, TRUE) \in SlotType /\ Owns(Slot(o, TRUE)) = {} \union S
        /\ Slot(o, TRUE).ptr \in raw \union S \union {Null}
    BY <2>3, SlotFacts
  <2>5. QED
    BY <1>1, <2>2, <2>3, <2>4, SetKeepsInv
<1>3. CASE DestroyEvent(w)
  <2>1. Assign({w}, [s \in {w} |-> Empty], {}, {})
    BY <1>3 DEF DestroyEvent
  <2>2. /\ Empty \in SlotType /\ Owns(Empty) = {} \union {} /\ Empty.ptr \in raw \union {} \union {Null}
        /\ {} \in SUBSET raw /\ {} \in SUBSET (Objects \ heap)
    BY SlotFacts
  <2>3. QED
    BY <1>1, <2>1, <2>2, SetKeepsInv
<1>4. QED
  BY <1>2, <1>3

\* The three ways to give the event of a wrapper a buffer.
LEMMA BufferKeepsInv ==
  ASSUME IInv, NEW o \in Buffered, CopyBuffer(o) \/ MoveBuffer(o) \/ HandleBuffer(o)
  PROVE  IInv'
<1>1. /\ o \in Objects /\ o \in Slots /\ o \notin Wrappers /\ raw \subseteq Objects
      /\ {} \in SUBSET raw /\ {} \in SUBSET (Objects \ heap) /\ raw \subseteq heap
  BY Constants DEF Buffered, IInv, TypeOK
<1>2. CASE CopyBuffer(o)
  <2>1. PICK S \in Fresh(1) : \E b \in S : Assign({o}, [s \in {o} |-> Slot(b, TRUE)], {}, S)
    BY <1>2 DEF CopyBuffer
  <2>2. PICK b \in S : Assign({o}, [s \in {o} |-> Slot(b, TRUE)], {}, S)
    BY <2>1
  <2>3. /\ S \in SUBSET (Objects \ heap) /\ S = {b} /\ b \in Objects \ heap
        /\ \A s \in Slots : slots[s].ptr # b
    BY FreshOne
  <2>4. Slot(b, TRUE) \in SlotType /\ Owns(Slot(b, TRUE)) = {} \union S
    BY <2>3, SlotFacts
  <2>5. Owned(b) = {} /\ \A w \in Wrappers : slots[w].ptr # b
    BY <2>3, Constants DEF IInv, BuffersOK
  <2>6. \A x \in Owns(Slot(b, TRUE)) : Owned(x) = {} /\ \A w \in Wrappers : slots[w].ptr # x
    BY <2>3, <2>4, <2>5
  <2>7. QED
    BY <1>1, <2>2, <2>3, <2>4, <2>6, SetKeepsInv
<1>3. CASE MoveBuffer(o)
  <2>1. PICK b \in Buffers : Assign({o}, [s \in {o} |-> Slot(b, TRUE)], {b}, {})
    BY <1>3 DEF MoveBuffer
  <2>2. b \in raw /\ b \in heap /\ b \in Objects /\ slots[b] = Empty /\ \A w \in Wrappers : slots[w].ptr # b
    BY <1>1 DEF Buffers, Buffered
  <2>3. Slot(b, TRUE) \in SlotType /\ Owns(Slot(b, TRUE)) = {b} \union {} /\ {b} \in SUBSET raw
    BY <2>2, SlotFacts
  <2>4. Owned(b) = {}
    BY <2>2, Constants, OwnedFacts, SlotFacts DEF IInv
  <2>5. \A x \in Owns(Slot(b, TRUE)) : Owned(x) = {} /\ \A w \in Wrappers : slots[w].ptr # x
    BY <2>2, <2>3, <2>4
  <2>6. QED
    BY <1>1, <2>1, <2>3, <2>5, SetKeepsInv
<1>4. CASE HandleBuffer(o)
  <2>1. PICK b \in Buffers : Assign({o}, [s \in {o} |-> Slot(b, FALSE)], {}, {})
    BY <1>4 DEF HandleBuffer
  <2>2. b \in Objects
    BY <1>1 DEF Buffers
  <2>3. Slot(b, FALSE) \in SlotType /\ Owns(Slot(b, FALSE)) = {} \union {}
    BY <2>2, SlotFacts
  <2>4. \A x \in Owns(Slot(b, FALSE)) : Owned(x) = {} /\ \A w \in Wrappers : slots[w].ptr # x
    BY <2>3
  <2>5. QED
    BY <1>1, <2>1, <2>3, <2>4, SetKeepsInv
<1>5. QED
  BY <1>2, <1>3, <1>4
-----------------------------------------------------------------------------
LEMMA InitInv ==
  ASSUME OwnershipInit
  PROVE  IInv
<1>1. heap = {} /\ raw = {} /\ leaked = {} /\ slots = [s \in Slots |-> Empty]
  BY DEF OwnershipInit
<1>2. TypeOK
  BY <1>1, SlotFacts DEF TypeOK
<1>3. \A s \in Slots : Owned(s) = {}
  BY <1>1, <1>2, OwnedFacts, SlotFacts
<1>4. QED
  BY <1>1, <1>2, <1>3, Constants DEF IInv, OwnersOK, BuffersOK

LEMMA NextInv ==
  ASSUME IInv, [OwnershipNext]_memory
  PROVE  IInv'
<1>1. CASE New \/ \E o \in raw : Delete(o)
  BY <1>1, NewKeepsInv, DeleteKeepsInv
<1>2. CASE \E h \in Handles : SetHandle(h) \/ ClearHandle(h) \/ Take(h)
  BY <1>2, SetGiftKeepsInv, ClearOneKeepsInv, TakeKeepsInv DEF SetHandle, ClearHandle
<1>3. CASE \E e \in Elements :
             \/ \E part \in Members : SetPart(e, part)
             \/ SetBoth(e) \/ Reset(e) \/ ReadElement(e) \/ DestroyElement(e)
  BY <1>3, SetPartKeepsInv, SetBothKeepsInv, ResetKeepsInv, ReadElementKeepsInv, DestroyElementKeepsInv
<1>4. CASE \E w \in Wrappers :
             \/ SetEvent(w) \/ SetOtherEvent(w) \/ CreateEvent(w)
             \/ ClearEvent(w) \/ DestroyEvent(w)
  <2>1. PICK w \in Wrappers : \/ SetEvent(w) \/ SetOtherEvent(w) \/ CreateEvent(w)
                              \/ ClearEvent(w) \/ DestroyEvent(w)
    BY <1>4
  <2>2. CASE SetEvent(w) \/ ClearEvent(w)
    BY <2>2, SetGiftKeepsInv, ClearOneKeepsInv DEF SetEvent, ClearEvent
  <2>3. CASE SetOtherEvent(w)
    BY <2>3, DeleteKeepsInv DEF SetOtherEvent
  <2>4. CASE CreateEvent(w) \/ DestroyEvent(w)
    BY <2>4, WrapperKeepsInv
  <2>5. QED
    BY <2>1, <2>2, <2>3, <2>4
<1>5. CASE \E o \in Buffered : CopyBuffer(o) \/ MoveBuffer(o) \/ HandleBuffer(o) \/ ClearBuffer(o)
  BY <1>5, BufferKeepsInv, ClearOneKeepsInv DEF ClearBuffer
<1>6. CASE UNCHANGED memory
  <2>1. UNCHANGED <<heap, raw, leaked, slots>>
    BY <1>6 DEF memory
  <2>2. \A s : Owned(s)' = Owned(s)
    BY <2>1 DEF Owned
  <2>3. QED
    BY <2>1, <2>2 DEF IInv, TypeOK, OwnersOK, BuffersOK
<1>7. QED
  BY <1>1, <1>2, <1>3, <1>4, <1>5, <1>6 DEF OwnershipNext

\* An object that is allocated is among what callers have to delete, or what is
\* leaked, or what one slot owns; any other is nowhere.
LEMMA InvGivesOneOwner ==
  ASSUME IInv
  PROVE  ObjectsHaveOneOwner
<1> SUFFICES ASSUME NEW o \in Objects
             PROVE  Cardinality({s \in Slots : o \in Owned(s)})
                      + Cardinality({o} \intersect raw) + Cardinality({o} \intersect leaked)
                    = IF o \in heap THEN 1 ELSE 0
  BY DEF ObjectsHaveOneOwner
<1> DEFINE Owning == {s \in Slots : o \in Owned(s)}
           a == Cardinality(Owning)
           b == Cardinality({o} \intersect raw)
           c == Cardinality({o} \intersect leaked)
<1> SUFFICES a + b + c = IF o \in heap THEN 1 ELSE 0
  OBVIOUS
<1>1. /\ Cardinality({}) = 0 /\ Cardinality({o}) = 1
      /\ \A s : Cardinality({s}) = 1
  BY FS_EmptySet, FS_Singleton
<1>2. /\ \A s \in Slots : Owned(s) \subseteq heap /\ Owned(s) \intersect (raw \union leaked) = {}
      /\ \A s, t \in Slots : s # t => Owned(s) \intersect Owned(t) = {}
      /\ o \in heap => o \in raw \union leaked \/ \E s \in Slots : o \in Owned(s)
      /\ raw \intersect leaked = {} /\ raw \subseteq heap /\ leaked \subseteq heap
  BY DEF IInv, OwnersOK, TypeOK
<1>3. CASE o \notin heap
  <2>1. Owning = {} /\ {o} \intersect raw = {} /\ {o} \intersect leaked = {}
    BY <1>2, <1>3
  <2>2. a = 0 /\ b = 0 /\ c = 0 /\ o \notin heap
    BY <1>1, <1>3, <2>1
  <2> HIDE DEF a, b, c
  <2>3. QED
    BY <2>2
<1>4. CASE o \in raw
  <2>1. Owning = {} /\ {o} \intersect raw = {o} /\ {o} \intersect leaked = {} /\ o \in heap
    BY <1>2, <1>4
  <2>2. a = 0 /\ b = 1 /\ c = 0 /\ o \in heap
    BY <1>1, <2>1
  <2> HIDE DEF a, b, c
  <2>3. QED
    BY <2>2
<1>5. CASE o \in leaked
  <2>1. Owning = {} /\ {o} \intersect raw = {} /\ {o} \intersect leaked = {o} /\ o \in heap
    BY <1>2, <1>5
  <2>2. a = 0 /\ b = 0 /\ c = 1 /\ o \in heap
    BY <1>1, <2>1
  <2> HIDE DEF a, b, c
  <2>3. QED
    BY <2>2
<1>6. CASE o \in heap /\ o \notin raw \union leaked
  <2>1. PICK s \in Slots : o \in Owned(s)
    BY <1>2, <1>6
  <2>2. Owning = {s} /\ {o} \intersect raw = {} /\ {o} \intersect leaked = {}
    BY <1>2, <1>6, <2>1
  <2>3. a = 1 /\ b = 0 /\ c = 0 /\ o \in heap
    BY <1>1, <1>6, <2>2
  <2> HIDE DEF a, b, c
  <2>4. QED
    BY <2>3
<1>7. QED
  BY <1>3, <1>4, <1>5, <1>6

\* Every operation keeps the owners apart, and the buffers one level deep.
THEOREM OwnersStayApart == OwnershipSpec => []IInv
<1>1. OwnershipInit => IInv
  BY InitInv
<1>2. IInv /\ [OwnershipNext]_memory => IInv'
  BY NextInv
<1>3. QED
  BY <1>1, <1>2, PTL DEF OwnershipSpec

\* The property the run checks, for any number of objects, handlers, elements
\* and wrappers: no operation of PtrHandler, Event or BufferEvent loses an object
\* or deletes one twice, and only a destroyed MonitorElement leaves one that
\* nothing will delete (PtrHandler.h:125-148, Event.h:244-379,
\* BufferEvent.cc:51-106).
THEOREM OwnersAreUnique == OwnershipSpec => []ObjectsHaveOneOwner
BY OwnersStayApart, InvGivesOneOwner, PTL
-----------------------------------------------------------------------------
(***************************************************************************)
(* ElementStream: sequences, and the loops over them.                      *)
(***************************************************************************)
\* Induction, from the order of the natural numbers being well-founded.
LEMMA Induction ==
  ASSUME NEW S, 0 \in S, \A n \in Nat : n \in S => n + 1 \in S
  PROVE  Nat \subseteq S
<1> DEFINE T == Nat \ S
           R == OpToRel(<, Nat)
<1> SUFFICES ASSUME T # {} PROVE FALSE
  OBVIOUS
<1>1. IsWellFoundedOn(R, Nat)
  BY NatLessThanWellFounded
<1>2. T \in SUBSET Nat
  OBVIOUS
<1> HIDE DEF R, T
<1>3. PICK n \in T : \A m \in T : <<m, n>> \notin R
  BY <1>1, <1>2, WFMin, Zenon
<1>4. \A m \in T : ~(m < n)
  BY <1>2, <1>3 DEF R, OpToRel
<1>5. n # 0 /\ n - 1 \in Nat /\ n - 1 < n
  BY <1>2, <1>3 DEF T
<1>6. n - 1 \in S
  BY <1>4, <1>5 DEF T
<1> QED BY <1>2, <1>3, <1>5, <1>6 DEF T

LEMMA SeqIs ==
  ASSUME NEW s, IsSeq(s)
  PROVE  /\ Len(s) \in Nat /\ DOMAIN s = 1 .. Len(s)
         /\ Range(s) = {s[i] : i \in 1 .. Len(s)}
         /\ s = [i \in 1 .. Len(s) |-> s[i]]
BY LenProperties DEF IsSeq, Range

LEMMA MadeSeq ==
  ASSUME NEW s, NEW n \in Nat, s = [i \in 1 .. n |-> s[i]]
  PROVE  IsSeq(s) /\ Len(s) = n
<1>1. Range(s) = {s[i] : i \in 1 .. n}
  BY DEF Range
<1>2. \A i \in 1 .. n : s[i] \in Range(s)
  BY <1>1
<1>3. s \in Seq(Range(s))
  BY <1>2, IsASeq
<1>4. Len(s) \in Nat /\ DOMAIN s = 1 .. Len(s) /\ DOMAIN s = 1 .. n
  BY <1>3, LenProperties
<1> QED BY <1>3, <1>4 DEF IsSeq

IsCells(f, o, cs, n) ==
  f = [i \in 0 .. n |-> IF i = 0 THEN {o} ELSE WriteNext(f[i - 1], cs[i])]

LEMMA CellsExist ==
  ASSUME NEW o, NEW cs, NEW n \in Nat
  PROVE  \E f : IsCells(f, o, cs, n)
<1> DEFINE S == {m \in Nat : \E f : IsCells(f, o, cs, m)}
<1>1. 0 \in S
  <2> DEFINE f == [i \in 0 .. 0 |-> {o}]
  <2>1. f = [i \in 0 .. 0 |-> IF i = 0 THEN {o} ELSE WriteNext(f[i - 1], cs[i])]
    OBVIOUS
  <2>2. IsCells(f, o, cs, 0)
    BY <2>1, Zenon DEF IsCells
  <2> QED BY <2>2
<1>2. ASSUME NEW m \in Nat, m \in S PROVE m + 1 \in S
  <2>1. PICK f : IsCells(f, o, cs, m)
    BY <1>2
  <2> DEFINE e == WriteNext(f[m], cs[m + 1])
             g == [i \in 0 .. m + 1 |-> IF i <= m THEN f[i] ELSE e]
             h == [i \in 0 .. m + 1 |-> IF i = 0 THEN {o} ELSE WriteNext(g[i - 1], cs[i])]
  <2>2. \A i \in 0 .. m : f[i] = IF i = 0 THEN {o} ELSE WriteNext(f[i - 1], cs[i])
    BY <2>1 DEF IsCells
  <2>3. ASSUME NEW i \in 0 .. m + 1 PROVE g[i] = h[i]
    <3>1. i # 0 => i - 1 \in 0 .. m + 1 /\ i - 1 <= m
      OBVIOUS
    <3>2. g[i] = IF i <= m THEN f[i] ELSE e
      OBVIOUS
    <3>3. h[i] = IF i = 0 THEN {o} ELSE WriteNext(g[i - 1], cs[i])
      OBVIOUS
    <3>4. i # 0 => g[i - 1] = f[i - 1]
      BY <3>1
    <3> HIDE DEF g, h
    <3>5. CASE i <= m
      BY <2>2, <3>2, <3>3, <3>4, <3>5
    <3>6. CASE i = m + 1
      <4>1. ~(i <= m) /\ i # 0 /\ i - 1 = m
        BY <3>6
      <4> QED BY <3>2, <3>3, <3>4, <3>6, <4>1
    <3> QED BY <3>5, <3>6
  <2>4. g = h
    BY <2>3
  <2>5. IsCells(g, o, cs, m + 1)
    BY <2>4, Zenon DEF IsCells
  <2> QED BY <2>5
<1> HIDE DEF S
<1>3. n \in S
  BY <1>1, <1>2, Induction
<1> QED BY <1>3 DEF S

LEMMA CellsWritten ==
  ASSUME NEW o, NEW cs, IsSeq(cs)
  PROVE  \E f : /\ WriteCells(o, cs) = f[Len(cs)] /\ f[0] = {o}
                /\ \A i \in 1 .. Len(cs) : f[i] = WriteNext(f[i - 1], cs[i])
<1> DEFINE f == CHOOSE f : IsCells(f, o, cs, Len(cs))
<1>1. IsCells(f, o, cs, Len(cs))
  BY SeqIs, CellsExist, Zenon
<1>2. WriteCells(o, cs) = f[Len(cs)]
  BY Zenon DEF WriteCells, IsCells
<1> HIDE DEF f
<1>3. PICK n : n = Len(cs)
  OBVIOUS
<1>4. n \in Nat /\ f = [i \in 0 .. n |-> IF i = 0 THEN {o} ELSE WriteNext(f[i - 1], cs[i])]
  BY <1>1, <1>3, SeqIs DEF IsCells
<1>5. f[0] = {o} /\ \A i \in 1 .. n : f[i] = WriteNext(f[i - 1], cs[i])
  BY <1>4
<1> QED BY <1>2, <1>3, <1>5

IsElements(f, outs, es, n) ==
  f = [i \in 0 .. n |-> IF i = 0 THEN outs ELSE WriteListed(f[i - 1], es[i])]

LEMMA ElementsExist ==
  ASSUME NEW outs, NEW es, NEW n \in Nat
  PROVE  \E f : IsElements(f, outs, es, n)
<1> DEFINE S == {m \in Nat : \E f : IsElements(f, outs, es, m)}
<1>1. 0 \in S
  <2> DEFINE f == [i \in 0 .. 0 |-> outs]
  <2>1. f = [i \in 0 .. 0 |-> IF i = 0 THEN outs ELSE WriteListed(f[i - 1], es[i])]
    OBVIOUS
  <2>2. IsElements(f, outs, es, 0)
    BY <2>1, Zenon DEF IsElements
  <2> QED BY <2>2
<1>2. ASSUME NEW m \in Nat, m \in S PROVE m + 1 \in S
  <2>1. PICK f : IsElements(f, outs, es, m)
    BY <1>2
  <2> DEFINE e == WriteListed(f[m], es[m + 1])
             g == [i \in 0 .. m + 1 |-> IF i <= m THEN f[i] ELSE e]
             h == [i \in 0 .. m + 1 |-> IF i = 0 THEN outs ELSE WriteListed(g[i - 1], es[i])]
  <2>2. \A i \in 0 .. m : f[i] = IF i = 0 THEN outs ELSE WriteListed(f[i - 1], es[i])
    BY <2>1 DEF IsElements
  <2>3. ASSUME NEW i \in 0 .. m + 1 PROVE g[i] = h[i]
    <3>1. i # 0 => i - 1 \in 0 .. m + 1 /\ i - 1 <= m
      OBVIOUS
    <3>2. g[i] = IF i <= m THEN f[i] ELSE e
      OBVIOUS
    <3>3. h[i] = IF i = 0 THEN outs ELSE WriteListed(g[i - 1], es[i])
      OBVIOUS
    <3>4. i # 0 => g[i - 1] = f[i - 1]
      BY <3>1
    <3> HIDE DEF g, h
    <3>5. CASE i <= m
      BY <2>2, <3>2, <3>3, <3>4, <3>5
    <3>6. CASE i = m + 1
      <4>1. ~(i <= m) /\ i # 0 /\ i - 1 = m
        BY <3>6
      <4> QED BY <3>2, <3>3, <3>4, <3>6, <4>1
    <3> QED BY <3>5, <3>6
  <2>4. g = h
    BY <2>3
  <2>5. IsElements(g, outs, es, m + 1)
    BY <2>4, Zenon DEF IsElements
  <2> QED BY <2>5
<1> HIDE DEF S
<1>3. n \in S
  BY <1>1, <1>2, Induction
<1> QED BY <1>3 DEF S

LEMMA ElementsWritten ==
  ASSUME NEW outs, NEW es, IsSeq(es)
  PROVE  \E f : /\ WriteElements(outs, es) = f[Len(es)] /\ f[0] = outs
                /\ \A i \in 1 .. Len(es) : f[i] = WriteListed(f[i - 1], es[i])
<1> DEFINE f == CHOOSE f : IsElements(f, outs, es, Len(es))
<1>1. IsElements(f, outs, es, Len(es))
  BY SeqIs, ElementsExist, Zenon
<1>2. WriteElements(outs, es) = f[Len(es)]
  BY Zenon DEF WriteElements, IsElements
<1> HIDE DEF f
<1>3. PICK n : n = Len(es)
  OBVIOUS
<1>4. n \in Nat /\ f = [i \in 0 .. n |-> IF i = 0 THEN outs ELSE WriteListed(f[i - 1], es[i])]
  BY <1>1, <1>3, SeqIs DEF IsElements
<1>5. f[0] = outs /\ \A i \in 1 .. n : f[i] = WriteListed(f[i - 1], es[i])
  BY <1>4
<1> QED BY <1>2, <1>3, <1>5

IsVectors(f, o, kind, es, n) ==
  f = [i \in 0 .. n |-> IF i = 0 THEN WriteCell(o, <<"count", Len(es)>>) ELSE WriteVector(f[i - 1], kind, es[i])]

LEMMA VectorsExist ==
  ASSUME NEW o, NEW kind, NEW es, NEW n \in Nat
  PROVE  \E f : IsVectors(f, o, kind, es, n)
<1> DEFINE S == {m \in Nat : \E f : IsVectors(f, o, kind, es, m)}
<1>1. 0 \in S
  <2> DEFINE f == [i \in 0 .. 0 |-> WriteCell(o, <<"count", Len(es)>>)]
  <2>1. f = [i \in 0 .. 0 |-> IF i = 0 THEN WriteCell(o, <<"count", Len(es)>>) ELSE WriteVector(f[i - 1], kind, es[i])]
    OBVIOUS
  <2>2. IsVectors(f, o, kind, es, 0)
    BY <2>1, Zenon DEF IsVectors
  <2> QED BY <2>2
<1>2. ASSUME NEW m \in Nat, m \in S PROVE m + 1 \in S
  <2>1. PICK f : IsVectors(f, o, kind, es, m)
    BY <1>2
  <2> DEFINE e == WriteVector(f[m], kind, es[m + 1])
             g == [i \in 0 .. m + 1 |-> IF i <= m THEN f[i] ELSE e]
             h == [i \in 0 .. m + 1 |-> IF i = 0 THEN WriteCell(o, <<"count", Len(es)>>) ELSE WriteVector(g[i - 1], kind, es[i])]
  <2>2. \A i \in 0 .. m : f[i] = IF i = 0 THEN WriteCell(o, <<"count", Len(es)>>) ELSE WriteVector(f[i - 1], kind, es[i])
    BY <2>1 DEF IsVectors
  <2>3. ASSUME NEW i \in 0 .. m + 1 PROVE g[i] = h[i]
    <3>1. i # 0 => i - 1 \in 0 .. m + 1 /\ i - 1 <= m
      OBVIOUS
    <3>2. g[i] = IF i <= m THEN f[i] ELSE e
      OBVIOUS
    <3>3. h[i] = IF i = 0 THEN WriteCell(o, <<"count", Len(es)>>) ELSE WriteVector(g[i - 1], kind, es[i])
      OBVIOUS
    <3>4. i # 0 => g[i - 1] = f[i - 1]
      BY <3>1
    <3> HIDE DEF g, h
    <3>5. CASE i <= m
      BY <2>2, <3>2, <3>3, <3>4, <3>5
    <3>6. CASE i = m + 1
      <4>1. ~(i <= m) /\ i # 0 /\ i - 1 = m
        BY <3>6
      <4> QED BY <3>2, <3>3, <3>4, <3>6, <4>1
    <3> QED BY <3>5, <3>6
  <2>4. g = h
    BY <2>3
  <2>5. IsVectors(g, o, kind, es, m + 1)
    BY <2>4, Zenon DEF IsVectors
  <2> QED BY <2>5
<1> HIDE DEF S
<1>3. n \in S
  BY <1>1, <1>2, Induction
<1> QED BY <1>3 DEF S

LEMMA VectorsWritten ==
  ASSUME NEW o, NEW kind, NEW es, IsSeq(es)
  PROVE  \E f : /\ WriteVectors(o, kind, es) = f[Len(es)] /\ f[0] = WriteCell(o, <<"count", Len(es)>>)
                /\ \A i \in 1 .. Len(es) : f[i] = WriteVector(f[i - 1], kind, es[i])
<1> DEFINE f == CHOOSE f : IsVectors(f, o, kind, es, Len(es))
<1>1. IsVectors(f, o, kind, es, Len(es))
  BY SeqIs, VectorsExist, Zenon
<1>2. WriteVectors(o, kind, es) = f[Len(es)]
  BY Zenon DEF WriteVectors, IsVectors
<1> HIDE DEF f
<1>3. PICK n, c : n = Len(es) /\ c = WriteCell(o, <<"count", Len(es)>>)
  OBVIOUS
<1>4. n \in Nat /\ f = [i \in 0 .. n |-> IF i = 0 THEN c ELSE WriteVector(f[i - 1], kind, es[i])]
  BY <1>1, <1>3, SeqIs DEF IsVectors
<1>5. 0 \in 0 .. n /\ \A i \in 1 .. n : i \in 0 .. n /\ i # 0
  BY <1>4
<1>6. \A i \in 0 .. n : f[i] = IF i = 0 THEN c ELSE WriteVector(f[i - 1], kind, es[i])
  BY <1>4
<1>7. f[0] = c /\ \A i \in 1 .. n : f[i] = WriteVector(f[i - 1], kind, es[i])
  BY <1>5, <1>6
<1> QED BY <1>2, <1>3, <1>7

IsMany(f, q, kind, n) ==
  f = [i \in 0 .. n |-> IF i = 0 THEN q ELSE (IF Ok(f[i - 1]) THEN ReadTurn(f[i - 1], kind) ELSE f[i - 1])]

LEMMA ManyExist ==
  ASSUME NEW q, NEW kind, NEW n \in Nat
  PROVE  \E f : IsMany(f, q, kind, n)
<1> DEFINE S == {m \in Nat : \E f : IsMany(f, q, kind, m)}
<1>1. 0 \in S
  <2> DEFINE f == [i \in 0 .. 0 |-> q]
  <2>1. f = [i \in 0 .. 0 |-> IF i = 0 THEN q ELSE (IF Ok(f[i - 1]) THEN ReadTurn(f[i - 1], kind) ELSE f[i - 1])]
    OBVIOUS
  <2>2. IsMany(f, q, kind, 0)
    BY <2>1, Zenon DEF IsMany
  <2> QED BY <2>2
<1>2. ASSUME NEW m \in Nat, m \in S PROVE m + 1 \in S
  <2>1. PICK f : IsMany(f, q, kind, m)
    BY <1>2
  <2> DEFINE e == (IF Ok(f[m]) THEN ReadTurn(f[m], kind) ELSE f[m])
             g == [i \in 0 .. m + 1 |-> IF i <= m THEN f[i] ELSE e]
             h == [i \in 0 .. m + 1 |-> IF i = 0 THEN q ELSE (IF Ok(g[i - 1]) THEN ReadTurn(g[i - 1], kind) ELSE g[i - 1])]
  <2>2. \A i \in 0 .. m : f[i] = IF i = 0 THEN q ELSE (IF Ok(f[i - 1]) THEN ReadTurn(f[i - 1], kind) ELSE f[i - 1])
    BY <2>1 DEF IsMany
  <2>3. ASSUME NEW i \in 0 .. m + 1 PROVE g[i] = h[i]
    <3>1. i # 0 => i - 1 \in 0 .. m + 1 /\ i - 1 <= m
      OBVIOUS
    <3>2. g[i] = IF i <= m THEN f[i] ELSE e
      OBVIOUS
    <3>3. h[i] = IF i = 0 THEN q ELSE (IF Ok(g[i - 1]) THEN ReadTurn(g[i - 1], kind) ELSE g[i - 1])
      OBVIOUS
    <3>4. i # 0 => g[i - 1] = f[i - 1]
      BY <3>1
    <3> HIDE DEF g, h
    <3>5. CASE i <= m
      BY <2>2, <3>2, <3>3, <3>4, <3>5
    <3>6. CASE i = m + 1
      <4>1. ~(i <= m) /\ i # 0 /\ i - 1 = m
        BY <3>6
      <4> QED BY <3>2, <3>3, <3>4, <3>6, <4>1
    <3> QED BY <3>5, <3>6
  <2>4. g = h
    BY <2>3
  <2>5. IsMany(g, q, kind, m + 1)
    BY <2>4, Zenon DEF IsMany
  <2> QED BY <2>5
<1> HIDE DEF S
<1>3. n \in S
  BY <1>1, <1>2, Induction
<1> QED BY <1>3 DEF S

LEMMA ManyRead ==
  ASSUME NEW q, NEW kind, NEW r, q = ReadCell(r), Ok(q), Given(q) \in Nat
  PROVE  \E f : /\ ReadMany(r, kind) = f[Given(q)] /\ f[0] = q
                /\ \A i \in 1 .. Given(q) : f[i] = (IF Ok(f[i - 1]) THEN ReadTurn(f[i - 1], kind) ELSE f[i - 1])
<1> DEFINE f == CHOOSE f : IsMany(f, q, kind, Given(q))
<1>1. IsMany(f, q, kind, Given(q))
  BY ManyExist, Zenon
<1>2. ReadMany(r, kind) = f[Given(q)]
  BY Zenon DEF ReadMany, IsMany
<1> HIDE DEF f
<1>3. PICK n : n = Given(q)
  OBVIOUS
<1>4. n \in Nat /\ f = [i \in 0 .. n |-> IF i = 0 THEN q ELSE (IF Ok(f[i - 1]) THEN ReadTurn(f[i - 1], kind) ELSE f[i - 1])]
  BY <1>1, <1>3 DEF IsMany
<1>5. f[0] = q /\ \A i \in 1 .. n : f[i] = (IF Ok(f[i - 1]) THEN ReadTurn(f[i - 1], kind) ELSE f[i - 1])
  BY <1>4
<1> QED BY <1>2, <1>3, <1>5

IsKeyed(f, q, kind, n) ==
  f = [i \in 0 .. n |-> IF i = 0 THEN q ELSE (IF Ok(f[i - 1]) THEN ReadVector(f[i - 1], kind) ELSE f[i - 1])]

LEMMA KeyedExist ==
  ASSUME NEW q, NEW kind, NEW n \in Nat
  PROVE  \E f : IsKeyed(f, q, kind, n)
<1> DEFINE S == {m \in Nat : \E f : IsKeyed(f, q, kind, m)}
<1>1. 0 \in S
  <2> DEFINE f == [i \in 0 .. 0 |-> q]
  <2>1. f = [i \in 0 .. 0 |-> IF i = 0 THEN q ELSE (IF Ok(f[i - 1]) THEN ReadVector(f[i - 1], kind) ELSE f[i - 1])]
    OBVIOUS
  <2>2. IsKeyed(f, q, kind, 0)
    BY <2>1, Zenon DEF IsKeyed
  <2> QED BY <2>2
<1>2. ASSUME NEW m \in Nat, m \in S PROVE m + 1 \in S
  <2>1. PICK f : IsKeyed(f, q, kind, m)
    BY <1>2
  <2> DEFINE e == (IF Ok(f[m]) THEN ReadVector(f[m], kind) ELSE f[m])
             g == [i \in 0 .. m + 1 |-> IF i <= m THEN f[i] ELSE e]
             h == [i \in 0 .. m + 1 |-> IF i = 0 THEN q ELSE (IF Ok(g[i - 1]) THEN ReadVector(g[i - 1], kind) ELSE g[i - 1])]
  <2>2. \A i \in 0 .. m : f[i] = IF i = 0 THEN q ELSE (IF Ok(f[i - 1]) THEN ReadVector(f[i - 1], kind) ELSE f[i - 1])
    BY <2>1 DEF IsKeyed
  <2>3. ASSUME NEW i \in 0 .. m + 1 PROVE g[i] = h[i]
    <3>1. i # 0 => i - 1 \in 0 .. m + 1 /\ i - 1 <= m
      OBVIOUS
    <3>2. g[i] = IF i <= m THEN f[i] ELSE e
      OBVIOUS
    <3>3. h[i] = IF i = 0 THEN q ELSE (IF Ok(g[i - 1]) THEN ReadVector(g[i - 1], kind) ELSE g[i - 1])
      OBVIOUS
    <3>4. i # 0 => g[i - 1] = f[i - 1]
      BY <3>1
    <3> HIDE DEF g, h
    <3>5. CASE i <= m
      BY <2>2, <3>2, <3>3, <3>4, <3>5
    <3>6. CASE i = m + 1
      <4>1. ~(i <= m) /\ i # 0 /\ i - 1 = m
        BY <3>6
      <4> QED BY <3>2, <3>3, <3>4, <3>6, <4>1
    <3> QED BY <3>5, <3>6
  <2>4. g = h
    BY <2>3
  <2>5. IsKeyed(g, q, kind, m + 1)
    BY <2>4, Zenon DEF IsKeyed
  <2> QED BY <2>5
<1> HIDE DEF S
<1>3. n \in S
  BY <1>1, <1>2, Induction
<1> QED BY <1>3 DEF S

LEMMA KeyedRead ==
  ASSUME NEW q, NEW kind, NEW r, q = ReadCell(r), Ok(q), Given(q) \in Nat
  PROVE  \E f : /\ ReadVectors(r, kind) = f[Given(q)] /\ f[0] = q
                /\ \A i \in 1 .. Given(q) : f[i] = (IF Ok(f[i - 1]) THEN ReadVector(f[i - 1], kind) ELSE f[i - 1])
<1> DEFINE f == CHOOSE f : IsKeyed(f, q, kind, Given(q))
<1>1. IsKeyed(f, q, kind, Given(q))
  BY KeyedExist, Zenon
<1>2. ReadVectors(r, kind) = f[Given(q)]
  BY Zenon DEF ReadVectors, IsKeyed
<1> HIDE DEF f
<1>3. PICK n : n = Given(q)
  OBVIOUS
<1>4. n \in Nat /\ f = [i \in 0 .. n |-> IF i = 0 THEN q ELSE (IF Ok(f[i - 1]) THEN ReadVector(f[i - 1], kind) ELSE f[i - 1])]
  BY <1>1, <1>3 DEF IsKeyed
<1>5. f[0] = q /\ \A i \in 1 .. n : f[i] = (IF Ok(f[i - 1]) THEN ReadVector(f[i - 1], kind) ELSE f[i - 1])
  BY <1>4
<1> QED BY <1>2, <1>3, <1>5

(***************************************************************************)
(* ElementStream: what a write leaves on the device.                       *)
(***************************************************************************)
\* The cells after a, up to b, are the same on c and d.
Agree(c, d, a, b) == \A i \in Nat : a < i /\ i <= b => d[i] = c[i]

IsWriter(o) ==
  /\ o = Outcome(o.code, o.cells, o.pos)
  /\ IsSeq(o.cells) /\ o.pos \in Nat /\ o.pos <= Len(o.cells)

\* What was before the position is still there.
Extends(o, p) ==
  /\ IsWriter(p) /\ o.pos <= p.pos /\ Len(o.cells) <= Len(p.cells)
  /\ Agree(o.cells, p.cells, 0, o.pos)

LEMMA ExtendsMore ==
  ASSUME NEW o, NEW p, NEW q, IsWriter(o), Extends(o, p), Extends(p, q)
  PROVE  Extends(o, q)
<1>1. PICK a, b, c, l, m, n : /\ a = o.pos /\ b = p.pos /\ c = q.pos
                              /\ l = Len(o.cells) /\ m = Len(p.cells) /\ n = Len(q.cells)
  OBVIOUS
<1>2. a \in Nat /\ b \in Nat /\ c \in Nat /\ l \in Nat /\ m \in Nat /\ n \in Nat
  BY <1>1, SeqIs DEF IsWriter, Extends
<1>3. a <= b /\ b <= c /\ l <= m /\ m <= n
  BY <1>1 DEF Extends
<1>4. a <= c /\ l <= n
  BY <1>2, <1>3
<1>5. ASSUME NEW i \in Nat, 0 < i, i <= a PROVE q.cells[i] = o.cells[i]
  <2>1. i <= b
    BY <1>2, <1>3, <1>5
  <2> QED BY <1>1, <1>5, <2>1 DEF Extends, Agree
<1> QED BY <1>1, <1>4, <1>5 DEF Extends, Agree

LEMMA CellWritten ==
  ASSUME NEW o, IsWriter(o), NEW c, NEW p \in WriteCell(o, c)
  PROVE  /\ Extends(o, p)
         /\ \A i \in Nat : 0 < i /\ i <= Len(o.cells) /\ i # o.pos + 1 => p.cells[i] = o.cells[i]
         /\ p.pos = IF Ok(p) THEN o.pos + 1 ELSE o.pos
         /\ Ok(p) => p.cells[o.pos + 1] = c
<1> DEFINE With(x) == IF o.pos < Len(o.cells) THEN [o.cells EXCEPT ![o.pos + 1] = x]
                      ELSE Append(o.cells, x)
<1>1. PICK x : \/ p = Outcome("SUCCESS", With(x), o.pos + 1) /\ x = c
               \/ p = Outcome("FAILURE", With(x), o.pos)
  BY DEF WriteCell
<1>2. PICK s, n, k : s = o.cells /\ n = Len(s) /\ k = o.pos
  OBVIOUS
<1>3. /\ IsSeq(s) /\ n \in Nat /\ k \in Nat /\ k <= n
      /\ s = [i \in 1 .. n |-> s[i]]
  BY <1>2, SeqIs DEF IsWriter
<1>4. PICK d : d = With(x)
  OBVIOUS
<1>5. \E l \in Nat : /\ IsSeq(d) /\ Len(d) = l /\ n <= l /\ k + 1 <= l /\ d[k + 1] = x
                     /\ \A i \in Nat : 0 < i /\ i <= n /\ i # k + 1 => d[i] = s[i]
  <2>1. CASE k < n
    <3>1. d = [s EXCEPT ![k + 1] = x]
      BY <1>2, <1>4, <2>1
    <3>2. d = [i \in 1 .. n |-> IF i = k + 1 THEN x ELSE s[i]]
      BY <1>3, <3>1
    <3>3. d = [i \in 1 .. n |-> d[i]]
      BY <3>2
    <3>4. IsSeq(d) /\ Len(d) = n
      BY <1>3, <3>3, MadeSeq
    <3>5. k + 1 \in 1 .. n /\ \A i \in Nat : 0 < i /\ i <= n => i \in 1 .. n
      BY <1>3, <2>1
    <3>6. d[k + 1] = x /\ \A i \in Nat : 0 < i /\ i <= n /\ i # k + 1 => d[i] = s[i]
      BY <3>2, <3>5
    <3>7. n <= n /\ k + 1 <= n
      BY <1>3, <2>1
    <3> QED BY <1>3, <3>4, <3>6, <3>7
  <2>2. CASE ~(k < n)
    <3>1. d = Append(s, x) /\ k = n
      BY <1>2, <1>3, <1>4, <2>2
    <3> DEFINE R == Range(s) \union {x}
    <3>2. s \in Seq(R) /\ x \in R
      BY <1>3, SeqMonotonic DEF IsSeq
    <3>3. /\ d \in Seq(R) /\ Len(d) = n + 1 /\ d[n + 1] = x
          /\ \A i \in 1 .. n : d[i] = s[i]
      BY <1>2, <3>1, <3>2, AppendProperties
    <3>4. d = [i \in 1 .. n + 1 |-> d[i]]
      BY <3>3, LenProperties
    <3>5. IsSeq(d)
      BY <1>3, <3>4, MadeSeq
    <3>6. \A i \in Nat : 0 < i /\ i <= n => i \in 1 .. n
      BY <1>3
    <3>7. n + 1 \in Nat /\ n <= n + 1 /\ k + 1 <= n + 1 /\ d[k + 1] = x
      BY <1>3, <3>1, <3>3
    <3> QED BY <3>3, <3>5, <3>6, <3>7
  <2> QED BY <2>1, <2>2
<1>6. PICK l \in Nat : /\ IsSeq(d) /\ Len(d) = l /\ n <= l /\ k + 1 <= l /\ d[k + 1] = x
                       /\ \A i \in Nat : 0 < i /\ i <= n /\ i # k + 1 => d[i] = s[i]
  BY <1>5
<1>7. Agree(s, d, 0, k)
  <2>1. \A i \in Nat : i <= k => i <= n /\ i # k + 1
    BY <1>3
  <2> QED BY <1>6, <2>1 DEF Agree
<1> HIDE DEF With
<1>8. k <= l /\ k <= k + 1 /\ k + 1 \in Nat
  BY <1>3, <1>6
<1>9. CASE p = Outcome("SUCCESS", d, k + 1) /\ x = c
  <2>1. p.code = "SUCCESS" /\ p.cells = d /\ p.pos = k + 1 /\ Ok(p)
    BY <1>9 DEF Outcome, Ok
  <2>2. IsWriter(p)
    BY <1>6, <1>8, <1>9, <2>1 DEF IsWriter
  <2>3. Extends(o, p)
    BY <1>2, <1>6, <1>7, <1>8, <2>1, <2>2 DEF Extends
  <2> QED BY <1>2, <1>6, <1>9, <2>1, <2>3
<1>10. CASE p = Outcome("FAILURE", d, k)
  <2>1. p.code = "FAILURE" /\ p.cells = d /\ p.pos = k /\ ~Ok(p)
    BY <1>10 DEF Outcome, Ok
  <2>2. IsWriter(p)
    BY <1>3, <1>6, <1>8, <1>10, <2>1 DEF IsWriter
  <2>3. Extends(o, p)
    BY <1>2, <1>6, <1>7, <1>8, <2>1, <2>2, <1>3 DEF Extends
  <2> QED BY <1>2, <1>6, <2>1, <2>3
<1> QED BY <1>1, <1>2, <1>4, <1>9, <1>10

LEMMA NextIs ==
  ASSUME NEW outs, NEW c, NEW p
  PROVE  p \in WriteNext(outs, c) <=>
           \/ p \in outs /\ ~Ok(p)
           \/ \E q \in outs : Ok(q) /\ p \in WriteCell(q, c)
BY DEF WriteNext, Then

LEMMA ListedIs ==
  ASSUME NEW outs, NEW e, NEW p
  PROVE  p \in WriteListed(outs, e) <=>
           \/ p \in outs /\ ~Ok(p)
           \/ \E q \in outs : Ok(q) /\ p \in writeMonitorElement(q, e)
BY DEF WriteListed, Then

LEMMA VectorIs ==
  ASSUME NEW outs, NEW kind, NEW x, NEW p
  PROVE  p \in WriteVector(outs, kind, x) <=>
           \/ p \in WriteNext(outs, Value(x[1])) /\ ~Ok(p)
           \/ \E q \in WriteNext(outs, Value(x[1])) : Ok(q) /\ p \in WriteList(q, x[2]) /\ kind = "map"
           \/ \E q \in WriteNext(outs, Value(x[1])) : Ok(q) /\ p \in WriteValues(q, x[2]) /\ kind # "map"
BY DEF WriteVector, Then

\* The cells after a, up to b, are those of cs.
HoldsCells(d, a, b, cs) == b = a + Len(cs) /\ \A i \in 1 .. Len(cs) : d[a + i] = cs[i]

LEMMA HoldsSame ==
  ASSUME NEW c, NEW d, NEW a \in Nat, NEW b, NEW cs, Len(cs) \in Nat,
         HoldsCells(c, a, b, cs), Agree(c, d, a, b)
  PROVE  HoldsCells(d, a, b, cs)
<1>1. PICK n : n = Len(cs)
  OBVIOUS
<1>2. \A i \in 1 .. n : a + i \in Nat /\ a < a + i /\ a + i <= a + n
  BY <1>1
<1> QED BY <1>1, <1>2 DEF HoldsCells, Agree

LEMMA CellsLaid ==
  ASSUME NEW o, IsWriter(o), Ok(o), NEW cs, IsSeq(cs), NEW p \in WriteCells(o, cs)
  PROVE  Extends(o, p) /\ (Ok(p) => HoldsCells(p.cells, o.pos, p.pos, cs))
<1>1. PICK f : /\ WriteCells(o, cs) = f[Len(cs)] /\ f[0] = {o}
               /\ \A i \in 1 .. Len(cs) : f[i] = WriteNext(f[i - 1], cs[i])
  BY CellsWritten
<1>2. PICK n, k : n = Len(cs) /\ k = o.pos
  OBVIOUS
<1>3. n \in Nat /\ k \in Nat
  BY <1>2, SeqIs DEF IsWriter
<1> DEFINE P(i) == \A q \in f[i] :
                     /\ Extends(o, q)
                     /\ Ok(q) => q.pos = k + i /\ \A j \in 1 .. i : q.cells[k + j] = cs[j]
           S == {i \in Nat : i <= n => P(i)}
<1>4. 0 \in S
  <2>1. Extends(o, o)
    <3>1. Len(o.cells) \in Nat
      BY SeqIs DEF IsWriter
    <3> QED BY <1>2, <1>3, <3>1 DEF Extends, Agree
  <2> QED BY <1>1, <1>2, <1>3, <2>1
<1>5. ASSUME NEW i \in Nat, i \in S PROVE i + 1 \in S
  <2> SUFFICES ASSUME i + 1 <= n, NEW q \in f[i + 1]
               PROVE  /\ Extends(o, q)
                      /\ Ok(q) => /\ q.pos = k + (i + 1)
                                  /\ \A j \in 1 .. i + 1 : q.cells[k + j] = cs[j]
    OBVIOUS
  <2>1. P(i)
    BY <1>3, <1>5
  <2>2. i + 1 \in 1 .. n /\ (i + 1) - 1 = i
    BY <1>3
  <2>3. q \in WriteNext(f[i], cs[i + 1])
    BY <1>1, <1>2, <2>2
  <2>4. CASE q \in f[i] /\ ~Ok(q)
    BY <2>1, <2>4
  <2>5. ASSUME NEW r \in f[i], Ok(r), q \in WriteCell(r, cs[i + 1])
        PROVE  /\ Extends(o, q)
               /\ Ok(q) => /\ q.pos = k + (i + 1)
                           /\ \A j \in 1 .. i + 1 : q.cells[k + j] = cs[j]
    <3>1. /\ Extends(o, r) /\ IsWriter(r) /\ r.pos = k + i
          /\ \A j \in 1 .. i : r.cells[k + j] = cs[j]
      BY <2>1, <2>5 DEF Extends
    <3>2. /\ Extends(r, q) /\ q.pos = (IF Ok(q) THEN r.pos + 1 ELSE r.pos)
          /\ Ok(q) => q.cells[r.pos + 1] = cs[i + 1]
      BY <2>5, <3>1, CellWritten
    <3>3. Extends(o, q)
      BY <3>1, <3>2, ExtendsMore
    <3>4. \A j \in 1 .. i : k + j \in Nat /\ 0 < k + j /\ k + j <= k + i
      BY <1>3
    <3>5. \A j \in 1 .. i : q.cells[k + j] = cs[j]
      BY <3>1, <3>2, <3>4 DEF Extends, Agree
    <3>6. \A j \in 1 .. i + 1 : j \in 1 .. i \/ j = i + 1
      OBVIOUS
    <3>7. k + i + 1 = k + (i + 1)
      BY <1>3
    <3>8. Ok(q) => q.pos = k + (i + 1) /\ q.cells[k + (i + 1)] = cs[i + 1]
      BY <3>1, <3>2, <3>7
    <3> QED BY <3>3, <3>5, <3>6, <3>8
  <2> QED BY <2>3, <2>4, <2>5, NextIs
<1> HIDE DEF S
<1>6. n \in S
  BY <1>3, <1>4, <1>5, Induction
<1>7. P(n)
  BY <1>3, <1>6 DEF S
<1> QED BY <1>1, <1>2, <1>7 DEF HoldsCells

LEMMA ConcatSeq ==
  ASSUME NEW s, NEW t, IsSeq(s), IsSeq(t)
  PROVE  /\ IsSeq(s \o t) /\ Len(s \o t) = Len(s) + Len(t)
         /\ \A i \in 1 .. Len(s) : (s \o t)[i] = s[i]
         /\ \A i \in 1 .. Len(t) : (s \o t)[Len(s) + i] = t[i]
<1> DEFINE R == Range(s) \union Range(t)
<1>1. s \in Seq(R) /\ t \in Seq(R)
  BY SeqMonotonic DEF IsSeq
<1>2. /\ s \o t \in Seq(R) /\ Len(s \o t) = Len(s) + Len(t)
      /\ \A i \in 1 .. Len(s) + Len(t) : (s \o t)[i] =
           IF i <= Len(s) THEN s[i] ELSE t[i - Len(s)]
  BY <1>1, ConcatProperties
<1>3. Len(s) \in Nat /\ Len(t) \in Nat
  BY SeqIs
<1>4. s \o t = [i \in 1 .. Len(s) + Len(t) |-> (s \o t)[i]]
  <2> DEFINE u == s \o t
  <2>1. u \in [1 .. Len(u) -> R] /\ Len(u) = Len(s) + Len(t)
    BY <1>2, LenProperties
  <2> HIDE DEF u
  <2> QED BY <2>1 DEF u
<1>5. IsSeq(s \o t)
  BY <1>3, <1>4, MadeSeq
<1>6. \A i \in 1 .. Len(s) : i \in 1 .. Len(s) + Len(t) /\ i <= Len(s)
  BY <1>3
<1>7. \A i \in 1 .. Len(t) : /\ Len(s) + i \in 1 .. Len(s) + Len(t)
                             /\ ~(Len(s) + i <= Len(s)) /\ Len(s) + i - Len(s) = i
  BY <1>3
<1> QED BY <1>2, <1>5, <1>6, <1>7

LEMMA FewCells ==
  ASSUME NEW x, NEW y
  PROVE  /\ IsSeq(<<x>>) /\ Len(<<x>>) = 1 /\ <<x>>[1] = x
         /\ IsSeq(<<x, y>>) /\ Len(<<x, y>>) = 2 /\ <<x, y>>[1] = x /\ <<x, y>>[2] = y
<1>1. <<x>> \in Seq({x}) /\ <<x, y>> \in Seq({x, y})
  OBVIOUS
<1>2. Range(<<x>>) = {x} /\ Range(<<x, y>>) = {x, y}
  BY DEF Range
<1> QED BY <1>1, <1>2 DEF IsSeq

ElementCells(e) == <<<<"path", e.path>>>> \o PartCells(e.object) \o PartCells(e.reference)

HoldsElement(d, a, b, e) == e # NoObject /\ HoldsCells(d, a, b, ElementCells(e))

LEMMA PartCellsSeq ==
  ASSUME NEW x
  PROVE  /\ IsSeq(PartCells(x))
         /\ IF x = NoObject THEN Len(PartCells(x)) = 1 /\ PartCells(x)[1] = <<"flag", FALSE>>
            ELSE /\ Len(PartCells(x)) = 2 /\ PartCells(x)[1] = <<"flag", TRUE>>
                 /\ PartCells(x)[2] = <<"object", x>>
BY FewCells DEF PartCells

LEMMA ElementCellsSeq ==
  ASSUME NEW e
  PROVE  IsSeq(ElementCells(e)) /\ Len(ElementCells(e)) \in Nat
<1>1. IsSeq(<<<<"path", e.path>>>>)
  BY FewCells
<1>2. IsSeq(<<<<"path", e.path>>>> \o PartCells(e.object))
  BY <1>1, PartCellsSeq, ConcatSeq
<1>3. IsSeq(ElementCells(e))
  BY <1>2, PartCellsSeq, ConcatSeq DEF ElementCells
<1> QED BY <1>3, SeqIs

LEMMA ElementWritten ==
  ASSUME NEW o, IsWriter(o), Ok(o), NEW e, NEW p \in writeMonitorElement(o, e)
  PROVE  /\ Extends(o, p)
         /\ Ok(p) => HoldsElement(p.cells, o.pos, p.pos, e)
         /\ ~Ok(p) => p.pos = o.pos
<1>1. o.pos \in Nat /\ o.pos <= Len(o.cells) /\ Len(o.cells) \in Nat
  BY SeqIs DEF IsWriter
<1>2. CASE e = NoObject
  <2>1. p = [o EXCEPT !.code = "INVALID_PTR"]
    BY <1>2 DEF writeMonitorElement
  <2>2. o = Outcome(o.code, o.cells, o.pos)
    BY DEF IsWriter
  <2>3. /\ p.cells = o.cells /\ p.pos = o.pos /\ p.code = "INVALID_PTR"
        /\ p = Outcome(p.code, p.cells, p.pos)
    BY <2>1, <2>2 DEF Outcome
  <2>4. IsWriter(p)
    BY <2>3 DEF IsWriter
  <2> QED BY <1>1, <2>3, <2>4 DEF Extends, Agree, Ok
<1>3. CASE e # NoObject
  <2>1. PICK q \in WriteCells(o, ElementCells(e)) :
          p = IF Ok(q) THEN q ELSE [q EXCEPT !.pos = o.pos]
    BY <1>3 DEF writeMonitorElement, toDevice, Restoring, ElementCells
  <2>2. Extends(o, q) /\ (Ok(q) => HoldsCells(q.cells, o.pos, q.pos, ElementCells(e)))
    BY ElementCellsSeq, CellsLaid
  <2>3. CASE Ok(q)
    BY <1>3, <2>1, <2>2, <2>3 DEF HoldsElement
  <2>4. CASE ~Ok(q)
    <3>1. q = Outcome(q.code, q.cells, q.pos)
      BY <2>2 DEF Extends, IsWriter
    <3>2. p = Outcome(q.code, q.cells, o.pos)
      BY <2>1, <2>4, <3>1 DEF Outcome
    <3>3. p.code = q.code /\ p.cells = q.cells /\ p.pos = o.pos /\ ~Ok(p)
      BY <2>4, <3>2 DEF Outcome, Ok
    <3>4. IsSeq(q.cells) /\ Len(o.cells) <= Len(q.cells) /\ Len(q.cells) \in Nat
      BY <2>2, SeqIs DEF Extends, IsWriter
    <3>5. o.pos <= Len(q.cells)
      BY <1>1, <3>4
    <3>6. IsWriter(p)
      BY <1>1, <3>2, <3>3, <3>4, <3>5 DEF IsWriter
    <3> QED BY <1>1, <2>2, <3>3, <3>6 DEF Extends
  <2> QED BY <2>3, <2>4
<1> QED BY <1>2, <1>3

LEMMA CellsSame ==
  ASSUME NEW c, NEW d, NEW a \in Nat, NEW b, NEW cs, IsSeq(cs),
         HoldsCells(c, a, b, cs), Agree(c, d, a, b)
  PROVE  HoldsCells(d, a, b, cs)
BY SeqIs, HoldsSame

\* One of the things that a loop writes: an element, a value, an entry or, in
\* HoldsVector, a key with its vector.
HoldsItem(d, a, b, kind, x) ==
  IF kind = "list" THEN HoldsElement(d, a, b, x)
  ELSE HoldsCells(d, a, b, IF kind = "values" THEN <<Value(x)>> ELSE <<Value(x[1]), Value(x[2])>>)

\* The first n things lie from a to b, cut into parts; laid says which part of the
\* device may be that of which thing.
Cuts(cut, laid, n, a, b) ==
  /\ cut \in [0 .. n -> Nat] /\ cut[0] = a /\ cut[n] = b
  /\ \A i \in 0 .. n : a <= cut[i] /\ cut[i] <= b
  /\ \A i \in 1 .. n : cut[i - 1] <= cut[i] /\ <<i, cut[i - 1], cut[i]>> \in laid

Laid(laid, n, a, b) == \E cut : Cuts(cut, laid, n, a, b)

Triples == Nat \X Nat \X Nat

ItemsAt(d, kind, xs) == {t \in Triples : HoldsItem(d, t[2], t[3], kind, xs[t[1]])}

\* A count, then that many things.
HoldsMany(d, a, b, kind, xs) ==
  /\ a + 1 <= b /\ d[a + 1] = <<"count", Len(xs)>>
  /\ Laid(ItemsAt(d, kind, xs), Len(xs), a + 1, b)

HoldsVector(d, a, b, kind, x) ==
  /\ a + 1 <= b /\ d[a + 1] = Value(x[1])
  /\ HoldsMany(d, a + 1, b, IF kind = "map" THEN "list" ELSE "values", x[2])

VectorsAt(d, kind, m) == {t \in Triples : HoldsVector(d, t[2], t[3], kind, m[t[1]])}

HoldsVectors(d, a, b, kind, m) ==
  /\ a + 1 <= b /\ d[a + 1] = <<"count", Len(m)>>
  /\ Laid(VectorsAt(d, kind, m), Len(m), a + 1, b)

HoldsAny(d, a, b, kind, value) ==
  CASE kind = "element" -> HoldsElement(d, a, b, value)
    [] kind \in {"map", "vectors"} -> HoldsVectors(d, a, b, kind, value)
    [] OTHER -> HoldsMany(d, a, b, kind, value)

LEMMA LaidNone ==
  ASSUME NEW laid, NEW a \in Nat
  PROVE  Laid(laid, 0, a, a)
<1> DEFINE cut == [i \in 0 .. 0 |-> a]
<1>1. cut \in [0 .. 0 -> Nat] /\ cut[0] = a
  OBVIOUS
<1>2. \A i \in 0 .. 0 : a <= cut[i] /\ cut[i] <= a
  OBVIOUS
<1>3. 1 .. 0 = {}
  OBVIOUS
<1> HIDE DEF cut
<1>4. Cuts(cut, laid, 0, a, a)
  BY <1>1, <1>2, <1>3 DEF Cuts
<1> QED BY <1>4 DEF Laid

LEMMA LaidMore ==
  ASSUME NEW laid, NEW n \in Nat, NEW a \in Nat, NEW b \in Nat, NEW c \in Nat,
         Laid(laid, n, a, b), b <= c, <<n + 1, b, c>> \in laid
  PROVE  Laid(laid, n + 1, a, c)
<1>1. PICK cut : Cuts(cut, laid, n, a, b)
  BY DEF Laid
<1> DEFINE more == [i \in 0 .. n + 1 |-> IF i = n + 1 THEN c ELSE cut[i]]
<1>2. \A i \in 0 .. n + 1 : i # n + 1 => i \in 0 .. n
  OBVIOUS
<1>3. /\ cut \in [0 .. n -> Nat] /\ cut[0] = a /\ cut[n] = b
      /\ \A i \in 0 .. n : cut[i] \in Nat /\ a <= cut[i] /\ cut[i] <= b
      /\ \A i \in 1 .. n : cut[i - 1] <= cut[i] /\ <<i, cut[i - 1], cut[i]>> \in laid
  BY <1>1 DEF Cuts
<1>4. a <= b
  BY <1>3
<1>5. more \in [0 .. n + 1 -> Nat]
  BY <1>2, <1>3
<1>6. 0 \in 0 .. n + 1 /\ n + 1 \in 0 .. n + 1 /\ n \in 0 .. n + 1 /\ 0 # n + 1 /\ n # n + 1
  OBVIOUS
<1>7. more[0] = a /\ more[n + 1] = c /\ more[n] = b
  BY <1>3, <1>6
<1>8. ASSUME NEW i \in 0 .. n + 1 PROVE a <= more[i] /\ more[i] <= c
  <2>1. CASE i = n + 1
    BY <1>4, <1>7, <2>1
  <2>2. CASE i # n + 1
    <3>1. i \in 0 .. n /\ more[i] = cut[i]
      BY <1>2, <2>2
    <3> HIDE DEF more
    <3> QED BY <1>3, <3>1
  <2> QED BY <2>1, <2>2
<1>9. ASSUME NEW i \in 1 .. n + 1
      PROVE  more[i - 1] <= more[i] /\ <<i, more[i - 1], more[i]>> \in laid
  <2>1. CASE i = n + 1
    <3>1. i - 1 = n
      BY <2>1
    <3> HIDE DEF more
    <3> QED BY <1>7, <2>1, <3>1
  <2>2. CASE i # n + 1
    <3>1. i \in 1 .. n /\ i \in 0 .. n + 1 /\ i - 1 \in 0 .. n + 1 /\ i - 1 # n + 1
      BY <2>2
    <3>2. more[i] = cut[i] /\ more[i - 1] = cut[i - 1]
      BY <2>2, <3>1
    <3> HIDE DEF more
    <3> QED BY <1>3, <3>1, <3>2
  <2> QED BY <2>1, <2>2
<1> HIDE DEF more
<1>10. Cuts(more, laid, n + 1, a, c)
  BY <1>5, <1>7, <1>8, <1>9 DEF Cuts
<1> QED BY <1>10 DEF Laid

LEMMA LaidOver ==
  ASSUME NEW laid, NEW over, NEW n \in Nat, NEW a \in Nat, NEW b \in Nat,
         Laid(laid, n, a, b),
         \A i \in 1 .. n : \A x, y \in Nat :
           a <= x /\ x <= y /\ y <= b /\ <<i, x, y>> \in laid => <<i, x, y>> \in over
  PROVE  Laid(over, n, a, b)
<1>1. PICK cut : Cuts(cut, laid, n, a, b)
  BY DEF Laid
<1>2. \A i \in 1 .. n : i \in 0 .. n /\ i - 1 \in 0 .. n
  OBVIOUS
<1>3. \A i \in 1 .. n : <<i, cut[i - 1], cut[i]>> \in over
  BY <1>1, <1>2 DEF Cuts
<1>4. Cuts(cut, over, n, a, b)
  BY <1>1, <1>3 DEF Cuts
<1> QED BY <1>4 DEF Laid

LEMMA LaidEnds ==
  ASSUME NEW laid, NEW n \in Nat, NEW a, NEW b, Laid(laid, n, a, b)
  PROVE  a \in Nat /\ b \in Nat /\ a <= b
<1>1. PICK cut : Cuts(cut, laid, n, a, b)
  BY DEF Laid
<1>2. 0 \in 0 .. n /\ n \in 0 .. n
  OBVIOUS
<1> QED BY <1>1, <1>2 DEF Cuts

LEMMA AgreePart ==
  ASSUME NEW c, NEW d, NEW a \in Nat, NEW b \in Nat, NEW x \in Nat, NEW y \in Nat,
         Agree(c, d, a, b), a <= x, y <= b
  PROVE  Agree(c, d, x, y)
<1>1. \A i \in Nat : x < i /\ i <= y => a < i /\ i <= b
  OBVIOUS
<1> QED BY <1>1 DEF Agree

LEMMA ElementSame ==
  ASSUME NEW c, NEW d, NEW a \in Nat, NEW b, NEW e, Agree(c, d, a, b), HoldsElement(c, a, b, e)
  PROVE  HoldsElement(d, a, b, e)
BY ElementCellsSeq, CellsSame DEF HoldsElement

LEMMA ItemSame ==
  ASSUME NEW c, NEW d, NEW a \in Nat, NEW b, NEW kind, NEW x, Agree(c, d, a, b),
         HoldsItem(c, a, b, kind, x)
  PROVE  HoldsItem(d, a, b, kind, x)
<1>1. /\ IsSeq(<<Value(x)>>)
      /\ IsSeq(<<Value(x[1]), Value(x[2])>>)
  BY FewCells
<1> QED BY <1>1, ElementSame, CellsSame DEF HoldsItem

LEMMA ManySame ==
  ASSUME NEW c, NEW d, NEW a \in Nat, NEW b \in Nat, NEW kind, NEW xs, Len(xs) \in Nat,
         Agree(c, d, a, b), HoldsMany(c, a, b, kind, xs)
  PROVE  HoldsMany(d, a, b, kind, xs)
<1>1. /\ a + 1 <= b /\ a + 1 \in Nat /\ a < a + 1 /\ c[a + 1] = <<"count", Len(xs)>>
      /\ Laid(ItemsAt(c, kind, xs), Len(xs), a + 1, b)
  BY DEF HoldsMany
<1>2. d[a + 1] = c[a + 1]
  BY <1>1 DEF Agree
<1>3. ASSUME NEW i \in 1 .. Len(xs), NEW x \in Nat, NEW y \in Nat,
             a + 1 <= x, x <= y, y <= b, <<i, x, y>> \in ItemsAt(c, kind, xs)
      PROVE  <<i, x, y>> \in ItemsAt(d, kind, xs)
  <2>1. <<i, x, y>> \in Triples /\ HoldsItem(c, x, y, kind, xs[i])
    BY <1>3 DEF ItemsAt
  <2>2. a <= x
    BY <1>3
  <2>3. Agree(c, d, x, y)
    BY <1>3, <2>2, AgreePart
  <2>4. HoldsItem(d, x, y, kind, xs[i])
    BY <2>1, <2>3, ItemSame
  <2> QED BY <2>1, <2>4 DEF ItemsAt
<1>4. Laid(ItemsAt(d, kind, xs), Len(xs), a + 1, b)
  BY <1>1, <1>3, LaidOver
<1> QED BY <1>1, <1>2, <1>4 DEF HoldsMany

LEMMA VectorSame ==
  ASSUME NEW c, NEW d, NEW a \in Nat, NEW b \in Nat, NEW kind, NEW x, Len(x[2]) \in Nat,
         Agree(c, d, a, b), HoldsVector(c, a, b, kind, x)
  PROVE  HoldsVector(d, a, b, kind, x)
<1>1. /\ a + 1 <= b /\ a + 1 \in Nat /\ a < a + 1 /\ a <= a + 1 /\ c[a + 1] = Value(x[1])
      /\ HoldsMany(c, a + 1, b, IF kind = "map" THEN "list" ELSE "values", x[2])
  BY DEF HoldsVector
<1>2. d[a + 1] = c[a + 1]
  BY <1>1 DEF Agree
<1>3. Agree(c, d, a + 1, b)
  BY <1>1, AgreePart
<1>4. HoldsMany(d, a + 1, b, IF kind = "map" THEN "list" ELSE "values", x[2])
  BY <1>1, <1>3, ManySame
<1> QED BY <1>1, <1>2, <1>4 DEF HoldsVector

LEMMA VectorsSame ==
  ASSUME NEW c, NEW d, NEW a \in Nat, NEW b \in Nat, NEW kind, NEW m, Len(m) \in Nat,
         \A i \in 1 .. Len(m) : Len(m[i][2]) \in Nat,
         Agree(c, d, a, b), HoldsVectors(c, a, b, kind, m)
  PROVE  HoldsVectors(d, a, b, kind, m)
<1>1. /\ a + 1 <= b /\ a + 1 \in Nat /\ a < a + 1 /\ c[a + 1] = <<"count", Len(m)>>
      /\ Laid(VectorsAt(c, kind, m), Len(m), a + 1, b)
  BY DEF HoldsVectors
<1>2. d[a + 1] = c[a + 1]
  BY <1>1 DEF Agree
<1>3. ASSUME NEW i \in 1 .. Len(m), NEW x \in Nat, NEW y \in Nat,
             a + 1 <= x, x <= y, y <= b, <<i, x, y>> \in VectorsAt(c, kind, m)
      PROVE  <<i, x, y>> \in VectorsAt(d, kind, m)
  <2>1. <<i, x, y>> \in Triples /\ HoldsVector(c, x, y, kind, m[i])
    BY <1>3 DEF VectorsAt
  <2>2. a <= x
    BY <1>3
  <2>3. Agree(c, d, x, y)
    BY <1>3, <2>2, AgreePart
  <2>4. HoldsVector(d, x, y, kind, m[i])
    BY <2>1, <2>3, VectorSame
  <2> QED BY <2>1, <2>4 DEF VectorsAt
<1>4. Laid(VectorsAt(d, kind, m), Len(m), a + 1, b)
  BY <1>1, <1>3, LaidOver
<1> QED BY <1>1, <1>2, <1>4 DEF HoldsVectors

\* What the callers write and have, by kind.
IsValue(kind, value) ==
  CASE kind = "element"  -> value = NoObject \/ IsElement(value)
    [] kind = "list"     -> IsList(value)
    [] kind = "map"      -> IsMap(value) /\ \A x \in Range(value) : IsList(x[2])
    [] kind = "values"   -> IsSeq(value)
    [] kind = "entries"  -> IsMap(value)
    [] kind = "multimap" -> IsEntries(value)
    [] kind = "vectors"  -> IsMap(value) /\ \A x \in Range(value) : IsSeq(x[2])
    [] OTHER -> FALSE

Kinds == {"element", "list", "map", "values", "entries", "multimap", "vectors"}

LEMMA ValueFacts ==
  ASSUME NEW kind, NEW value, IsValue(kind, value)
  PROVE  /\ kind \in Kinds
         /\ kind = "element" => value = NoObject \/ IsElement(value)
         /\ kind # "element" => IsSeq(value) /\ Len(value) \in Nat
         /\ kind = "list" => \A i \in 1 .. Len(value) : value[i] = NoObject \/ IsElement(value[i])
         /\ kind \in {"map", "entries", "multimap", "vectors"} =>
              \A i \in 1 .. Len(value) : value[i] = <<value[i][1], value[i][2]>>
         /\ kind \in {"map", "entries", "vectors"} =>
              \A i, j \in 1 .. Len(value) : value[i][1] = value[j][1] => i = j
         /\ kind = "map" => \A i \in 1 .. Len(value) : IsValue("list", value[i][2])
         /\ kind = "vectors" => \A i \in 1 .. Len(value) : IsValue("values", value[i][2])
<1>1. kind \in Kinds /\ (kind # "element" => IsSeq(value))
  BY DEF IsValue, Kinds, IsList, IsMap, IsEntries
<1>2. kind # "element" => /\ Len(value) \in Nat /\ DOMAIN value = 1 .. Len(value)
                          /\ \A i \in 1 .. Len(value) : value[i] \in Range(value)
  BY <1>1, SeqIs
<1>3. \A v : IsValue("list", v) <=> IsList(v)
  BY DEF IsValue
<1>4. \A v : IsValue("values", v) <=> IsSeq(v)
  BY DEF IsValue
<1>5. CASE kind \in {"element", "values"}
  BY <1>1, <1>2, <1>5 DEF IsValue
<1>6. CASE kind = "list"
  BY <1>1, <1>2, <1>6 DEF IsValue, IsList
<1>7. CASE kind \in {"entries", "multimap"}
  BY <1>1, <1>2, <1>7 DEF IsValue, IsMap, IsEntries
<1>8. CASE kind = "map"
  <2>1. IsMap(value) /\ \A x \in Range(value) : IsList(x[2])
    BY <1>8 DEF IsValue
  <2> QED BY <1>1, <1>2, <1>3, <1>8, <2>1 DEF IsMap, IsEntries
<1>9. CASE kind = "vectors"
  <2>1. IsMap(value) /\ \A x \in Range(value) : IsSeq(x[2])
    BY <1>9 DEF IsValue
  <2> QED BY <1>1, <1>2, <1>4, <1>9, <2>1 DEF IsMap, IsEntries
<1> QED BY <1>1, <1>5, <1>6, <1>7, <1>8, <1>9 DEF Kinds

LEMMA AnySame ==
  ASSUME NEW c, NEW d, NEW a \in Nat, NEW b \in Nat, NEW kind, NEW value, IsValue(kind, value),
         Agree(c, d, a, b), HoldsAny(c, a, b, kind, value)
  PROVE  HoldsAny(d, a, b, kind, value)
<1>1. CASE kind = "element"
  BY <1>1, ElementSame DEF HoldsAny
<1>2. CASE kind \in {"map", "vectors"}
  <2>1. \A i \in 1 .. Len(value) : IsSeq(value[i][2])
    BY <1>2, ValueFacts
  <2>2. \A i \in 1 .. Len(value) : Len(value[i][2]) \in Nat
    BY <2>1, SeqIs
  <2>3. HoldsVectors(c, a, b, kind, value) /\ Len(value) \in Nat
    BY <1>2, ValueFacts DEF HoldsAny
  <2>4. HoldsVectors(d, a, b, kind, value)
    BY <2>2, <2>3, VectorsSame
  <2> QED BY <1>2, <2>4 DEF HoldsAny
<1>3. CASE kind \notin {"element", "map", "vectors"}
  BY <1>3, ValueFacts, ManySame DEF HoldsAny
<1> QED BY <1>1, <1>2, <1>3

LEMMA ItemsOver ==
  ASSUME NEW c, NEW d, NEW a \in Nat, NEW b \in Nat, NEW kind, NEW xs, NEW n \in Nat,
         Agree(c, d, a, b), Laid(ItemsAt(c, kind, xs), n, a, b)
  PROVE  Laid(ItemsAt(d, kind, xs), n, a, b)
<1>1. ASSUME NEW i \in 1 .. n, NEW x \in Nat, NEW y \in Nat,
             a <= x, x <= y, y <= b, <<i, x, y>> \in ItemsAt(c, kind, xs)
      PROVE  <<i, x, y>> \in ItemsAt(d, kind, xs)
  <2>1. <<i, x, y>> \in Triples /\ HoldsItem(c, x, y, kind, xs[i])
    BY <1>1 DEF ItemsAt
  <2>2. Agree(c, d, x, y)
    BY <1>1, AgreePart
  <2>3. HoldsItem(d, x, y, kind, xs[i])
    BY <2>1, <2>2, ItemSame
  <2> QED BY <2>1, <2>3 DEF ItemsAt
<1> QED BY <1>1, LaidOver

LEMMA VectorsOver ==
  ASSUME NEW c, NEW d, NEW a \in Nat, NEW b \in Nat, NEW kind, NEW m, NEW n \in Nat,
         \A i \in 1 .. n : Len(m[i][2]) \in Nat,
         Agree(c, d, a, b), Laid(VectorsAt(c, kind, m), n, a, b)
  PROVE  Laid(VectorsAt(d, kind, m), n, a, b)
<1>1. ASSUME NEW i \in 1 .. n, NEW x \in Nat, NEW y \in Nat,
             a <= x, x <= y, y <= b, <<i, x, y>> \in VectorsAt(c, kind, m)
      PROVE  <<i, x, y>> \in VectorsAt(d, kind, m)
  <2>1. <<i, x, y>> \in Triples /\ HoldsVector(c, x, y, kind, m[i])
    BY <1>1 DEF VectorsAt
  <2>2. Agree(c, d, x, y)
    BY <1>1, AgreePart
  <2>3. HoldsVector(d, x, y, kind, m[i])
    BY <2>1, <2>2, VectorSame
  <2> QED BY <2>1, <2>3 DEF VectorsAt
<1> QED BY <1>1, LaidOver

LEMMA Moved ==
  ASSUME NEW q, IsWriter(q), NEW k \in Nat, k <= Len(q.cells),
         NEW p, p = [q EXCEPT !.pos = k]
  PROVE  IsWriter(p) /\ p.cells = q.cells /\ p.pos = k /\ (Ok(p) <=> Ok(q))
<1>1. q = Outcome(q.code, q.cells, q.pos) /\ IsSeq(q.cells)
  BY DEF IsWriter
<1>2. p = Outcome(q.code, q.cells, k)
  BY <1>1 DEF Outcome
<1>3. p.code = q.code /\ p.cells = q.cells /\ p.pos = k
  BY <1>2 DEF Outcome
<1> QED BY <1>1, <1>2, <1>3 DEF IsWriter, Ok

LEMMA RestoredWriter ==
  ASSUME NEW o, IsWriter(o), NEW outs, \A q \in outs : Extends(o, q),
         NEW p \in Restoring(o.pos, outs)
  PROVE  Extends(o, p) /\ (Ok(p) => p \in outs) /\ (~Ok(p) => p.pos = o.pos)
<1>1. PICK q \in outs : p = IF Ok(q) THEN q ELSE [q EXCEPT !.pos = o.pos]
  BY DEF Restoring
<1>2. Extends(o, q) /\ IsWriter(q)
  BY DEF Extends
<1>3. CASE Ok(q)
  BY <1>1, <1>2, <1>3
<1>4. CASE ~Ok(q)
  <2>1. o.pos \in Nat /\ o.pos <= Len(o.cells) /\ Len(o.cells) \in Nat
    BY SeqIs DEF IsWriter
  <2>2. Len(q.cells) \in Nat /\ Len(o.cells) <= Len(q.cells)
    BY <1>2, SeqIs DEF Extends, IsWriter
  <2>3. o.pos <= Len(q.cells)
    BY <2>1, <2>2
  <2>4. IsWriter(p) /\ p.cells = q.cells /\ p.pos = o.pos /\ ~Ok(p)
    BY <1>1, <1>2, <1>4, <2>1, <2>3, Moved
  <2> QED BY <1>2, <2>1, <2>4 DEF Extends
<1> QED BY <1>3, <1>4

LEMMA FirstCell ==
  ASSUME NEW x, NEW t, IsSeq(t)
  PROVE  /\ IsSeq(<<x>> \o t) /\ Len(<<x>> \o t) = 1 + Len(t) /\ (<<x>> \o t)[1] = x
         /\ \A i \in 1 .. Len(t) : (<<x>> \o t)[1 + i] = t[i]
<1> DEFINE h == <<x>>
<1>1. IsSeq(h) /\ Len(h) = 1 /\ h[1] = x
  BY FewCells, Zenon
<1> HIDE DEF h
<1>2. IsSeq(h \o t) /\ Len(h \o t) = Len(h) + Len(t)
  BY <1>1, ConcatSeq, Zenon
<1>3. \A i \in 1 .. Len(h) : (h \o t)[i] = h[i]
  BY <1>1, ConcatSeq, Zenon
<1> IsSeq(h)
  BY <1>1
<1>4. \A i \in 1 .. Len(t) : (h \o t)[Len(h) + i] = t[i]
  BY ConcatSeq
<1>5. 1 \in 1 .. 1
  OBVIOUS
<1>6. (h \o t)[1] = x
  BY <1>1, <1>3, <1>5, Zenon
<1>7. \A i \in 1 .. Len(t) : (h \o t)[1 + i] = t[i]
  BY <1>1, <1>4, Zenon
<1>8. Len(h \o t) = 1 + Len(t)
  BY <1>1, <1>2, Zenon
<1> QED BY <1>2, <1>6, <1>7, <1>8, Zenon DEF h

LEMMA ValuesWritten ==
  ASSUME NEW o, IsWriter(o), Ok(o), NEW xs, IsSeq(xs), NEW p \in WriteValues(o, xs)
  PROVE  Extends(o, p) /\ (Ok(p) => HoldsMany(p.cells, o.pos, p.pos, "values", xs))
<1>1. PICK n, k : n = Len(xs) /\ k = o.pos
  OBVIOUS
<1>2. n \in Nat /\ k \in Nat /\ DOMAIN xs = 1 .. n
  BY <1>1, SeqIs DEF IsWriter
<1> DEFINE vs == [i \in 1 .. n |-> Value(xs[i])]
           cs == <<<<"count", n>>>> \o vs
<1>3. vs = [i \in 1 .. n |-> vs[i]] /\ \A i \in 1 .. n : vs[i] = Value(xs[i])
  OBVIOUS
<1>4. p \in WriteCells(o, cs)
  BY <1>1, <1>2 DEF WriteValues
<1> HIDE DEF vs
<1>5. IsSeq(vs) /\ Len(vs) = n
  BY <1>2, <1>3, MadeSeq
<1>6. /\ IsSeq(cs) /\ Len(cs) = 1 + n /\ cs[1] = <<"count", n>>
      /\ \A i \in 1 .. n : cs[1 + i] = Value(xs[i])
  <2>1. PICK first : first = <<"count", n>>
    OBVIOUS
  <2>2. cs = <<first>> \o vs
    BY <2>1
  <2> HIDE DEF cs
  <2>3. IsSeq(cs) /\ Len(cs) = 1 + Len(vs) /\ cs[1] = first
    BY <1>5, <2>2, FirstCell, Zenon
  <2>4. IsSeq(vs)
    BY <1>5
  <2>5. \A i \in 1 .. Len(vs) : (<<first>> \o vs)[1 + i] = vs[i]
    BY <2>4, FirstCell
  <2>6. \A i \in 1 .. Len(vs) : cs[1 + i] = vs[i]
    BY <2>2, <2>5, Zenon
  <2> QED BY <1>3, <1>5, <2>1, <2>3, <2>6
<1> HIDE DEF cs
<1>7. Extends(o, p) /\ (Ok(p) => HoldsCells(p.cells, k, p.pos, cs))
  BY <1>1, <1>4, <1>6, CellsLaid
<1>8. ASSUME Ok(p) PROVE HoldsMany(p.cells, k, p.pos, "values", xs)
  <2> DEFINE d == p.cells
             cut == [i \in 0 .. n |-> k + 1 + i]
             laid == ItemsAt(d, "values", xs)
  <2>1. p.pos = k + (1 + n) /\ \A i \in 1 .. 1 + n : d[k + i] = cs[i]
    BY <1>6, <1>7, <1>8 DEF HoldsCells
  <2>2. 1 \in 1 .. 1 + n
    BY <1>2
  <2>3. k + 1 <= p.pos /\ d[k + 1] = <<"count", n>>
    BY <1>2, <1>6, <2>1, <2>2
  <2>4. ASSUME NEW i \in 1 .. n
        PROVE  cut[i - 1] <= cut[i] /\ <<i, cut[i - 1], cut[i]>> \in laid
    <3>1. i - 1 \in 0 .. n /\ i \in 0 .. n /\ 1 + i \in 1 .. 1 + n
      BY <1>2
    <3>2. cut[i - 1] = k + i /\ cut[i] = (k + i) + 1
      BY <1>2, <3>1
    <3>3. d[k + (1 + i)] = Value(xs[i]) /\ k + (1 + i) = (k + i) + 1
      BY <1>2, <1>6, <2>1, <3>1
    <3>4. HoldsCells(d, k + i, (k + i) + 1, <<Value(xs[i])>>)
      <4>1. \A j \in 1 .. 1 : j = 1
        OBVIOUS
      <4> QED BY <3>3, <4>1, FewCells DEF HoldsCells
    <3>5. <<i, k + i, (k + i) + 1>> \in Triples
      BY <1>2 DEF Triples
    <3>6. <<i, k + i, (k + i) + 1>> \in laid
      BY <3>4, <3>5 DEF ItemsAt, HoldsItem
    <3>7. k + i <= (k + i) + 1
      BY <1>2
    <3> QED BY <3>2, <3>6, <3>7
  <2>5. /\ cut \in [0 .. n -> Nat] /\ cut[0] = k + 1 /\ cut[n] = p.pos
        /\ \A i \in 0 .. n : k + 1 <= cut[i] /\ cut[i] <= p.pos
    BY <1>2, <2>1
  <2> HIDE DEF cut, laid
  <2>6. Cuts(cut, laid, n, k + 1, p.pos)
    BY <2>4, <2>5 DEF Cuts
  <2>7. Laid(laid, n, k + 1, p.pos)
    BY <2>6 DEF Laid
  <2> QED BY <1>1, <2>3, <2>7 DEF HoldsMany, laid
<1> QED BY <1>1, <1>7, <1>8

LEMMA EntriesWritten ==
  ASSUME NEW o, IsWriter(o), Ok(o), NEW xs, IsSeq(xs), NEW p \in WriteEntries(o, xs),
         NEW kind \in {"entries", "multimap"}
  PROVE  Extends(o, p) /\ (Ok(p) => HoldsMany(p.cells, o.pos, p.pos, kind, xs))
<1>1. PICK n, k : n = Len(xs) /\ k = o.pos
  OBVIOUS
<1>2. n \in Nat /\ k \in Nat /\ 2 * n \in Nat
  BY <1>1, SeqIs DEF IsWriter
<1> DEFINE vs == [i \in 1 .. 2 * n |-> Value(xs[(i + 1) \div 2][2 - (i % 2)])]
           cs == <<<<"count", n>>>> \o vs
<1>3. /\ vs = [i \in 1 .. 2 * n |-> vs[i]]
      /\ \A i \in 1 .. 2 * n : vs[i] = Value(xs[(i + 1) \div 2][2 - (i % 2)])
  OBVIOUS
<1>4. p \in WriteCells(o, cs)
  BY <1>1 DEF WriteEntries
<1> HIDE DEF vs
<1>5. IsSeq(vs) /\ Len(vs) = 2 * n
  BY <1>2, <1>3, MadeSeq
<1>6. /\ IsSeq(cs) /\ Len(cs) = 1 + 2 * n /\ cs[1] = <<"count", n>>
      /\ \A i \in 1 .. 2 * n : cs[1 + i] = vs[i]
  <2>1. PICK first : first = <<"count", n>>
    OBVIOUS
  <2>2. cs = <<first>> \o vs
    BY <2>1
  <2> HIDE DEF cs
  <2>3. IsSeq(cs) /\ Len(cs) = 1 + Len(vs) /\ cs[1] = first
    BY <1>5, <2>2, FirstCell, Zenon
  <2>4. IsSeq(vs)
    BY <1>5
  <2>5. \A i \in 1 .. Len(vs) : (<<first>> \o vs)[1 + i] = vs[i]
    BY <2>4, FirstCell
  <2>6. \A i \in 1 .. Len(vs) : cs[1 + i] = vs[i]
    BY <2>2, <2>5, Zenon
  <2> QED BY <1>5, <2>1, <2>3, <2>6
<1>7. ASSUME NEW i \in 1 .. n
      PROVE  cs[1 + (2 * i - 1)] = Value(xs[i][1]) /\ cs[1 + 2 * i] = Value(xs[i][2])
  <2>1. 2 * i - 1 \in 1 .. 2 * n /\ 2 * i \in 1 .. 2 * n
    BY <1>2
  <2>2. PICK j, l : j = 2 * i - 1 /\ l = 2 * i
    OBVIOUS
  <2>3. /\ (j + 1) \div 2 = i /\ 2 - (j % 2) = 1
        /\ (l + 1) \div 2 = i /\ 2 - (l % 2) = 2
    BY <2>2
  <2>4. vs[j] = Value(xs[i][1])
    BY <1>3, <2>1, <2>2, <2>3
  <2>5. vs[l] = Value(xs[i][2])
    BY <1>3, <2>1, <2>2, <2>3
  <2> QED BY <1>6, <2>1, <2>2, <2>4, <2>5
<1> HIDE DEF cs
<1>8. Extends(o, p) /\ (Ok(p) => HoldsCells(p.cells, k, p.pos, cs))
  BY <1>1, <1>4, <1>6, CellsLaid
<1>9. ASSUME Ok(p) PROVE HoldsMany(p.cells, k, p.pos, kind, xs)
  <2> DEFINE d == p.cells
             cut == [i \in 0 .. n |-> k + 1 + 2 * i]
             laid == ItemsAt(d, kind, xs)
  <2>1. p.pos = k + (1 + 2 * n) /\ \A i \in 1 .. 1 + 2 * n : d[k + i] = cs[i]
    BY <1>6, <1>8, <1>9 DEF HoldsCells
  <2>2. 1 \in 1 .. 1 + 2 * n
    BY <1>2
  <2>3. k + 1 <= p.pos /\ d[k + 1] = <<"count", n>>
    BY <1>2, <1>6, <2>1, <2>2
  <2>4. ASSUME NEW i \in 1 .. n
        PROVE  cut[i - 1] <= cut[i] /\ <<i, cut[i - 1], cut[i]>> \in laid
    <3> DEFINE a == k + (2 * i - 1)
    <3>1. /\ i - 1 \in 0 .. n /\ i \in 0 .. n
          /\ 1 + (2 * i - 1) \in 1 .. 1 + 2 * n /\ 1 + 2 * i \in 1 .. 1 + 2 * n
      BY <1>2
    <3>2. cut[i - 1] = a /\ cut[i] = a + 2 /\ a \in Nat /\ a + 2 \in Nat /\ i \in Nat
      BY <1>2, <3>1
    <3>3. k + (1 + (2 * i - 1)) = a + 1 /\ k + (1 + 2 * i) = a + 2
      BY <1>2
    <3>4. d[a + 1] = Value(xs[i][1]) /\ d[a + 2] = Value(xs[i][2])
      BY <1>7, <2>1, <3>1, <3>3
    <3> HIDE DEF a
    <3>5. HoldsCells(d, a, a + 2, <<Value(xs[i][1]), Value(xs[i][2])>>)
      <4>1. \A j \in 1 .. 2 : j = 1 \/ j = 2
        OBVIOUS
      <4> QED BY <3>4, <4>1, FewCells DEF HoldsCells
    <3>6. <<i, a, a + 2>> \in Triples
      BY <3>2 DEF Triples
    <3>7. <<i, a, a + 2>> \in laid
      BY <3>5, <3>6 DEF ItemsAt, HoldsItem
    <3>8. a <= a + 2
      BY <3>2
    <3> QED BY <3>2, <3>7, <3>8
  <2>5. /\ cut \in [0 .. n -> Nat] /\ cut[0] = k + 1 /\ cut[n] = p.pos
        /\ \A i \in 0 .. n : k + 1 <= cut[i] /\ cut[i] <= p.pos
    BY <1>2, <2>1
  <2> HIDE DEF cut, laid
  <2>6. Cuts(cut, laid, n, k + 1, p.pos)
    BY <2>4, <2>5 DEF Cuts
  <2>7. Laid(laid, n, k + 1, p.pos)
    BY <2>6 DEF Laid
  <2> QED BY <1>1, <2>3, <2>7 DEF HoldsMany, laid
<1> QED BY <1>1, <1>8, <1>9

LEMMA ElementsLaid ==
  ASSUME NEW o, IsWriter(o), NEW outs, NEW xs, IsSeq(xs), NEW p \in WriteElements(outs, xs),
         \A q \in outs : Extends(o, q) /\ (Ok(q) => q.pos = o.pos + 1)
  PROVE  /\ Extends(o, p)
         /\ Ok(p) => /\ o.pos + 1 <= p.pos
                     /\ Laid(ItemsAt(p.cells, "list", xs), Len(xs), o.pos + 1, p.pos)
<1>1. PICK n, k : n = Len(xs) /\ k = o.pos + 1
  OBVIOUS
<1>2. n \in Nat /\ k \in Nat
  BY <1>1, SeqIs DEF IsWriter
<1>3. PICK f : /\ WriteElements(outs, xs) = f[n] /\ f[0] = outs
               /\ \A i \in 1 .. n : f[i] = WriteListed(f[i - 1], xs[i])
  BY <1>1, ElementsWritten
<1> DEFINE P(i) == \A q \in f[i] :
                     /\ Extends(o, q)
                     /\ Ok(q) => Laid(ItemsAt(q.cells, "list", xs), i, k, q.pos)
           S == {i \in Nat : i <= n => P(i)}
<1>4. 0 \in S
  BY <1>1, <1>2, <1>3, LaidNone
<1>5. ASSUME NEW i \in Nat, i \in S PROVE i + 1 \in S
  <2> SUFFICES ASSUME i + 1 <= n, NEW q \in f[i + 1]
               PROVE  /\ Extends(o, q)
                      /\ Ok(q) => Laid(ItemsAt(q.cells, "list", xs), i + 1, k, q.pos)
    OBVIOUS
  <2>1. P(i)
    BY <1>2, <1>5
  <2>2. i + 1 \in 1 .. n /\ (i + 1) - 1 = i /\ i + 1 \in Nat
    BY <1>2
  <2>3. q \in WriteListed(f[i], xs[i + 1])
    BY <1>3, <2>2
  <2>4. CASE q \in f[i] /\ ~Ok(q)
    BY <2>1, <2>4
  <2>5. ASSUME NEW r \in f[i], Ok(r), q \in writeMonitorElement(r, xs[i + 1])
        PROVE  /\ Extends(o, q)
               /\ Ok(q) => Laid(ItemsAt(q.cells, "list", xs), i + 1, k, q.pos)
    <3>1. /\ Extends(o, r) /\ IsWriter(r)
          /\ Laid(ItemsAt(r.cells, "list", xs), i, k, r.pos)
      BY <2>1, <2>5 DEF Extends
    <3>2. Extends(r, q) /\ (Ok(q) => HoldsElement(q.cells, r.pos, q.pos, xs[i + 1]))
      BY <2>5, <3>1, ElementWritten
    <3>3. Extends(o, q)
      BY <3>1, <3>2, ExtendsMore
    <3>4. ASSUME Ok(q) PROVE Laid(ItemsAt(q.cells, "list", xs), i + 1, k, q.pos)
      <4> DEFINE laid == ItemsAt(q.cells, "list", xs)
      <4>1. r.pos \in Nat /\ q.pos \in Nat /\ r.pos <= q.pos /\ Agree(r.cells, q.cells, 0, r.pos)
        BY <3>1, <3>2 DEF Extends, IsWriter
      <4>2. Agree(r.cells, q.cells, k, r.pos)
        BY <1>2, <4>1, AgreePart
      <4>3. Laid(laid, i, k, r.pos)
        BY <1>2, <3>1, <4>1, <4>2, ItemsOver
      <4>4. <<i + 1, r.pos, q.pos>> \in laid
        BY <2>2, <3>2, <3>4, <4>1 DEF ItemsAt, Triples, HoldsItem
      <4> HIDE DEF laid
      <4> QED BY <1>2, <4>1, <4>3, <4>4, LaidMore DEF laid
    <3> QED BY <3>3, <3>4
  <2> QED BY <2>3, <2>4, <2>5, ListedIs
<1> HIDE DEF S
<1>6. n \in S
  BY <1>2, <1>4, <1>5, Induction
<1>7. P(n)
  BY <1>2, <1>6 DEF S
<1>8. Extends(o, p) /\ (Ok(p) => Laid(ItemsAt(p.cells, "list", xs), n, k, p.pos))
  BY <1>3, <1>7
<1>9. Ok(p) => k <= p.pos
  BY <1>2, <1>8, LaidEnds
<1> QED BY <1>1, <1>8, <1>9

LEMMA LeqTrans ==
  ASSUME NEW a \in Nat, NEW b \in Nat, NEW c \in Nat, a <= b, b <= c
  PROVE  a <= c
OBVIOUS

LEMMA ListWritten ==
  ASSUME NEW o, IsWriter(o), Ok(o), NEW xs, IsSeq(xs), NEW p \in WriteList(o, xs)
  PROVE  /\ Extends(o, p)
         /\ Ok(p) => HoldsMany(p.cells, o.pos, p.pos, "list", xs)
         /\ ~Ok(p) => p.pos = o.pos
<1> DEFINE count == <<"count", Len(xs)>>
           kept == WriteCell(o, <<"count", 0>>)
           laid == WriteElements(kept, xs)
           Back(q) == [q EXCEPT !.pos = o.pos]
           Counted(q) == Then(WriteCell(Back(q), count), LAMBDA r : {[r EXCEPT !.pos = q.pos]})
           all == Then(laid, Counted)
<1>1. p \in Restoring(o.pos, all)
  BY DEF WriteList
<1>2. o.pos \in Nat /\ o.pos <= Len(o.cells) /\ Len(o.cells) \in Nat
  BY SeqIs DEF IsWriter
<1>3. \A q \in kept : Extends(o, q) /\ (Ok(q) => q.pos = o.pos + 1)
  BY CellWritten
<1> HIDE DEF kept
<1>4. \A q \in laid : /\ Extends(o, q)
                      /\ Ok(q) => /\ o.pos + 1 <= q.pos
                                  /\ Laid(ItemsAt(q.cells, "list", xs), Len(xs), o.pos + 1, q.pos)
  BY <1>3, ElementsLaid
<1>5. \A q, r : r \in Counted(q) <=>
        \/ r \in WriteCell(Back(q), count) /\ ~Ok(r)
        \/ \E s \in WriteCell(Back(q), count) : Ok(s) /\ r = [s EXCEPT !.pos = q.pos]
  BY DEF Then
<1> HIDE DEF laid, Counted
<1>6. \A r : r \in all <=> \/ r \in laid /\ ~Ok(r)
                        \/ \E q \in laid : Ok(q) /\ r \in Counted(q)
  BY DEF Then
<1> HIDE DEF all, count
<1>7. ASSUME NEW r \in all
      PROVE  Extends(o, r) /\ (Ok(r) => HoldsMany(r.cells, o.pos, r.pos, "list", xs))
  <2>1. CASE r \in laid /\ ~Ok(r)
    BY <1>4, <2>1
  <2>2. ASSUME NEW q \in laid, Ok(q), r \in Counted(q)
        PROVE  Extends(o, r) /\ (Ok(r) => HoldsMany(r.cells, o.pos, r.pos, "list", xs))
    <3>1. /\ Extends(o, q) /\ IsWriter(q) /\ o.pos + 1 <= q.pos
          /\ Laid(ItemsAt(q.cells, "list", xs), Len(xs), o.pos + 1, q.pos)
      BY <1>4, <2>2 DEF Extends
    <3>2. PICK back : back = Back(q)
      OBVIOUS
    <3>3. /\ Len(q.cells) \in Nat /\ q.pos \in Nat /\ q.pos <= Len(q.cells)
          /\ Len(o.cells) <= Len(q.cells)
      BY <3>1, SeqIs DEF IsWriter, Extends
    <3>4. o.pos <= Len(q.cells)
      BY <1>2, <3>3, LeqTrans, Zenon
    <3>5. IsWriter(back) /\ back.cells = q.cells /\ back.pos = o.pos /\ (Ok(back) <=> Ok(q))
      BY <1>2, <3>1, <3>2, <3>4, Moved
    <3>6. Extends(o, back)
      <4>1. o.pos <= o.pos /\ Agree(o.cells, q.cells, 0, o.pos)
        BY <1>2, <3>1 DEF Extends
      <4> QED BY <3>3, <3>5, <4>1, Zenon DEF Extends
    <3>7. \/ r \in WriteCell(back, count) /\ ~Ok(r)
          \/ \E s \in WriteCell(back, count) : Ok(s) /\ r = [s EXCEPT !.pos = q.pos]
      BY <1>5, <2>2, <3>2
    <3>8. ASSUME r \in WriteCell(back, count), ~Ok(r) PROVE Extends(o, r)
      BY <3>5, <3>6, <3>8, CellWritten, ExtendsMore
    <3>9. ASSUME NEW s \in WriteCell(back, count), Ok(s), r = [s EXCEPT !.pos = q.pos]
          PROVE  Extends(o, r) /\ HoldsMany(r.cells, o.pos, r.pos, "list", xs)
      <4>1. /\ Extends(back, s) /\ s.cells[o.pos + 1] = count
            /\ \A i \in Nat : 0 < i /\ i <= Len(q.cells) /\ i # o.pos + 1 => s.cells[i] = q.cells[i]
        BY <3>5, <3>9, CellWritten
      <4>2. Extends(o, s) /\ IsWriter(s) /\ Len(q.cells) <= Len(s.cells) /\ Len(s.cells) \in Nat
        BY <3>5, <3>6, <4>1, ExtendsMore, SeqIs DEF Extends, IsWriter
      <4>3. q.pos <= Len(s.cells)
        BY <3>3, <4>2, LeqTrans, Zenon
      <4>4. IsWriter(r) /\ r.cells = s.cells /\ r.pos = q.pos
        BY <3>3, <3>9, <4>2, <4>3, Moved
      <4>5. o.pos <= q.pos
        BY <3>1 DEF Extends
      <4>6. Extends(o, r)
        BY <4>2, <4>4, <4>5 DEF Extends
      <4>7. Agree(q.cells, r.cells, o.pos + 1, q.pos)
        <5>1. \A i \in Nat : o.pos + 1 < i => 0 < i /\ i # o.pos + 1
          BY <1>2
        <5>2. \A i \in Nat : i <= q.pos => i <= Len(q.cells)
          BY <3>3, LeqTrans, Zenon
        <5> QED BY <4>1, <4>4, <5>1, <5>2 DEF Agree
      <4>8. Len(xs) \in Nat
        BY SeqIs
      <4>9. o.pos + 1 \in Nat
        BY <1>2
      <4>10. Laid(ItemsAt(r.cells, "list", xs), Len(xs), o.pos + 1, q.pos)
        BY <3>1, <3>3, <4>7, <4>8, <4>9, ItemsOver
      <4> QED BY <3>1, <4>1, <4>4, <4>6, <4>10 DEF HoldsMany, count
    <3> QED BY <3>7, <3>8, <3>9
  <2> QED BY <1>6, <2>1, <2>2
<1> QED BY <1>1, <1>7, RestoredWriter

LEMMA VectorLaid ==
  ASSUME NEW r, IsWriter(r), Ok(r), NEW kind, NEW x, IsSeq(x[2]),
         NEW s \in WriteCell(r, Value(x[1])), Ok(s), NEW q,
         \/ q \in WriteList(s, x[2]) /\ kind = "map"
         \/ q \in WriteValues(s, x[2]) /\ kind # "map"
  PROVE  Extends(r, q) /\ (Ok(q) => HoldsVector(q.cells, r.pos, q.pos, kind, x))
<1>1. Extends(r, s) /\ IsWriter(s) /\ s.pos = r.pos + 1 /\ s.cells[r.pos + 1] = Value(x[1])
  BY CellWritten DEF Extends
<1> DEFINE inner == IF kind = "map" THEN "list" ELSE "values"
<1>2. Extends(s, q) /\ (Ok(q) => HoldsMany(q.cells, s.pos, q.pos, inner, x[2]))
  BY <1>1, ListWritten, ValuesWritten
<1>3. Extends(r, q)
  BY <1>1, <1>2, ExtendsMore
<1>4. r.pos \in Nat /\ r.pos + 1 \in Nat /\ 0 < r.pos + 1 /\ r.pos + 1 <= s.pos /\ s.pos <= q.pos
  BY <1>1, <1>2 DEF IsWriter, Extends
<1>5. q.cells[r.pos + 1] = Value(x[1])
  BY <1>1, <1>2, <1>4 DEF Extends, Agree
<1>6. r.pos + 1 <= q.pos
  BY <1>1, <1>4
<1> QED BY <1>1, <1>2, <1>3, <1>5, <1>6 DEF HoldsVector

LEMMA VectorFrom ==
  ASSUME NEW outs, NEW kind, NEW x, NEW q \in WriteVector(outs, kind, x)
  PROVE  \/ q \in outs /\ ~Ok(q)
         \/ \E r \in outs : Ok(r) /\ q \in WriteCell(r, Value(x[1])) /\ ~Ok(q)
         \/ \E r \in outs : /\ Ok(r)
                            /\ \E s \in WriteCell(r, Value(x[1])) :
                                 /\ Ok(s)
                                 /\ \/ q \in WriteList(s, x[2]) /\ kind = "map"
                                    \/ q \in WriteValues(s, x[2]) /\ kind # "map"
<1> DEFINE keyed == WriteNext(outs, Value(x[1]))
<1>1. \/ q \in keyed /\ ~Ok(q)
      \/ \E s \in keyed : Ok(s) /\ \/ q \in WriteList(s, x[2]) /\ kind = "map"
                                   \/ q \in WriteValues(s, x[2]) /\ kind # "map"
  BY VectorIs
<1>2. \A s : s \in keyed <=> \/ s \in outs /\ ~Ok(s)
                             \/ \E r \in outs : Ok(r) /\ s \in WriteCell(r, Value(x[1]))
  BY NextIs
<1> HIDE DEF keyed
<1> QED BY <1>1, <1>2

LEMMA VectorsLaid ==
  ASSUME NEW o, IsWriter(o), Ok(o), NEW kind \in {"map", "vectors"}, NEW m,
         IsValue(kind, m), NEW p \in WriteVectors(o, kind, m)
  PROVE  Extends(o, p) /\ (Ok(p) => HoldsVectors(p.cells, o.pos, p.pos, kind, m))
<1>1. PICK n, k, count : n = Len(m) /\ k = o.pos + 1 /\ count = <<"count", Len(m)>>
  OBVIOUS
<1>2. IsSeq(m) /\ n \in Nat /\ k \in Nat /\ 0 < k
  BY <1>1, ValueFacts DEF IsWriter
<1>3. \A i \in 1 .. n : IsSeq(m[i][2]) /\ Len(m[i][2]) \in Nat
  <2>1. \A v : (IsValue("list", v) => IsSeq(v)) /\ (IsValue("values", v) => IsSeq(v))
    BY DEF IsValue, IsList
  <2>2. \A i \in 1 .. n : IsSeq(m[i][2])
    BY <1>1, <2>1, ValueFacts
  <2> QED BY <2>2, SeqIs
<1>4. PICK f : /\ WriteVectors(o, kind, m) = f[n] /\ f[0] = WriteCell(o, count)
               /\ \A i \in 1 .. n : f[i] = WriteVector(f[i - 1], kind, m[i])
  BY <1>1, <1>2, VectorsWritten
<1> DEFINE P(i) == \A q \in f[i] :
                     /\ Extends(o, q)
                     /\ Ok(q) => /\ q.cells[k] = count
                                 /\ Laid(VectorsAt(q.cells, kind, m), i, k, q.pos)
           S == {i \in Nat : i <= n => P(i)}
<1>5. 0 \in S
  <2>1. \A q \in f[0] : Extends(o, q) /\ (Ok(q) => q.pos = k /\ q.cells[k] = count)
    BY <1>1, <1>4, CellWritten
  <2> QED BY <1>2, <2>1, LaidNone
<1>6. ASSUME NEW i \in Nat, i \in S PROVE i + 1 \in S
  <2> SUFFICES ASSUME i + 1 <= n, NEW q \in f[i + 1]
               PROVE  /\ Extends(o, q)
                      /\ Ok(q) => /\ q.cells[k] = count
                                  /\ Laid(VectorsAt(q.cells, kind, m), i + 1, k, q.pos)
    OBVIOUS
  <2>1. P(i)
    BY <1>2, <1>6
  <2>2. i + 1 \in 1 .. n /\ (i + 1) - 1 = i /\ i + 1 \in Nat
    BY <1>2
  <2>3. q \in WriteVector(f[i], kind, m[i + 1])
    BY <1>4, <2>2
  <2>4. CASE q \in f[i] /\ ~Ok(q)
    BY <2>1, <2>4
  <2>5. ASSUME NEW r \in f[i], Ok(r), q \in WriteCell(r, Value(m[i + 1][1])), ~Ok(q)
        PROVE  Extends(o, q)
    <3>1. Extends(o, r) /\ IsWriter(r)
      BY <2>1 DEF Extends
    <3>2. Extends(r, q)
      BY <2>5, <3>1, CellWritten
    <3> QED BY <3>1, <3>2, ExtendsMore
  <2>6. ASSUME NEW r \in f[i], Ok(r), NEW s \in WriteCell(r, Value(m[i + 1][1])), Ok(s),
               \/ q \in WriteList(s, m[i + 1][2]) /\ kind = "map"
               \/ q \in WriteValues(s, m[i + 1][2]) /\ kind # "map"
        PROVE  /\ Extends(o, q)
               /\ Ok(q) => /\ q.cells[k] = count
                           /\ Laid(VectorsAt(q.cells, kind, m), i + 1, k, q.pos)
    <3>1. /\ Extends(o, r) /\ IsWriter(r) /\ r.cells[k] = count
          /\ Laid(VectorsAt(r.cells, kind, m), i, k, r.pos)
      BY <2>1, <2>6 DEF Extends
    <3>2. Extends(r, q) /\ (Ok(q) => HoldsVector(q.cells, r.pos, q.pos, kind, m[i + 1]))
      BY <1>3, <2>2, <2>6, <3>1, VectorLaid
    <3>3. Extends(o, q)
      BY <3>1, <3>2, ExtendsMore
    <3>4. ASSUME Ok(q)
          PROVE  /\ q.cells[k] = count
                 /\ Laid(VectorsAt(q.cells, kind, m), i + 1, k, q.pos)
      <4> DEFINE laid == VectorsAt(q.cells, kind, m)
      <4>1. r.pos \in Nat /\ q.pos \in Nat /\ r.pos <= q.pos /\ Agree(r.cells, q.cells, 0, r.pos)
        BY <3>1, <3>2 DEF Extends, IsWriter
      <4>2. Agree(r.cells, q.cells, k, r.pos)
        BY <1>2, <4>1, AgreePart
      <4>3. k <= r.pos
        BY <3>1, LaidEnds
      <4>4. q.cells[k] = count
        BY <1>2, <3>1, <4>1, <4>3 DEF Agree
      <4>5. \A j \in 1 .. i : Len(m[j][2]) \in Nat
        BY <1>2, <1>3
      <4>6. Laid(laid, i, k, r.pos)
        BY <1>2, <3>1, <4>1, <4>2, <4>5, VectorsOver
      <4>7. <<i + 1, r.pos, q.pos>> \in laid
        BY <2>2, <3>2, <3>4, <4>1 DEF VectorsAt, Triples
      <4> HIDE DEF laid
      <4>8. Laid(laid, i + 1, k, q.pos)
        BY <1>2, <4>1, <4>6, <4>7, LaidMore
      <4> QED BY <4>4, <4>8 DEF laid
    <3> QED BY <3>3, <3>4
  <2> QED BY <2>3, <2>4, <2>5, <2>6, VectorFrom
<1> HIDE DEF S
<1>7. n \in S
  BY <1>2, <1>5, <1>6, Induction
<1>8. P(n)
  BY <1>2, <1>7 DEF S
<1>9. /\ Extends(o, p)
      /\ Ok(p) => p.cells[k] = count /\ Laid(VectorsAt(p.cells, kind, m), n, k, p.pos)
  BY <1>4, <1>8
<1>10. Ok(p) => k <= p.pos
  BY <1>2, <1>9, LaidEnds
<1> QED BY <1>1, <1>9, <1>10 DEF HoldsVectors

\* A record that is written completely is on the device from where the writing
\* began to where it ends, over nothing that was there before; a failed write of
\* elements goes back.
LEMMA AnyLaid ==
  ASSUME NEW o, IsWriter(o), Ok(o), NEW rec, IsValue(rec.kind, rec.value),
         NEW p \in WriteAny(o, rec)
  PROVE  Extends(o, p) /\ (Ok(p) => HoldsAny(p.cells, o.pos, p.pos, rec.kind, rec.value))
<1>1. CASE rec.kind = "element"
  <2>1. p \in writeMonitorElement(o, rec.value)
    BY <1>1 DEF WriteAny
  <2> QED BY <1>1, <2>1, ElementWritten DEF HoldsAny
<1>2. CASE rec.kind = "list"
  <2>1. p \in WriteList(o, rec.value) /\ IsSeq(rec.value)
    BY <1>2, ValueFacts DEF WriteAny
  <2> QED BY <1>2, <2>1, ListWritten DEF HoldsAny
<1>3. CASE rec.kind = "map"
  <2> DEFINE outs == WriteVectors(o, "map", rec.value)
  <2>1. \A q \in outs : Extends(o, q) /\ (Ok(q) => HoldsVectors(q.cells, o.pos, q.pos, "map", rec.value))
    BY <1>3, VectorsLaid
  <2>2. p \in Restoring(o.pos, outs)
    BY <1>3 DEF WriteAny
  <2> HIDE DEF outs
  <2> QED BY <1>3, <2>1, <2>2, RestoredWriter DEF HoldsAny
<1>4. CASE rec.kind = "values"
  <2>1. p \in WriteValues(o, rec.value) /\ IsSeq(rec.value)
    BY <1>4, ValueFacts DEF WriteAny
  <2> QED BY <1>4, <2>1, ValuesWritten DEF HoldsAny
<1>5. CASE rec.kind = "vectors"
  <2>1. p \in WriteVectors(o, "vectors", rec.value)
    BY <1>5 DEF WriteAny
  <2> QED BY <1>5, <2>1, VectorsLaid DEF HoldsAny
<1>6. CASE rec.kind \in {"entries", "multimap"}
  <2>1. p \in WriteEntries(o, rec.value) /\ IsSeq(rec.value)
    BY <1>6, ValueFacts DEF WriteAny
  <2> QED BY <1>6, <2>1, EntriesWritten DEF HoldsAny
<1> QED BY <1>1, <1>2, <1>3, <1>4, <1>5, <1>6, ValueFacts DEF Kinds

(***************************************************************************)
(* ElementStream: what a read gives.                                       *)
(***************************************************************************)
IsReader(r) ==
  /\ r = [code |-> r.code, cells |-> r.cells, pos |-> r.pos, limit |-> r.limit, got |-> r.got]
  /\ r.pos \in Nat

\* The same device, a while later.
Reads(r, q) == IsReader(q) /\ q.cells = r.cells

LEMMA CellRead ==
  ASSUME NEW r, IsReader(r), NEW q, q = ReadCell(r)
  PROVE  /\ Reads(r, q) /\ q.got = r.got
         /\ Ok(q) => Ok(r) /\ q.pos = r.pos + 1 /\ Given(q) = r.cells[r.pos + 1][2]
<1>1. CASE ~Ok(r)
  BY <1>1 DEF ReadCell, Reads
<1>2. CASE Ok(r) /\ r.pos < r.limit
  <2>1. q = [r EXCEPT !.pos = r.pos + 1]
    BY <1>2 DEF ReadCell
  <2>2. q = [code |-> r.code, cells |-> r.cells, pos |-> r.pos + 1, limit |-> r.limit, got |-> r.got]
    BY <2>1 DEF IsReader
  <2>3. r.pos + 1 \in Nat
    BY DEF IsReader
  <2> QED BY <1>2, <2>2, <2>3 DEF Reads, IsReader, Given
<1>3. CASE Ok(r) /\ ~(r.pos < r.limit)
  <2>1. q = [r EXCEPT !.code = "FAILURE"]
    BY <1>3 DEF ReadCell
  <2>2. q = [code |-> "FAILURE", cells |-> r.cells, pos |-> r.pos, limit |-> r.limit, got |-> r.got]
    BY <2>1 DEF IsReader
  <2> QED BY <2>2 DEF Reads, IsReader, Ok
<1> QED BY <1>1, <1>2, <1>3

LEMMA GotIs ==
  ASSUME NEW r, IsReader(r), NEW g, NEW q, q = [r EXCEPT !.got = g]
  PROVE  /\ Reads(r, q) /\ q.pos = r.pos /\ q.got = g /\ (Ok(q) <=> Ok(r))
         /\ Given(q) = Given(r)
<1>1. q = [code |-> r.code, cells |-> r.cells, pos |-> r.pos, limit |-> r.limit, got |-> g]
  BY DEF IsReader
<1> QED BY <1>1 DEF IsReader, Reads, Ok, Given

LEMMA RestoredReader ==
  ASSUME NEW r, IsReader(r), NEW pos \in Nat, NEW q, q = RestoringReader(pos, r)
  PROVE  /\ Reads(r, q) /\ q.got = r.got /\ (Ok(q) <=> Ok(r))
         /\ q.pos = IF Ok(r) THEN r.pos ELSE pos
<1>1. CASE Ok(r)
  BY <1>1 DEF RestoringReader, Reads
<1>2. CASE ~Ok(r)
  <2>1. q = [r EXCEPT !.pos = pos]
    BY <1>2 DEF RestoringReader
  <2>2. q = [code |-> r.code, cells |-> r.cells, pos |-> pos, limit |-> r.limit, got |-> r.got]
    BY <2>1 DEF IsReader
  <2> QED BY <1>2, <2>2 DEF IsReader, Reads, Ok
<1> QED BY <1>1, <1>2

LEMMA ReadsMore ==
  ASSUME NEW r, NEW p, NEW q, Reads(r, p), Reads(p, q)
  PROVE  Reads(r, q)
BY DEF Reads

With(got, part, x) == IF x = NoObject THEN got ELSE [got EXCEPT ![part] = x]

HoldsPart(d, a, x) == \A i \in 1 .. Len(PartCells(x)) : d[a + i] = PartCells(x)[i]

LEMMA PartRead ==
  ASSUME NEW r, IsReader(r), NEW part, NEW q, q = ReadPart(r, part), NEW x,
         HoldsPart(r.cells, r.pos, x)
  PROVE  /\ Reads(r, q)
         /\ Ok(q) => /\ Ok(r) /\ q.pos = r.pos + Len(PartCells(x))
                     /\ q.got = With(r.got, part, x)
<1>1. PICK s, t : s = ReadCell(r) /\ t = ReadCell(s)
  OBVIOUS
<1>2. /\ Reads(r, s) /\ s.got = r.got
      /\ Ok(s) => Ok(r) /\ s.pos = r.pos + 1 /\ Given(s) = r.cells[r.pos + 1][2]
  BY <1>1, CellRead
<1>3. /\ Reads(r, t) /\ t.got = r.got
      /\ Ok(t) => Ok(s) /\ t.pos = s.pos + 1 /\ Given(t) = s.cells[s.pos + 1][2]
  BY <1>1, <1>2, CellRead DEF Reads
<1>4. q = IF ~Ok(s) \/ Given(s) = FALSE THEN s
          ELSE IF Ok(t) THEN [t EXCEPT !.got[part] = Given(t)] ELSE t
  BY <1>1 DEF ReadPart
<1>5. 1 \in 1 .. Len(PartCells(x)) /\ Len(PartCells(x)) \in Nat
  <2>1. Len(PartCells(x)) = 1 \/ Len(PartCells(x)) = 2
    BY PartCellsSeq
  <2>2. \A l : l = 1 \/ l = 2 => 1 \in 1 .. l /\ l \in Nat
    OBVIOUS
  <2> QED BY <2>1, <2>2, Zenon
<1>6. r.pos \in Nat
  BY DEF IsReader
<1>7. CASE ~Ok(s)
  BY <1>2, <1>4, <1>7
<1>8. CASE Ok(s) /\ x = NoObject
  <2>1. Len(PartCells(x)) = 1 /\ PartCells(x)[1] = <<"flag", FALSE>>
    BY <1>8, PartCellsSeq
  <2>2. Given(s) = FALSE
    <3>1. r.cells[r.pos + 1] = <<"flag", FALSE>>
      BY <1>5, <2>1 DEF HoldsPart
    <3>2. \A c : c = <<"flag", FALSE>> => c[2] = FALSE
      OBVIOUS
    <3>3. r.cells[r.pos + 1][2] = FALSE
      BY <3>1, <3>2
    <3> QED BY <1>2, <1>8, <3>3
  <2> QED BY <1>2, <1>4, <1>8, <2>1, <2>2 DEF With
<1>9. CASE Ok(s) /\ x # NoObject
  <2>1. /\ Len(PartCells(x)) = 2 /\ PartCells(x)[1] = <<"flag", TRUE>>
        /\ PartCells(x)[2] = <<"object", x>>
    BY <1>9, PartCellsSeq
  <2>2. Given(s) = TRUE
    <3>1. r.cells[r.pos + 1] = <<"flag", TRUE>>
      BY <1>5, <2>1 DEF HoldsPart
    <3>2. \A c : c = <<"flag", TRUE>> => c[2] = TRUE
      OBVIOUS
    <3>3. r.cells[r.pos + 1][2] = TRUE
      BY <3>1, <3>2
    <3> QED BY <1>2, <1>9, <3>3
  <2>3. q = IF Ok(t) THEN [t EXCEPT !.got[part] = Given(t)] ELSE t
    BY <1>4, <1>9, <2>2
  <2>4. CASE ~Ok(t)
    BY <1>3, <2>3, <2>4
  <2>5. CASE Ok(t)
    <3>1. 2 \in 1 .. Len(PartCells(x)) /\ (r.pos + 1) + 1 = r.pos + 2
      BY <1>6, <2>1
    <3>2. s.pos = r.pos + 1 /\ t.pos = r.pos + 2 /\ Given(t) = r.cells[r.pos + 2][2]
      BY <1>2, <1>3, <1>9, <2>5, <3>1 DEF Reads
    <3>3. Given(t) = x
      BY <2>1, <3>1, <3>2 DEF HoldsPart
    <3>4. q = [t EXCEPT !.got = [t.got EXCEPT ![part] = x]]
      BY <2>3, <2>5, <3>3
    <3>5. IsReader(t)
      BY <1>3 DEF Reads
    <3>6. Reads(t, q) /\ q.pos = t.pos /\ q.got = [t.got EXCEPT ![part] = x] /\ Ok(q)
      BY <2>5, <3>4, <3>5, GotIs
    <3> QED BY <1>2, <1>3, <1>9, <2>1, <3>2, <3>6, ReadsMore DEF With
  <2> QED BY <2>4, <2>5
<1> QED BY <1>7, <1>8, <1>9

\* An element, complete: what was written.  Otherwise the reader is where it was
\* and the caller has what it had.
LEMMA ElementRead ==
  ASSUME NEW r, IsReader(r), Ok(r), NEW e, IsElement(e), NEW b, HoldsElement(r.cells, r.pos, b, e),
         NEW q, q = readMonitorElement(r)
  PROVE  /\ Reads(r, q)
         /\ Ok(q) => q.pos = b /\ q.got = e
         /\ ~Ok(q) => q.pos = r.pos /\ q.got = r.got
<1> DEFINE first == [r EXCEPT !.got = Blank]
           named == ReadCell(first)
           path == IF Ok(named) THEN [named EXCEPT !.got.path = Given(named)] ELSE named
           object == ReadPart(path, "object")
           reference == ReadPart(object, "reference")
           whole == RestoringReader(r.pos, reference)
<1>1. q = IF Ok(whole) THEN whole ELSE [whole EXCEPT !.got = r.got]
  BY DEF readMonitorElement, fromDevice
<1>2. PICK a, m, n : a = r.pos /\ m = Len(PartCells(e.object)) /\ n = Len(PartCells(e.reference))
  OBVIOUS
<1>3. a \in Nat /\ m \in Nat /\ n \in Nat
  BY <1>2, PartCellsSeq DEF IsReader
<1>4. /\ b = a + 1 + m + n /\ r.cells[a + 1] = <<"path", e.path>>
      /\ \A i \in 1 .. m : r.cells[a + 1 + i] = PartCells(e.object)[i]
      /\ \A i \in 1 .. n : r.cells[a + 1 + m + i] = PartCells(e.reference)[i]
  <2>1. PICK cs, p, s, t : /\ cs = ElementCells(e) /\ p = <<"path", e.path>>
                           /\ s = PartCells(e.object) /\ t = PartCells(e.reference)
    OBVIOUS
  <2>2. IsSeq(s) /\ IsSeq(t) /\ Len(s) = m /\ Len(t) = n
    BY <1>2, <2>1, PartCellsSeq
  <2>3. PICK h : h = <<p>> \o s
    OBVIOUS
  <2>4. IsSeq(h) /\ Len(h) = 1 + m /\ h[1] = p /\ \A i \in 1 .. m : h[1 + i] = s[i]
    BY <2>2, <2>3, FirstCell
  <2>5. cs = h \o t
    BY <2>1, <2>3 DEF ElementCells
  <2>6. /\ Len(cs) = 1 + m + n
        /\ \A i \in 1 .. 1 + m : cs[i] = h[i]
        /\ \A i \in 1 .. n : cs[1 + m + i] = t[i]
    <3>1. Len(cs) = 1 + m + n
      BY <2>2, <2>4, <2>5, ConcatSeq
    <3>2. \A i \in 1 .. 1 + m : cs[i] = h[i]
      BY <2>2, <2>4, <2>5, ConcatSeq
    <3>3. \A i \in 1 .. n : cs[1 + m + i] = t[i]
      BY <2>2, <2>4, <2>5, ConcatSeq
    <3> QED BY <3>1, <3>2, <3>3
  <2>7. b = a + Len(cs) /\ \A i \in 1 .. Len(cs) : r.cells[a + i] = cs[i]
    BY <1>2, <2>1 DEF HoldsElement, HoldsCells
  <2>8. b = a + 1 + m + n
    BY <1>3, <2>6, <2>7
  <2>9. r.cells[a + 1] = p
    <3>1. 1 \in 1 .. 1 + m + n /\ 1 \in 1 .. 1 + m
      BY <1>3
    <3> QED BY <2>4, <2>6, <2>7, <3>1
  <2>10. ASSUME NEW i \in 1 .. m PROVE r.cells[a + 1 + i] = s[i]
    <3>1. 1 + i \in 1 .. 1 + m + n /\ 1 + i \in 1 .. 1 + m /\ a + (1 + i) = a + 1 + i
      BY <1>3
    <3> QED BY <2>4, <2>6, <2>7, <3>1
  <2>11. ASSUME NEW i \in 1 .. n PROVE r.cells[a + 1 + m + i] = t[i]
    <3>1. 1 + m + i \in 1 .. 1 + m + n /\ a + (1 + m + i) = a + 1 + m + i
      BY <1>3
    <3> QED BY <2>4, <2>6, <2>7, <3>1
  <2> QED BY <2>1, <2>8, <2>9, <2>10, <2>11
<1>5. IsReader(first) /\ Reads(r, first) /\ first.pos = a /\ first.got = Blank
  BY <1>2, GotIs DEF Reads
<1> HIDE DEF first
<1>6. /\ Reads(r, named) /\ IsReader(named) /\ named.got = Blank
      /\ Ok(named) => named.pos = a + 1 /\ Given(named) = e.path
  <2>1. /\ Reads(first, named) /\ named.got = first.got
        /\ Ok(named) => named.pos = first.pos + 1 /\ Given(named) = first.cells[first.pos + 1][2]
    BY <1>5, CellRead
  <2> HIDE DEF named
  <2> QED BY <1>4, <1>5, <2>1 DEF Reads
<1> HIDE DEF named
<1>7. /\ Reads(r, path) /\ IsReader(path)
      /\ Ok(path) => path.pos = a + 1 /\ path.got = [Blank EXCEPT !.path = e.path]
  <2>1. CASE ~Ok(named)
    BY <1>6, <2>1
  <2>2. CASE Ok(named)
    <3>1. path = [named EXCEPT !.got = [Blank EXCEPT !.path = e.path]]
      BY <1>6, <2>2
    <3> HIDE DEF path
    <3> QED BY <1>6, <2>2, <3>1, GotIs DEF Reads
  <2> QED BY <2>1, <2>2
<1> HIDE DEF path
<1>8. /\ Reads(r, object) /\ IsReader(object)
      /\ Ok(object) => /\ Ok(path) /\ object.pos = a + 1 + m
                       /\ object.got = With(path.got, "object", e.object)
  <2>1. CASE ~Ok(path)
    <3>1. ReadCell(path) = path
      BY <2>1 DEF ReadCell
    <3>2. object = path
      BY <2>1, <3>1 DEF ReadPart
    <3> HIDE DEF object
    <3> QED BY <1>7, <2>1, <3>2
  <2>2. CASE Ok(path)
    <3>1. HoldsPart(path.cells, path.pos, e.object)
      BY <1>2, <1>4, <1>7, <2>2 DEF Reads, HoldsPart
    <3>2. object = ReadPart(path, "object")
      OBVIOUS
    <3> HIDE DEF object
    <3>3. /\ Reads(path, object)
          /\ Ok(object) => /\ object.pos = path.pos + Len(PartCells(e.object))
                           /\ object.got = With(path.got, "object", e.object)
      BY <1>7, <3>1, <3>2, PartRead
    <3> QED BY <1>2, <1>7, <2>2, <3>3 DEF Reads
  <2> QED BY <2>1, <2>2
<1> HIDE DEF object
<1>9. /\ Reads(r, reference) /\ IsReader(reference)
      /\ Ok(reference) => /\ Ok(object) /\ reference.pos = b
                          /\ reference.got = With(object.got, "reference", e.reference)
  <2>1. CASE ~Ok(object)
    <3>1. ReadCell(object) = object
      BY <2>1 DEF ReadCell
    <3>2. reference = object
      BY <2>1, <3>1 DEF ReadPart
    <3> HIDE DEF reference
    <3> QED BY <1>8, <2>1, <3>2
  <2>2. CASE Ok(object)
    <3>1. HoldsPart(object.cells, object.pos, e.reference)
      BY <1>2, <1>4, <1>8, <2>2 DEF Reads, HoldsPart
    <3>2. reference = ReadPart(object, "reference")
      OBVIOUS
    <3> HIDE DEF reference
    <3>3. /\ Reads(object, reference)
          /\ Ok(reference) => /\ reference.pos = object.pos + Len(PartCells(e.reference))
                              /\ reference.got = With(object.got, "reference", e.reference)
      BY <1>8, <3>1, <3>2, PartRead
    <3> QED BY <1>2, <1>4, <1>8, <2>2, <3>3 DEF Reads
  <2> QED BY <2>1, <2>2
<1> HIDE DEF reference
<1>10. ASSUME Ok(reference) PROVE reference.got = e
  <2>1. PICK x, y, z : x = e.path /\ y = e.object /\ z = e.reference
    OBVIOUS
  <2>2. e = [path |-> x, object |-> y, reference |-> z]
    BY <2>1 DEF IsElement
  <2>3. path.got = [path |-> x, object |-> NoObject, reference |-> NoObject]
    BY <1>7, <1>8, <1>9, <1>10, <2>1 DEF Blank
  <2>4. object.got = [path |-> x, object |-> y, reference |-> NoObject]
    <3>1. CASE y = NoObject
      BY <1>8, <1>9, <1>10, <2>1, <2>3, <3>1 DEF With
    <3>2. CASE y # NoObject
      <4>1. object.got = [path.got EXCEPT !["object"] = y]
        BY <1>8, <1>9, <1>10, <2>1, <3>2 DEF With
      <4> QED BY <2>3, <4>1
    <3> QED BY <3>1, <3>2
  <2>5. CASE z = NoObject
    BY <1>9, <1>10, <2>1, <2>2, <2>4, <2>5 DEF With
  <2>6. CASE z # NoObject
    <3>1. reference.got = [object.got EXCEPT !["reference"] = z]
      BY <1>9, <1>10, <2>1, <2>6 DEF With
    <3> QED BY <2>2, <2>4, <3>1
  <2> QED BY <2>5, <2>6
<1>11. /\ Reads(r, whole) /\ IsReader(whole) /\ (Ok(whole) <=> Ok(reference))
       /\ whole.got = reference.got
       /\ whole.pos = IF Ok(reference) THEN reference.pos ELSE a
  <2>1. /\ Reads(reference, whole) /\ whole.got = reference.got /\ (Ok(whole) <=> Ok(reference))
        /\ whole.pos = IF Ok(reference) THEN reference.pos ELSE r.pos
    BY <1>2, <1>3, <1>9, RestoredReader
  <2> HIDE DEF whole
  <2> QED BY <1>2, <1>9, <2>1 DEF Reads
<1> HIDE DEF whole
<1>12. CASE Ok(whole)
  BY <1>1, <1>9, <1>10, <1>11, <1>12
<1>13. CASE ~Ok(whole)
  <2>1. q = [whole EXCEPT !.got = r.got]
    BY <1>1, <1>13
  <2>2. Reads(whole, q) /\ q.pos = whole.pos /\ q.got = r.got /\ ~Ok(q)
    BY <1>11, <1>13, <2>1, GotIs
  <2> QED BY <1>2, <1>11, <1>13, <2>2, ReadsMore
<1> QED BY <1>12, <1>13

\* What a turn of a reading loop makes of the container the caller has.
Taken(kind, had, x) ==
  CASE kind \in {"list", "values", "multimap"} -> Append(had, x)
    [] kind = "map" -> Stored(had, x[1], x[2])
    [] OTHER -> Inserted(had, x)

\* One turn, over a thing that lies from the reader's position to b.
Turned(kind, p, q, b, x) ==
  /\ Reads(p, q)
  /\ Ok(q) => q.pos = b /\ q.got = Taken(kind, p.got, x)
  /\ ~Ok(q) => q.got = p.got

ItemKinds == {"list", "values", "entries", "multimap"}

LEMMA TurnRead ==
  ASSUME NEW p, IsReader(p), Ok(p), NEW kind \in ItemKinds, NEW b, NEW x,
         HoldsItem(p.cells, p.pos, b, kind, x),
         kind = "list" => x = NoObject \/ IsElement(x),
         kind \in {"entries", "multimap"} => x = <<x[1], x[2]>>,
         NEW q, q = ReadTurn(p, kind)
  PROVE  Turned(kind, p, q, b, x)
<1>1. p.pos \in Nat
  BY DEF IsReader
<1>2. CASE kind = "list"
  <2>1. HoldsElement(p.cells, p.pos, b, x) /\ IsElement(x)
    BY <1>2 DEF HoldsItem, HoldsElement
  <2>2. PICK r, s : r = [p EXCEPT !.got = NoObject] /\ s = readMonitorElement(r)
    OBVIOUS
  <2>3. IsReader(r) /\ Reads(p, r) /\ r.pos = p.pos /\ r.cells = p.cells /\ Ok(r)
    BY <2>2, GotIs DEF Reads
  <2>4. Reads(r, s) /\ (Ok(s) => s.pos = b /\ s.got = x)
    <3>1. HoldsElement(r.cells, r.pos, b, x)
      BY <2>1, <2>3
    <3>2. IsReader(r) /\ Ok(r) /\ IsElement(x) /\ s = readMonitorElement(r)
      BY <2>1, <2>2, <2>3
    <3> QED BY <3>1, <3>2, ElementRead
  <2>5. q = [s EXCEPT !.got = IF Ok(s) THEN Append(p.got, s.got) ELSE p.got]
    BY <1>2, <2>2 DEF ReadTurn, ReadListed
  <2>6. IsReader(s)
    BY <2>4 DEF Reads
  <2>7. /\ Reads(s, q) /\ q.pos = s.pos /\ (Ok(q) <=> Ok(s))
        /\ q.got = IF Ok(s) THEN Append(p.got, s.got) ELSE p.got
    BY <2>5, <2>6, GotIs
  <2>8. Reads(p, q)
    BY <2>3, <2>4, <2>7, ReadsMore
  <2>9. Taken(kind, p.got, x) = Append(p.got, x)
    BY <1>2 DEF Taken
  <2> QED BY <2>4, <2>7, <2>8, <2>9 DEF Turned
<1>3. CASE kind = "values"
  <2>1. b = p.pos + 1 /\ p.cells[p.pos + 1] = Value(x)
    <3>1. HoldsCells(p.cells, p.pos, b, <<Value(x)>>)
      BY <1>3 DEF HoldsItem
    <3>2. Len(<<Value(x)>>) = 1 /\ <<Value(x)>>[1] = Value(x) /\ 1 \in 1 .. 1
      BY FewCells
    <3> QED BY <3>1, <3>2 DEF HoldsCells
  <2>2. PICK s : s = ReadCell(p)
    OBVIOUS
  <2>3. /\ Reads(p, s) /\ IsReader(s) /\ s.got = p.got
        /\ Ok(s) => s.pos = p.pos + 1 /\ Given(s) = p.cells[p.pos + 1][2]
    BY <2>2, CellRead DEF Reads
  <2>4. Ok(s) => Given(s) = x
    BY <2>1, <2>3 DEF Value
  <2>5. q = IF Ok(s) THEN [s EXCEPT !.got = Append(s.got, Given(s))] ELSE s
    BY <1>3, <2>2 DEF ReadTurn, ReadValue
  <2>6. CASE ~Ok(s)
    BY <2>3, <2>5, <2>6 DEF Turned
  <2>7. CASE Ok(s)
    <3>1. PICK taken : taken = Append(p.got, x)
      OBVIOUS
    <3>2. q = [s EXCEPT !.got = taken]
      BY <2>3, <2>4, <2>5, <2>7, <3>1
    <3>3. Reads(s, q) /\ q.pos = b /\ q.got = taken /\ Ok(q)
      BY <2>1, <2>3, <2>7, <3>2, GotIs
    <3>4. Taken(kind, p.got, x) = taken
      BY <1>3, <3>1 DEF Taken
    <3> QED BY <2>3, <3>3, <3>4, ReadsMore DEF Turned
  <2> QED BY <2>6, <2>7
<1>4. CASE kind \in {"entries", "multimap"}
  <2>1. b = p.pos + 2 /\ p.cells[p.pos + 1] = Value(x[1]) /\ p.cells[p.pos + 2] = Value(x[2])
    <3>1. PICK y, z : y = Value(x[1]) /\ z = Value(x[2])
      OBVIOUS
    <3>2. HoldsCells(p.cells, p.pos, b, <<y, z>>)
      BY <1>4, <3>1 DEF HoldsItem
    <3>3. Len(<<y, z>>) = 2 /\ <<y, z>>[1] = y /\ <<y, z>>[2] = z /\ 1 \in 1 .. 2 /\ 2 \in 1 .. 2
      BY FewCells
    <3> QED BY <3>1, <3>2, <3>3 DEF HoldsCells
  <2>2. PICK s, t : s = ReadCell(p) /\ t = ReadCell(s)
    OBVIOUS
  <2>3. /\ Reads(p, s) /\ IsReader(s) /\ s.got = p.got /\ s.cells = p.cells
        /\ Ok(s) => s.pos = p.pos + 1 /\ Given(s) = p.cells[p.pos + 1][2]
    BY <2>2, CellRead DEF Reads
  <2>4. /\ Reads(p, t) /\ IsReader(t) /\ t.got = p.got
        /\ Ok(t) => Ok(s) /\ t.pos = s.pos + 1 /\ Given(t) = p.cells[s.pos + 1][2]
    BY <2>2, <2>3, CellRead DEF Reads
  <2>5. (p.pos + 1) + 1 = p.pos + 2
    BY <1>1
  <2>6. Ok(t) => t.pos = b /\ <<Given(s), Given(t)>> = x
    BY <1>4, <2>1, <2>3, <2>4, <2>5 DEF Value
  <2>7. q = IF ~Ok(t) THEN t
            ELSE [t EXCEPT !.got = IF kind = "multimap" THEN Append(t.got, <<Given(s), Given(t)>>)
                                   ELSE Inserted(t.got, <<Given(s), Given(t)>>)]
    BY <1>4, <2>2 DEF ReadTurn, ReadEntry
  <2>8. CASE ~Ok(t)
    BY <2>4, <2>7, <2>8 DEF Turned
  <2>9. CASE Ok(t)
    <3>1. PICK taken : taken = Taken(kind, p.got, x)
      OBVIOUS
    <3>2. taken = IF kind = "multimap" THEN Append(p.got, x) ELSE Inserted(p.got, x)
      BY <1>4, <3>1 DEF Taken
    <3>3. q = [t EXCEPT !.got = taken]
      BY <2>4, <2>6, <2>7, <2>9, <3>2
    <3>4. Reads(t, q) /\ q.pos = b /\ q.got = taken /\ Ok(q)
      BY <2>4, <2>6, <2>9, <3>3, GotIs
    <3> QED BY <2>4, <3>1, <3>4, ReadsMore DEF Turned
  <2> QED BY <2>8, <2>9
<1> QED BY <1>2, <1>3, <1>4 DEF ItemKinds

\* The first k things were taken, one after the other, by what began with had.
Keyed == {"map", "entries", "vectors"}
KeysOf(S) == {x[1] : x \in S}
FirstOf(xs, k) == {xs[i] : i \in 1 .. k}

Gathered(kind, had, xs, k, got) ==
  IF kind \in Keyed
  THEN /\ IsSeq(got)
       /\ Range(got) =
            IF kind = "map" THEN {x \in Range(had) : x[1] \notin KeysOf(FirstOf(xs, k))}
                                 \union FirstOf(xs, k)
            ELSE Range(had) \union {x \in FirstOf(xs, k) : x[1] \notin KeysOf(Range(had))}
  ELSE /\ IsSeq(got) /\ Len(got) = Len(had) + k
       /\ \A i \in 1 .. Len(had) : got[i] = had[i]
       /\ \A i \in 1 .. k : got[Len(had) + i] = xs[i]

LEMMA AppendSeq ==
  ASSUME NEW s, IsSeq(s), NEW x
  PROVE  /\ IsSeq(Append(s, x)) /\ Len(Append(s, x)) = Len(s) + 1
         /\ \A i \in 1 .. Len(s) : Append(s, x)[i] = s[i]
         /\ Append(s, x)[Len(s) + 1] = x
         /\ Range(Append(s, x)) = Range(s) \union {x}
<1> DEFINE R == Range(s) \union {x}
<1>1. PICK n, t : n = Len(s) /\ t = Append(s, x)
  OBVIOUS
<1>2. s \in Seq(R) /\ x \in R /\ n \in Nat
  BY <1>1, SeqMonotonic, SeqIs DEF IsSeq
<1>3. /\ t \in Seq(R) /\ Len(t) = n + 1 /\ t[n + 1] = x
      /\ \A i \in 1 .. n : t[i] = s[i]
  BY <1>1, <1>2, AppendProperties
<1>4. t = [i \in 1 .. n + 1 |-> t[i]]
  BY <1>3, LenProperties
<1>5. IsSeq(t)
  <2>1. n + 1 \in Nat
    BY <1>2
  <2> QED BY <1>4, <2>1, MadeSeq
<1>6. Range(t) = {t[i] : i \in 1 .. n + 1}
  BY <1>3, <1>5, SeqIs
<1>7. Range(s) = {s[i] : i \in 1 .. n}
  BY <1>1, SeqIs
<1>8. \A i \in 1 .. n + 1 : i \in 1 .. n \/ i = n + 1
  BY <1>2
<1>9. n + 1 \in 1 .. n + 1 /\ \A i \in 1 .. n : i \in 1 .. n + 1
  BY <1>2
<1>10. Range(t) = R
  BY <1>3, <1>6, <1>7, <1>8, <1>9
<1> QED BY <1>1, <1>3, <1>5, <1>10

LEMMA StoredIs ==
  ASSUME NEW m, IsSeq(m), NEW key, NEW es
  PROVE  /\ IsSeq(Stored(m, key, es))
         /\ Range(Stored(m, key, es)) = {x \in Range(m) : x[1] # key} \union {<<key, es>>}
<1>1. PICK n, t, y : n = Len(m) /\ t = Stored(m, key, es) /\ y = <<key, es>>
  OBVIOUS
<1>2. n \in Nat /\ DOMAIN m = 1 .. n /\ Range(m) = {m[i] : i \in 1 .. n}
  BY <1>1, SeqIs
<1>3. CASE \E i \in 1 .. n : m[i][1] = key
  <2>1. t = [i \in 1 .. n |-> IF m[i][1] = key THEN y ELSE m[i]]
    BY <1>1, <1>2, <1>3 DEF Stored
  <2>2. t = [i \in 1 .. n |-> t[i]]
    BY <2>1
  <2>3. IsSeq(t) /\ Len(t) = n
    BY <1>2, <2>2, MadeSeq
  <2>4. Range(t) = {t[i] : i \in 1 .. n}
    BY <2>3, SeqIs
  <2>5. \A i \in 1 .. n : t[i] = IF m[i][1] = key THEN y ELSE m[i]
    BY <2>1
  <2>6. Range(t) \subseteq {x \in Range(m) : x[1] # key} \union {y}
    BY <1>2, <2>4, <2>5
  <2>7. y \in Range(t)
    BY <1>3, <2>4, <2>5
  <2>8. {x \in Range(m) : x[1] # key} \subseteq Range(t)
    BY <1>2, <2>4, <2>5
  <2> QED BY <1>1, <2>3, <2>6, <2>7, <2>8
<1>4. CASE ~\E i \in 1 .. n : m[i][1] = key
  <2>1. t = Append(m, y)
    BY <1>1, <1>2, <1>4 DEF Stored
  <2>2. IsSeq(t) /\ Range(t) = Range(m) \union {y}
    BY <2>1, AppendSeq
  <2>3. \A x \in Range(m) : x[1] # key
    BY <1>2, <1>4
  <2> QED BY <1>1, <2>2, <2>3
<1> QED BY <1>3, <1>4

LEMMA InsertedIs ==
  ASSUME NEW m, IsSeq(m), NEW x
  PROVE  /\ IsSeq(Inserted(m, x))
         /\ Range(Inserted(m, x)) = IF x[1] \in KeysOf(Range(m)) THEN Range(m)
                                    ELSE Range(m) \union {x}
<1>1. DOMAIN m = 1 .. Len(m) /\ Range(m) = {m[i] : i \in 1 .. Len(m)}
  BY SeqIs
<1>2. x[1] \in KeysOf(Range(m)) <=> \E i \in DOMAIN m : m[i][1] = x[1]
  BY <1>1 DEF KeysOf
<1> QED BY <1>2, AppendSeq DEF Inserted

LEMMA GatheredNone ==
  ASSUME NEW kind, NEW had, IsSeq(had), NEW xs
  PROVE  Gathered(kind, had, xs, 0, had)
<1>1. FirstOf(xs, 0) = {} /\ 1 .. 0 = {}
  BY DEF FirstOf
<1>2. KeysOf({}) = {}
  BY DEF KeysOf
<1>3. Len(had) \in Nat
  BY SeqIs
<1>4. CASE kind \in Keyed
  BY <1>1, <1>2, <1>4 DEF Gathered
<1>5. CASE kind \notin Keyed
  BY <1>1, <1>3, <1>5 DEF Gathered
<1> QED BY <1>4, <1>5

HasKeys(xs, n) ==
  /\ \A i \in 1 .. n : xs[i] = <<xs[i][1], xs[i][2]>>
  /\ \A i, j \in 1 .. n : xs[i][1] = xs[j][1] => i = j

LEMMA GatheredMore ==
  ASSUME NEW kind \in Kinds, NEW had, IsSeq(had), NEW xs, NEW n \in Nat, NEW k \in Nat, k + 1 <= n,
         kind \in Keyed => HasKeys(xs, n), kind # "element",
         NEW got, Gathered(kind, had, xs, k, got)
  PROVE  Gathered(kind, had, xs, k + 1, Taken(kind, got, xs[k + 1]))
<1>1. PICK y, old, all, H : /\ y = xs[k + 1] /\ old = FirstOf(xs, k) /\ all = FirstOf(xs, k + 1)
                            /\ H = Range(had)
  OBVIOUS
<1>2. all = old \union {y}
  <2>1. k + 1 \in 1 .. k + 1 /\ \A i \in 1 .. k : i \in 1 .. k + 1
    OBVIOUS
  <2>2. \A i \in 1 .. k + 1 : i \in 1 .. k \/ i = k + 1
    OBVIOUS
  <2> QED BY <1>1, <2>1, <2>2 DEF FirstOf
<1>3. kind \in Keyed => y = <<y[1], y[2]>> /\ \A x \in old : x[1] # y[1]
  <2>1. k + 1 \in 1 .. n /\ \A i \in 1 .. k : i \in 1 .. n /\ i # k + 1
    OBVIOUS
  <2> QED BY <1>1, <2>1 DEF FirstOf, HasKeys
<1>4. CASE kind = "map"
  <2>1. IsSeq(got) /\ Range(got) = {x \in H : x[1] \notin KeysOf(old)} \union old
    BY <1>1, <1>4 DEF Gathered, Keyed
  <2>2. Taken(kind, got, y) = Stored(got, y[1], y[2])
    BY <1>4 DEF Taken
  <2>3. PICK t : t = Taken(kind, got, y)
    OBVIOUS
  <2>4. IsSeq(t) /\ Range(t) = {x \in Range(got) : x[1] # y[1]} \union {y}
    BY <1>3, <1>4, <2>1, <2>2, <2>3, StoredIs DEF Keyed
  <2>5. KeysOf(all) = KeysOf(old) \union {y[1]}
    BY <1>2 DEF KeysOf
  <2>6. Range(t) = {x \in H : x[1] \notin KeysOf(all)} \union all
    BY <1>2, <1>3, <1>4, <2>1, <2>4, <2>5 DEF Keyed
  <2> QED BY <1>1, <1>4, <2>3, <2>4, <2>6 DEF Gathered, Keyed
<1>5. CASE kind \in {"entries", "vectors"}
  <2>1. IsSeq(got) /\ Range(got) = H \union {x \in old : x[1] \notin KeysOf(H)}
    BY <1>1, <1>5 DEF Gathered, Keyed
  <2>2. Taken(kind, got, y) = Inserted(got, y)
    BY <1>5 DEF Taken
  <2>3. PICK t : t = Taken(kind, got, y)
    OBVIOUS
  <2>4. IsSeq(t) /\ Range(t) = IF y[1] \in KeysOf(Range(got)) THEN Range(got)
                               ELSE Range(got) \union {y}
    <3>1. IsSeq(got) /\ t = Inserted(got, y)
      BY <2>1, <2>2, <2>3
    <3> QED BY <3>1, InsertedIs
  <2>5. y[1] \in KeysOf(Range(got)) <=> y[1] \in KeysOf(H)
    BY <1>3, <1>5, <2>1 DEF KeysOf, Keyed
  <2>6. Range(t) = H \union {x \in all : x[1] \notin KeysOf(H)}
    BY <1>2, <2>1, <2>4, <2>5
  <2> QED BY <1>1, <1>5, <2>3, <2>4, <2>6 DEF Gathered, Keyed
<1>6. CASE kind \in {"list", "values", "multimap"}
  <2>1. PICK l, m, t : l = Len(had) /\ m = Len(got) /\ t = Append(got, y)
    OBVIOUS
  <2>2. /\ IsSeq(got) /\ m = l + k /\ l \in Nat
        /\ \A i \in 1 .. l : got[i] = had[i]
        /\ \A i \in 1 .. k : got[l + i] = xs[i]
    BY <1>6, <2>1, SeqIs DEF Gathered, Keyed
  <2>3. /\ IsSeq(t) /\ Len(t) = m + 1 /\ t[m + 1] = y
        /\ \A i \in 1 .. m : t[i] = got[i]
    <3>1. IsSeq(t) /\ Len(t) = Len(got) + 1 /\ t[Len(got) + 1] = y
      BY <2>1, <2>2, AppendSeq
    <3>2. IsSeq(got)
      BY <2>2
    <3>3. \A i \in 1 .. Len(got) : Append(got, y)[i] = got[i]
      BY <3>2, AppendSeq
    <3> QED BY <2>1, <3>1, <3>3
  <2>4. Len(t) = l + (k + 1)
    BY <2>2, <2>3
  <2>5. ASSUME NEW i \in 1 .. l PROVE t[i] = had[i]
    <3>1. i \in 1 .. m
      BY <2>2
    <3> QED BY <2>2, <2>3, <3>1
  <2>6. ASSUME NEW i \in 1 .. k + 1 PROVE t[l + i] = xs[i]
    <3>1. CASE i = k + 1
      <4>1. l + i = m + 1
        BY <2>2, <3>1
      <4> QED BY <1>1, <2>3, <3>1, <4>1
    <3>2. CASE i # k + 1
      <4>1. i \in 1 .. k /\ l + i \in 1 .. m
        BY <2>2, <3>2
      <4> QED BY <2>2, <2>3, <4>1
    <3> QED BY <3>1, <3>2
  <2>7. Taken(kind, got, y) = t
    BY <1>6, <2>1 DEF Taken
  <2> QED BY <1>1, <1>6, <2>1, <2>3, <2>4, <2>5, <2>6, <2>7 DEF Gathered, Keyed
<1> QED BY <1>4, <1>5, <1>6 DEF Kinds

Looped(kind, xs, n, cut, f, r, had) ==
  /\ Reads(r, f[0]) /\ f[0].got = had /\ Ok(f[0]) /\ f[0].pos = cut[0]
  /\ \A i \in 1 .. n : ~Ok(f[i - 1]) => f[i] = f[i - 1]
  /\ \A i \in 1 .. n : Reads(r, f[i - 1]) /\ Ok(f[i - 1]) /\ f[i - 1].pos = cut[i - 1] =>
       Turned(kind, f[i - 1], f[i], cut[i], xs[i])

\* A loop that reads xs takes the first of them, all of them if it succeeds.
LEMMA LoopRead ==
  ASSUME NEW kind \in Kinds, kind # "element", NEW xs, NEW n \in Nat,
         kind \in Keyed => HasKeys(xs, n),
         NEW cut, NEW f, NEW r, NEW had, IsSeq(had), Looped(kind, xs, n, cut, f, r, had)
  PROVE  /\ Reads(r, f[n]) /\ (Ok(f[n]) => f[n].pos = cut[n])
         /\ \E k \in 0 .. n : Gathered(kind, had, xs, k, f[n].got) /\ (Ok(f[n]) => k = n)
<1> DEFINE P(i) == /\ Reads(r, f[i]) /\ (Ok(f[i]) => f[i].pos = cut[i])
                   /\ \E k \in 0 .. i : Gathered(kind, had, xs, k, f[i].got) /\ (Ok(f[i]) => k = i)
           S == {i \in Nat : i <= n => P(i)}
<1>1. 0 \in S
  <2>1. 0 \in 0 .. 0
    OBVIOUS
  <2> QED BY <2>1, GatheredNone DEF Looped
<1>2. ASSUME NEW i \in Nat, i \in S PROVE i + 1 \in S
  <2> SUFFICES ASSUME i + 1 <= n PROVE P(i + 1)
    OBVIOUS
  <2>1. P(i)
    BY <1>2
  <2>2. PICK k \in 0 .. i : Gathered(kind, had, xs, k, f[i].got) /\ (Ok(f[i]) => k = i)
    BY <2>1
  <2>3. i + 1 \in 1 .. n /\ (i + 1) - 1 = i /\ k \in 0 .. i + 1 /\ i + 1 \in 0 .. i + 1
    OBVIOUS
  <2>4. CASE ~Ok(f[i])
    <3>1. f[i + 1] = f[i]
      BY <2>3, <2>4 DEF Looped
    <3> QED BY <2>1, <2>2, <2>3, <2>4, <3>1
  <2>5. CASE Ok(f[i])
    <3>1. Turned(kind, f[i], f[i + 1], cut[i + 1], xs[i + 1])
      BY <2>1, <2>3, <2>5 DEF Looped
    <3>2. Reads(r, f[i + 1]) /\ (Ok(f[i + 1]) => f[i + 1].pos = cut[i + 1])
      BY <2>1, <3>1, ReadsMore DEF Turned
    <3>3. k = i
      BY <2>2, <2>5
    <3>4. CASE ~Ok(f[i + 1])
      <4>1. f[i + 1].got = f[i].got
        BY <3>1, <3>4 DEF Turned
      <4> QED BY <2>2, <2>3, <3>2, <3>4, <4>1
    <3>5. CASE Ok(f[i + 1])
      <4>1. f[i + 1].got = Taken(kind, f[i].got, xs[i + 1])
        BY <3>1, <3>5 DEF Turned
      <4>2. Gathered(kind, had, xs, i, f[i].got)
        BY <2>2, <3>3
      <4>3. Gathered(kind, had, xs, i + 1, f[i + 1].got)
        BY <4>1, <4>2, GatheredMore
      <4> QED BY <2>3, <3>2, <3>5, <4>3
    <3> QED BY <3>4, <3>5
  <2> QED BY <2>4, <2>5
<1> HIDE DEF S
<1>3. n \in S
  BY <1>1, <1>2, Induction
<1> QED BY <1>3 DEF S

\* What the caller has after a read: all of xs, or the first of them.
GivesFirst(kind, had, xs, q) ==
  \E k \in 0 .. Len(xs) : Gathered(kind, had, xs, k, q.got) /\ (Ok(q) => k = Len(xs))

\* A count, then a loop over what lies after it.
LEMMA ManyIs ==
  ASSUME NEW kind \in ItemKinds, NEW r, IsReader(r), NEW b, NEW xs, IsValue(kind, xs),
         HoldsMany(r.cells, r.pos, b, kind, xs), IsSeq(r.got),
         NEW q, q = ReadMany(r, kind)
  PROVE  Reads(r, q) /\ (Ok(q) => q.pos = b) /\ GivesFirst(kind, r.got, xs, q)
<1>1. PICK n, a, d, had, c : /\ n = Len(xs) /\ a = r.pos + 1 /\ d = r.cells /\ had = r.got
                             /\ c = ReadCell(r)
  OBVIOUS
<1>2. n \in Nat /\ a \in Nat /\ IsSeq(had)
  BY <1>1, ValueFacts DEF ItemKinds, IsReader
<1>3. d[a] = <<"count", n>> /\ Laid(ItemsAt(d, kind, xs), n, a, b)
  BY <1>1 DEF HoldsMany
<1>4. /\ Reads(r, c) /\ c.got = had
      /\ Ok(c) => c.pos = a /\ Given(c) = d[a][2]
  BY <1>1, CellRead
<1>5. Ok(c) => Given(c) = n
  BY <1>3, <1>4
<1>6. CASE ~Ok(c)
  <2>1. q = c
    BY <1>1, <1>6 DEF ReadMany
  <2>2. 0 \in 0 .. n
    BY <1>2
  <2>3. Gathered(kind, had, xs, 0, had)
    BY <1>2, GatheredNone
  <2> QED BY <1>1, <1>4, <1>6, <2>1, <2>2, <2>3 DEF GivesFirst
<1>7. CASE Ok(c)
  <2>1. PICK f : /\ q = f[n] /\ f[0] = c
                 /\ \A i \in 1 .. n : f[i] = (IF Ok(f[i - 1]) THEN ReadTurn(f[i - 1], kind)
                                              ELSE f[i - 1])
    BY <1>1, <1>2, <1>5, <1>7, ManyRead
  <2>2. PICK cut : Cuts(cut, ItemsAt(d, kind, xs), n, a, b)
    BY <1>3 DEF Laid
  <2>3. /\ cut[0] = a /\ cut[n] = b
        /\ \A i \in 1 .. n : HoldsItem(d, cut[i - 1], cut[i], kind, xs[i])
    BY <2>2 DEF Cuts, ItemsAt
  <2>4. ASSUME NEW i \in 1 .. n,
               Reads(r, f[i - 1]), Ok(f[i - 1]), f[i - 1].pos = cut[i - 1]
        PROVE  Turned(kind, f[i - 1], f[i], cut[i], xs[i])
    <3>1. PICK p, t, x : p = f[i - 1] /\ t = f[i] /\ x = xs[i]
      OBVIOUS
    <3>2. IsReader(p) /\ p.cells = d /\ p.pos = cut[i - 1] /\ Ok(p)
      BY <1>1, <2>4, <3>1 DEF Reads
    <3>3. t = ReadTurn(p, kind)
      BY <2>1, <3>1, <3>2
    <3>4. HoldsItem(p.cells, p.pos, cut[i], kind, x)
      BY <2>3, <3>1, <3>2
    <3>5. /\ kind = "list" => x = NoObject \/ IsElement(x)
          /\ kind \in {"entries", "multimap"} => x = <<x[1], x[2]>>
      BY <1>1, <3>1, ValueFacts
    <3> QED BY <3>1, <3>2, <3>3, <3>4, <3>5, TurnRead
  <2>5. \A i \in 1 .. n : ~Ok(f[i - 1]) => f[i] = f[i - 1]
    BY <2>1
  <2>6. kind \in Kinds /\ kind # "element"
    BY DEF ItemKinds, Kinds
  <2>7. kind \in Keyed => HasKeys(xs, n)
    BY <1>1, ValueFacts DEF ItemKinds, Keyed, HasKeys
  <2>8. Reads(r, f[0]) /\ f[0].got = had /\ Ok(f[0]) /\ f[0].pos = cut[0]
    BY <1>4, <1>7, <2>1, <2>3
  <2>9. /\ Reads(r, f[n]) /\ (Ok(f[n]) => f[n].pos = cut[n])
        /\ \E k \in 0 .. n : Gathered(kind, had, xs, k, f[n].got) /\ (Ok(f[n]) => k = n)
    <3>1. Looped(kind, xs, n, cut, f, r, had)
      BY <2>4, <2>5, <2>8 DEF Looped
    <3> QED BY <1>2, <2>6, <2>7, <3>1, LoopRead
  <2> QED BY <1>1, <2>1, <2>3, <2>9 DEF GivesFirst
<1> QED BY <1>6, <1>7

\* Read into an empty container: what was written.
LEMMA WholeIs ==
  ASSUME NEW kind \in {"list", "values"}, NEW xs, IsSeq(xs), NEW got,
         Gathered(kind, <<>>, xs, Len(xs), got)
  PROVE  got = xs
<1>1. PICK n, m : n = Len(xs) /\ m = Len(got)
  OBVIOUS
<1>2. /\ IsSeq(got) /\ m = Len(<<>>) + n
      /\ \A i \in 1 .. n : got[Len(<<>>) + i] = xs[i]
  BY <1>1 DEF Gathered, Keyed
<1>3. Len(<<>>) = 0
  OBVIOUS
<1>4. n \in Nat /\ xs = [i \in 1 .. n |-> xs[i]]
  BY <1>1, SeqIs
<1>5. got = [i \in 1 .. m |-> got[i]]
  BY <1>1, <1>2, SeqIs
<1>6. m = n /\ \A i \in 1 .. n : got[i] = xs[i]
  BY <1>2, <1>3, <1>4
<1> QED BY <1>4, <1>5, <1>6

FreshReader(r) == IsReader(r) /\ r.got = <<>>

LEMMA InnerRead ==
  ASSUME NEW kind \in {"list", "values"}, NEW r, FreshReader(r), NEW b, NEW xs, IsValue(kind, xs),
         HoldsMany(r.cells, r.pos, b, kind, xs)
  PROVE  LET q == ReadMany(r, kind) IN Reads(r, q) /\ (Ok(q) => q.pos = b /\ q.got = xs)
<1> PICK q : q = ReadMany(r, kind)
  OBVIOUS
<1>1. IsReader(r) /\ r.got = <<>> /\ IsSeq(r.got) /\ IsSeq(xs)
  BY ValueFacts DEF IsSeq, FreshReader
<1>2. kind \in ItemKinds
  BY DEF ItemKinds
<1>3. Reads(r, q) /\ (Ok(q) => q.pos = b)
  BY <1>1, <1>2, ManyIs
<1>4. GivesFirst(kind, r.got, xs, q)
  BY <1>1, <1>2, ManyIs
<1>5. Ok(q) => q.got = xs
  BY <1>1, <1>4, WholeIs DEF GivesFirst
<1> QED BY <1>3, <1>5

LEMMA VectorRead ==
  ASSUME NEW kind \in {"map", "vectors"}, NEW p, IsReader(p), Ok(p), NEW b, NEW key, NEW v, NEW x, x = <<key, v>>,
         IsValue(IF kind = "map" THEN "list" ELSE "values", v),
         HoldsVector(p.cells, p.pos, b, kind, x),
         NEW q, q = ReadVector(p, kind)
  PROVE  Turned(kind, p, q, b, x)
<1>1. PICK inner : inner = IF kind = "map" THEN "list" ELSE "values"
  OBVIOUS
<1>2. PICK c, empty, s, s1 :
        /\ c = ReadCell(p) /\ empty = [c EXCEPT !.got = <<>>] /\ s1 = ReadMany(empty, inner)
        /\ s = IF kind = "map" THEN ReadList(empty) ELSE ReadMany(empty, "values")
  OBVIOUS
<1>3. q = IF ~Ok(c) THEN c
          ELSE [s EXCEPT !.got = IF ~Ok(s) THEN c.got
                                 ELSE IF kind = "map" THEN Stored(c.got, Given(c), s.got)
                                 ELSE Inserted(c.got, <<Given(c), s.got>>)]
  BY <1>2 DEF ReadVector
<1>4. /\ Reads(p, c) /\ IsReader(c) /\ c.got = p.got
      /\ Ok(c) => c.pos = p.pos + 1 /\ Given(c) = p.cells[p.pos + 1][2]
  BY <1>2, CellRead DEF Reads
<1>5. CASE ~Ok(c)
  BY <1>3, <1>4, <1>5 DEF Turned
<1>6. CASE Ok(c)
  <2>1. /\ p.cells[p.pos + 1] = Value(key)
        /\ HoldsMany(p.cells, p.pos + 1, b, inner, v)
    BY <1>1 DEF HoldsVector
  <2>2. Given(c) = key
    BY <1>4, <1>6, <2>1 DEF Value
  <2>3. Reads(c, empty) /\ IsReader(empty) /\ empty.pos = c.pos /\ empty.got = <<>> /\ Ok(empty)
    BY <1>2, <1>4, <1>6, GotIs DEF Reads
  <2>4. HoldsMany(empty.cells, empty.pos, b, inner, v)
    BY <1>4, <1>6, <2>1, <2>3 DEF Reads
  <2>5. inner \in {"list", "values"} /\ IsValue(inner, v)
    BY <1>1
  <2>6. s1 = ReadMany(empty, inner)
    BY <1>2
  <2>7. Reads(empty, s1) /\ (Ok(s1) => s1.pos = b /\ s1.got = v)
    <3>1. FreshReader(empty)
      BY <2>3 DEF FreshReader
    <3> QED BY <2>4, <2>5, <2>6, <3>1, InnerRead
  <2>9. /\ Reads(empty, s) /\ s.got = s1.got /\ (Ok(s) <=> Ok(s1))
        /\ Ok(s) => s.pos = b
    <3>1. CASE kind = "map"
      <4>1. s = RestoringReader(empty.pos, s1)
        BY <1>1, <1>2, <3>1 DEF ReadList
      <4>2. IsReader(s1) /\ empty.pos \in Nat
        BY <2>3, <2>7 DEF Reads, IsReader
      <4>3. /\ Reads(s1, s) /\ s.got = s1.got /\ (Ok(s) <=> Ok(s1))
            /\ s.pos = IF Ok(s1) THEN s1.pos ELSE empty.pos
        BY <4>1, <4>2, RestoredReader
      <4> QED BY <2>7, <4>3, ReadsMore
    <3>2. CASE kind = "vectors"
      <4>1. s = s1
        BY <1>1, <1>2, <3>2
      <4> QED BY <2>7, <4>1
    <3> QED BY <3>1, <3>2
  <2>10. PICK g : g = IF ~Ok(s) THEN c.got
                      ELSE IF kind = "map" THEN Stored(c.got, Given(c), s.got)
                      ELSE Inserted(c.got, <<Given(c), s.got>>)
    OBVIOUS
  <2>11. IsReader(s) /\ q = [s EXCEPT !.got = g]
    BY <1>3, <1>6, <2>9, <2>10 DEF Reads
  <2>12. Reads(s, q) /\ q.pos = s.pos /\ q.got = g /\ (Ok(q) <=> Ok(s))
    BY <2>11, GotIs
  <2>13. Reads(p, q)
    BY <1>4, <2>3, <2>9, <2>12, ReadsMore
  <2>14. ASSUME Ok(s) PROVE g = Taken(kind, p.got, x)
    <3>1. s.got = v
      BY <2>7, <2>9, <2>14
    <3>2. g = IF kind = "map" THEN Stored(p.got, key, v) ELSE Inserted(p.got, x)
      BY <1>4, <2>2, <2>10, <2>14, <3>1
    <3> QED BY <3>2 DEF Taken
  <2> QED BY <1>4, <2>9, <2>10, <2>12, <2>13, <2>14 DEF Turned
<1> QED BY <1>5, <1>6

LEMMA VectorsIs ==
  ASSUME NEW kind \in {"map", "vectors"}, NEW r, IsReader(r), NEW b, NEW xs, IsValue(kind, xs),
         HoldsVectors(r.cells, r.pos, b, kind, xs), IsSeq(r.got),
         NEW q, q = ReadVectors(r, kind)
  PROVE  Reads(r, q) /\ (Ok(q) => q.pos = b) /\ GivesFirst(kind, r.got, xs, q)
<1>1. PICK n, a, d, had, c : /\ n = Len(xs) /\ a = r.pos + 1 /\ d = r.cells /\ had = r.got
                             /\ c = ReadCell(r)
  OBVIOUS
<1>2. n \in Nat /\ a \in Nat /\ IsSeq(had)
  BY <1>1, ValueFacts DEF IsReader
<1>3. d[a] = <<"count", n>> /\ Laid(VectorsAt(d, kind, xs), n, a, b)
  BY <1>1 DEF HoldsVectors
<1>4. /\ Reads(r, c) /\ c.got = had
      /\ Ok(c) => c.pos = a /\ Given(c) = d[a][2]
  BY <1>1, CellRead
<1>5. Ok(c) => Given(c) = n
  BY <1>3, <1>4
<1>6. CASE ~Ok(c)
  <2>1. q = c
    BY <1>1, <1>6 DEF ReadVectors
  <2>2. 0 \in 0 .. n
    BY <1>2
  <2>3. Gathered(kind, had, xs, 0, had)
    BY <1>2, GatheredNone
  <2> QED BY <1>1, <1>4, <1>6, <2>1, <2>2, <2>3 DEF GivesFirst
<1>7. CASE Ok(c)
  <2>1. PICK f : /\ q = f[n] /\ f[0] = c
                 /\ \A i \in 1 .. n : f[i] = (IF Ok(f[i - 1]) THEN ReadVector(f[i - 1], kind)
                                              ELSE f[i - 1])
    BY <1>1, <1>2, <1>5, <1>7, KeyedRead
  <2>2. PICK cut : Cuts(cut, VectorsAt(d, kind, xs), n, a, b)
    BY <1>3 DEF Laid
  <2>3. /\ cut[0] = a /\ cut[n] = b
        /\ \A i \in 1 .. n : HoldsVector(d, cut[i - 1], cut[i], kind, xs[i])
    BY <2>2 DEF Cuts, VectorsAt
  <2>4. ASSUME NEW i \in 1 .. n,
               Reads(r, f[i - 1]), Ok(f[i - 1]), f[i - 1].pos = cut[i - 1]
        PROVE  Turned(kind, f[i - 1], f[i], cut[i], xs[i])
    <3>1. PICK p, t, x, key, v : /\ p = f[i - 1] /\ t = f[i] /\ x = xs[i]
                                 /\ key = xs[i][1] /\ v = xs[i][2]
      OBVIOUS
    <3>2. IsReader(p) /\ p.cells = d /\ p.pos = cut[i - 1] /\ Ok(p)
      BY <1>1, <2>4, <3>1 DEF Reads
    <3>3. t = ReadVector(p, kind)
      BY <2>1, <3>1, <3>2
    <3>4. HoldsVector(p.cells, p.pos, cut[i], kind, x)
      BY <2>3, <3>1, <3>2
    <3>5. x = <<key, v>>
      BY <1>1, <3>1, ValueFacts
    <3>6. IsValue(IF kind = "map" THEN "list" ELSE "values", v)
      BY <1>1, <3>1, ValueFacts
    <3>7. Turned(kind, p, t, cut[i], x)
      BY <3>2, <3>3, <3>4, <3>5, <3>6, VectorRead
    <3> QED BY <3>1, <3>7
  <2>5. \A i \in 1 .. n : ~Ok(f[i - 1]) => f[i] = f[i - 1]
    BY <2>1
  <2>6. kind \in Kinds /\ kind # "element"
    BY DEF Kinds
  <2>7. kind \in Keyed => HasKeys(xs, n)
    BY <1>1, ValueFacts DEF Keyed, HasKeys
  <2>8. Reads(r, f[0]) /\ f[0].got = had /\ Ok(f[0]) /\ f[0].pos = cut[0]
    BY <1>4, <1>7, <2>1, <2>3
  <2>9. Looped(kind, xs, n, cut, f, r, had)
    BY <2>4, <2>5, <2>8 DEF Looped
  <2>10. /\ Reads(r, f[n]) /\ (Ok(f[n]) => f[n].pos = cut[n])
         /\ \E k \in 0 .. n : Gathered(kind, had, xs, k, f[n].got) /\ (Ok(f[n]) => k = n)
    BY <1>2, <2>6, <2>7, <2>9, LoopRead
  <2> QED BY <1>1, <2>1, <2>3, <2>10 DEF GivesFirst
<1> QED BY <1>6, <1>7

\* A read of what lies from the reader's position to b.
ReadIs(kind, r, b, value, q) ==
  /\ Reads(r, q)
  /\ Ok(q) => q.pos = b
  /\ ~Ok(q) /\ kind \in Restored => q.pos = r.pos
  /\ IF kind = "element" THEN q.got = IF Ok(q) THEN value ELSE r.got
     ELSE GivesFirst(kind, r.got, value, q)

LEMMA AnyRead ==
  ASSUME NEW kind, NEW value, IsValue(kind, value), NEW r, IsReader(r), Ok(r), NEW b,
         HoldsAny(r.cells, r.pos, b, kind, value),
         kind # "element" => IsSeq(r.got)
  PROVE  ReadIs(kind, r, b, value, ReadAny(r, kind))
<1>1. PICK q : q = ReadAny(r, kind)
  OBVIOUS
<1>2. CASE kind = "element"
  <2>1. q = readMonitorElement(r)
    BY <1>1, <1>2 DEF ReadAny
  <2>2. HoldsElement(r.cells, r.pos, b, value) /\ IsElement(value)
    BY <1>2, ValueFacts DEF HoldsAny, HoldsElement
  <2>3. /\ Reads(r, q)
        /\ Ok(q) => q.pos = b /\ q.got = value
        /\ ~Ok(q) => q.pos = r.pos /\ q.got = r.got
    BY <2>1, <2>2, ElementRead
  <2> QED BY <1>1, <1>2, <2>3 DEF ReadIs
<1>3. ASSUME kind \in {"list", "map"}, NEW s, q = RestoringReader(r.pos, s),
             Reads(r, s), Ok(s) => s.pos = b, GivesFirst(kind, r.got, value, s)
      PROVE  ReadIs(kind, r, b, value, q)
  <2>1. IsReader(s) /\ r.pos \in Nat
    BY <1>3 DEF Reads, IsReader
  <2>2. /\ Reads(s, q) /\ q.got = s.got /\ (Ok(q) <=> Ok(s))
        /\ q.pos = IF Ok(s) THEN s.pos ELSE r.pos
    BY <1>3, <2>1, RestoredReader
  <2>3. Reads(r, q)
    BY <1>3, <2>2, ReadsMore
  <2>4. GivesFirst(kind, r.got, value, q)
    BY <1>3, <2>2 DEF GivesFirst
  <2> QED BY <1>3, <2>2, <2>3, <2>4 DEF ReadIs
<1>4. CASE kind = "list"
  <2>1. PICK s : s = ReadMany(r, kind)
    OBVIOUS
  <2>2. q = RestoringReader(r.pos, s)
    BY <1>1, <1>4, <2>1 DEF ReadAny, ReadList
  <2>3. HoldsMany(r.cells, r.pos, b, kind, value) /\ IsSeq(r.got) /\ kind \in ItemKinds
    BY <1>4 DEF HoldsAny, ItemKinds
  <2>4. Reads(r, s) /\ (Ok(s) => s.pos = b) /\ GivesFirst(kind, r.got, value, s)
    BY <2>1, <2>3, ManyIs
  <2> QED BY <1>1, <1>3, <1>4, <2>2, <2>4
<1>5. CASE kind = "map"
  <2>1. PICK s : s = ReadVectors(r, kind)
    OBVIOUS
  <2>2. q = RestoringReader(r.pos, s)
    BY <1>1, <1>5, <2>1 DEF ReadAny
  <2>3. HoldsVectors(r.cells, r.pos, b, kind, value) /\ IsSeq(r.got) /\ kind \in {"map", "vectors"}
    BY <1>5 DEF HoldsAny
  <2>4. Reads(r, s) /\ (Ok(s) => s.pos = b) /\ GivesFirst(kind, r.got, value, s)
    BY <2>1, <2>3, VectorsIs
  <2> QED BY <1>1, <1>3, <1>5, <2>2, <2>4
<1>6. CASE kind = "vectors"
  <2>1. q = ReadVectors(r, kind)
    BY <1>1, <1>6 DEF ReadAny
  <2>2. HoldsVectors(r.cells, r.pos, b, kind, value) /\ IsSeq(r.got) /\ kind \in {"map", "vectors"}
    BY <1>6 DEF HoldsAny
  <2>3. Reads(r, q) /\ (Ok(q) => q.pos = b) /\ GivesFirst(kind, r.got, value, q)
    BY <2>1, <2>2, VectorsIs
  <2> QED BY <1>1, <1>6, <2>3 DEF ReadIs, Restored
<1>7. CASE kind \in {"values", "entries", "multimap"}
  <2>1. q = ReadMany(r, kind)
    BY <1>1, <1>7 DEF ReadAny
  <2>2. HoldsMany(r.cells, r.pos, b, kind, value) /\ IsSeq(r.got) /\ kind \in ItemKinds
    BY <1>7 DEF HoldsAny, ItemKinds
  <2>3. Reads(r, q) /\ (Ok(q) => q.pos = b) /\ GivesFirst(kind, r.got, value, q)
    BY <2>1, <2>2, ManyIs
  <2> QED BY <1>1, <1>7, <2>3 DEF ReadIs, Restored
<1> QED BY <1>2, <1>4, <1>5, <1>6, <1>7, ValueFacts DEF Kinds

(***************************************************************************)
(* ElementStream: reads are whole.                                         *)
(***************************************************************************)
KeysIn(m) == {m[i][1] : i \in DOMAIN m}
OfIn(m, k) == {m[i][2] : i \in {j \in DOMAIN m : m[j][1] = k}}
OfKey(S, k) == {x[2] : x \in {y \in S : y[1] = k}}

\* The property, for one read.
WholeRead(l) ==
  LET rec == l.record
      Whole == l.had \o rec.value
  IN  /\ l.code = "SUCCESS" => l.pos = rec.end
      /\ l.code # "SUCCESS" /\ rec.kind \in Restored => l.pos = rec.start
      /\ rec.kind = "element" =>
           l.got = IF l.code = "SUCCESS" THEN rec.value ELSE l.had
      /\ rec.kind \in {"list", "values", "multimap"} =>
           /\ IsPrefix(l.had, l.got) /\ IsPrefix(l.got, Whole)
           /\ l.code = "SUCCESS" => l.got = Whole
      /\ rec.kind \in {"map", "entries", "vectors"} =>
           LET first == IF rec.kind = "map" THEN rec.value ELSE l.had
               second == IF rec.kind = "map" THEN l.had ELSE rec.value
           IN  /\ l.code = "SUCCESS" => KeysIn(l.got) = KeysIn(Whole)
               /\ KeysIn(l.had) \subseteq KeysIn(l.got)
               /\ \A k \in KeysIn(l.got) :
                    /\ OfIn(l.got, k) \in {OfIn(first, k), OfIn(second, k)}
                    /\ l.code = "SUCCESS" /\ k \in KeysIn(first) => OfIn(l.got, k) = OfIn(first, k)

LEMMA WholeReads ==
  ReadsAreWhole <=> \A l \in ToSet(lastRecord) : WholeRead(l)
BY DEF ReadsAreWhole, WholeRead, KeysIn, OfIn

LEMMA KeysAre ==
  ASSUME NEW m, IsSeq(m), NEW k
  PROVE  KeysIn(m) = KeysOf(Range(m)) /\ OfIn(m, k) = OfKey(Range(m), k)
<1>1. PICK D, S : D = DOMAIN m /\ S = Range(m)
  OBVIOUS
<1>2. S = {m[i] : i \in D}
  BY <1>1 DEF Range
<1>3. {m[i][1] : i \in D} = {x[1] : x \in S}
  BY <1>2
<1>4. {m[i][2] : i \in {j \in D : m[j][1] = k}} = {x[2] : x \in {y \in S : y[1] = k}}
  BY <1>2
<1> QED BY <1>1, <1>3, <1>4 DEF KeysIn, KeysOf, OfIn, OfKey

LEMMA MergedIs ==
  ASSUME NEW A, NEW B, NEW G, G = A \union {x \in B : x[1] \notin KeysOf(A)}
  PROVE  KeysOf(G) = KeysOf(A) \union KeysOf(B)
<1>1. \A k, S : k \in KeysOf(S) <=> \E x \in S : x[1] = k
  BY DEF KeysOf
<1>2. \A k : k \in KeysOf(G) <=> k \in KeysOf(A) \/ k \in KeysOf(B)
  BY <1>1
<1> QED BY <1>2

LEMMA PartIs ==
  ASSUME NEW F, NEW V, F \subseteq V, \A x, y \in V : x[1] = y[1] => x = y, NEW k \in KeysOf(F)
  PROVE  OfKey(F, k) = OfKey(V, k)
<1>1. PICK x \in F : x[1] = k
  BY DEF KeysOf
<1>2. {y \in F : y[1] = k} = {y \in V : y[1] = k}
  BY <1>1
<1> QED BY <1>2 DEF OfKey

LEMMA PrefixIs ==
  ASSUME NEW s, NEW t, IsSeq(s), IsSeq(t), Len(s) <= Len(t), \A i \in 1 .. Len(s) : s[i] = t[i]
  PROVE  IsPrefix(s, t)
<1>1. PICK m, n : m = Len(s) /\ n = Len(t)
  OBVIOUS
<1>2. m \in Nat /\ n \in Nat /\ m <= n /\ 1 \in 1 .. m + 1 /\ 1 \in 1 .. n + 1
      /\ m \in 1 - 1 .. m /\ m \in 1 - 1 .. n
  BY <1>1, SeqIs
<1> DEFINE u == SubSeq(s, 1, m)
           v == SubSeq(t, 1, m)
<1>3. u \in Seq(Range(s)) /\ Len(u) = m - 1 + 1 /\ \A i \in 1 .. m - 1 + 1 : u[i] = s[1 + i - 1]
  BY <1>1, <1>2, SubSeqProperties DEF IsSeq
<1>4. v \in Seq(Range(t)) /\ Len(v) = m - 1 + 1 /\ \A i \in 1 .. m - 1 + 1 : v[i] = t[1 + i - 1]
  BY <1>1, <1>2, SubSeqProperties DEF IsSeq
<1> HIDE DEF u, v
<1>5. m - 1 + 1 = m /\ \A i \in 1 .. m : 1 + i - 1 = i
  BY <1>2
<1>6. u = [i \in 1 .. m |-> u[i]] /\ v = [i \in 1 .. m |-> v[i]]
  BY <1>3, <1>4, <1>5, LenProperties
<1>7. \A i \in 1 .. m : u[i] = v[i]
  BY <1>1, <1>3, <1>4, <1>5
<1>8. u = v
  BY <1>6, <1>7
<1> QED BY <1>1, <1>2, <1>8 DEF IsPrefix, u, v

LEMMA SequencesGrow ==
  ASSUME NEW kind \in {"list", "values", "multimap"}, NEW value, IsSeq(value), NEW had, IsSeq(had),
         NEW q, GivesFirst(kind, had, value, q)
  PROVE  /\ IsPrefix(had, q.got) /\ IsPrefix(q.got, had \o value)
         /\ Ok(q) => q.got = had \o value
<1>1. PICK l, n, got, whole : l = Len(had) /\ n = Len(value) /\ got = q.got /\ whole = had \o value
  OBVIOUS
<1>2. PICK k \in 0 .. n : Gathered(kind, had, value, k, got) /\ (Ok(q) => k = n)
  BY <1>1 DEF GivesFirst
<1>3. /\ IsSeq(got) /\ Len(got) = l + k
      /\ \A i \in 1 .. l : got[i] = had[i]
      /\ \A i \in 1 .. k : got[l + i] = value[i]
  BY <1>1, <1>2 DEF Gathered, Keyed
<1>4. l \in Nat /\ n \in Nat /\ k \in Nat /\ k <= n
  BY <1>1, <1>2, SeqIs
<1>5. IsSeq(whole) /\ Len(whole) = l + n
  BY <1>1, ConcatSeq
<1>6. \A i \in 1 .. l : whole[i] = had[i]
  <2>1. \A i \in 1 .. Len(had) : (had \o value)[i] = had[i]
    BY ConcatSeq
  <2> QED BY <1>1, <2>1
<1>7. \A i \in 1 .. n : whole[l + i] = value[i]
  <2>1. \A i \in 1 .. Len(value) : (had \o value)[Len(had) + i] = value[i]
    BY ConcatSeq
  <2> QED BY <1>1, <2>1
<1>8. \A i \in 1 .. l + k : got[i] = whole[i]
  <2> TAKE i \in 1 .. l + k
  <2>1. CASE i <= l
    <3>1. i \in 1 .. l
      BY <1>4, <2>1
    <3> QED BY <1>3, <1>6, <3>1
  <2>2. CASE ~(i <= l)
    <3>1. PICK j : j = i - l
      OBVIOUS
    <3>2. j \in 1 .. k /\ j \in 1 .. n /\ l + j = i
      BY <1>4, <2>2, <3>1
    <3>3. got[l + j] = value[j] /\ whole[l + j] = value[j]
      BY <1>3, <1>7, <3>2
    <3> QED BY <3>2, <3>3
  <2> QED BY <2>1, <2>2
<1>9. IsPrefix(had, got)
  <2>1. l <= l + k
    BY <1>4
  <2>2. Len(had) <= Len(got) /\ \A i \in 1 .. Len(had) : had[i] = got[i]
    BY <1>1, <1>3, <2>1
  <2> QED BY <1>3, <2>2, PrefixIs
<1>10. IsPrefix(got, whole)
  <2>1. l + k <= l + n
    BY <1>4
  <2>2. Len(got) <= Len(whole) /\ \A i \in 1 .. Len(got) : got[i] = whole[i]
    BY <1>3, <1>5, <1>8, <2>1
  <2> QED BY <1>3, <1>5, <2>2, PrefixIs
<1>11. ASSUME Ok(q) PROVE got = whole
  <2>1. k = n
    BY <1>2, <1>11
  <2>2. /\ got = [i \in 1 .. l + n |-> got[i]]
        /\ whole = [i \in 1 .. l + n |-> whole[i]]
    BY <1>3, <1>5, <2>1, SeqIs
  <2> QED BY <1>8, <2>1, <2>2
<1> QED BY <1>1, <1>9, <1>10, <1>11

LEMMA MapsMerge ==
  ASSUME NEW kind \in Keyed, NEW value, IsValue(kind, value), NEW had, IsSeq(had),
         NEW q, GivesFirst(kind, had, value, q),
         NEW first, first = IF kind = "map" THEN value ELSE had,
         NEW second, second = IF kind = "map" THEN had ELSE value
  PROVE  /\ Ok(q) => KeysIn(q.got) = KeysIn(had \o value)
         /\ KeysIn(had) \subseteq KeysIn(q.got)
         /\ \A k \in KeysIn(q.got) :
              /\ OfIn(q.got, k) \in {OfIn(first, k), OfIn(second, k)}
              /\ Ok(q) /\ k \in KeysIn(first) => OfIn(q.got, k) = OfIn(first, k)
<1>1. PICK n, got, whole, H, V, G : /\ n = Len(value) /\ got = q.got /\ whole = had \o value
                                    /\ H = Range(had) /\ V = Range(value) /\ G = Range(got)
  OBVIOUS
<1>2. PICK m \in 0 .. n : Gathered(kind, had, value, m, got) /\ (Ok(q) => m = n)
  BY <1>1 DEF GivesFirst
<1>3. IsSeq(value) /\ n \in Nat /\ V = {value[i] : i \in 1 .. n}
  BY <1>1, ValueFacts, SeqIs DEF Keyed
<1>4. \A x, y \in V : x[1] = y[1] => x = y
  <2>1. \A i, j \in 1 .. n : value[i][1] = value[j][1] => i = j
    BY <1>1, ValueFacts DEF Keyed
  <2>2. ASSUME NEW i \in 1 .. n, NEW j \in 1 .. n, value[i][1] = value[j][1]
        PROVE  value[i] = value[j]
    <3>1. i = j
      BY <2>1, <2>2
    <3> QED BY <3>1
  <2> QED BY <1>3, <2>2
<1>5. PICK F : F = FirstOf(value, m)
  OBVIOUS
<1>6. F \subseteq V /\ (Ok(q) => F = V)
  <2>1. \A i \in 1 .. m : i \in 1 .. n
    <3>1. m \in Nat /\ n \in Nat /\ m <= n
      BY <1>2, <1>3
    <3> QED BY <3>1
  <2> QED BY <1>2, <1>3, <1>5, <2>1 DEF FirstOf
<1>7. PICK A, B : A = (IF kind = "map" THEN F ELSE H) /\ B = (IF kind = "map" THEN H ELSE F)
  OBVIOUS
<1>8. IsSeq(got) /\ G = A \union {x \in B : x[1] \notin KeysOf(A)}
  <2>1. CASE kind = "map"
    <3>1. IsSeq(got) /\ G = {x \in H : x[1] \notin KeysOf(F)} \union F
      BY <1>1, <1>2, <1>5, <2>1 DEF Gathered
    <3> QED BY <1>7, <2>1, <3>1
  <2>2. CASE kind # "map"
    <3>1. IsSeq(got) /\ G = H \union {x \in F : x[1] \notin KeysOf(H)}
      BY <1>1, <1>2, <1>5, <2>2 DEF Gathered
    <3> QED BY <1>7, <2>2, <3>1
  <2> QED BY <2>1, <2>2
<1>19. G = A \union {x \in B : x[1] \notin KeysOf(A)}
  BY <1>8
<1>9. KeysOf(G) = KeysOf(A) \union KeysOf(B)
  BY <1>19, MergedIs
<1>10. \A k \in KeysOf(A) : OfKey(G, k) = OfKey(A, k)
  <2> TAKE k \in KeysOf(A)
  <2>1. {y \in G : y[1] = k} = {y \in A : y[1] = k}
    BY <1>19
  <2> QED BY <2>1 DEF OfKey
<1>11. \A k : k \notin KeysOf(A) => OfKey(G, k) = OfKey(B, k)
  <2> SUFFICES ASSUME NEW k, k \notin KeysOf(A) PROVE OfKey(G, k) = OfKey(B, k)
    OBVIOUS
  <2>1. {y \in G : y[1] = k} = {y \in B : y[1] = k}
    <3>1. \A y \in A : y[1] # k
      BY DEF KeysOf
    <3> QED BY <1>19, <3>1
  <2> QED BY <2>1 DEF OfKey
<1>12. \A k \in KeysOf(F) : OfKey(F, k) = OfKey(V, k)
  BY <1>4, <1>6, PartIs
<1>13. \A k : /\ KeysIn(got) = KeysOf(G) /\ OfIn(got, k) = OfKey(G, k)
              /\ KeysIn(had) = KeysOf(H) /\ OfIn(had, k) = OfKey(H, k)
              /\ KeysIn(value) = KeysOf(V) /\ OfIn(value, k) = OfKey(V, k)
  BY <1>1, <1>3, <1>8, KeysAre
<1>14. KeysIn(whole) = KeysOf(H) \union KeysOf(V)
  <2>1. PICK l : l = Len(had)
    OBVIOUS
  <2>2. l \in Nat /\ H = {had[i] : i \in 1 .. l}
    BY <1>1, <2>1, SeqIs
  <2>3. IsSeq(whole) /\ Len(whole) = l + n
    BY <1>1, <1>3, <2>1, ConcatSeq
  <2>4. \A i \in 1 .. Len(had) : (had \o value)[i] = had[i]
    BY <1>3, ConcatSeq
  <2>5. \A i \in 1 .. Len(value) : (had \o value)[Len(had) + i] = value[i]
    BY <1>3, ConcatSeq
  <2>6. Range(whole) = {whole[i] : i \in 1 .. l + n}
    BY <2>3, SeqIs
  <2>7. H \subseteq Range(whole)
    <3>1. \A i \in 1 .. l : i \in 1 .. l + n /\ whole[i] = had[i]
      BY <1>1, <1>3, <2>1, <2>2, <2>4
    <3> QED BY <2>2, <2>6, <3>1
  <2>8. V \subseteq Range(whole)
    <3>1. \A i \in 1 .. n : l + i \in 1 .. l + n /\ whole[l + i] = value[i]
      BY <1>1, <1>3, <2>1, <2>2, <2>5
    <3> QED BY <1>3, <2>6, <3>1
  <2>9. ASSUME NEW i \in 1 .. l + n PROVE whole[i] \in H \union V
    <3>1. CASE i <= l
      <4>1. i \in 1 .. l
        BY <2>2, <3>1
      <4> QED BY <1>1, <2>1, <2>2, <2>4, <4>1
    <3>2. CASE ~(i <= l)
      <4>1. PICK j : j = i - l
        OBVIOUS
      <4>2. j \in 1 .. n /\ l + j = i
        BY <1>3, <2>2, <3>2, <4>1
      <4>3. whole[l + j] = value[j]
        BY <1>1, <2>1, <2>5, <4>2
      <4> QED BY <1>3, <4>2, <4>3
    <3> QED BY <3>1, <3>2
  <2>10. Range(whole) = H \union V
    BY <2>6, <2>7, <2>8, <2>9
  <2>11. KeysIn(whole) = KeysOf(Range(whole))
    BY <2>3, KeysAre
  <2> QED BY <2>10, <2>11 DEF KeysOf
<1>15. KeysOf(F) \subseteq KeysOf(V)
  BY <1>6 DEF KeysOf
<1>16. Ok(q) => KeysIn(got) = KeysIn(whole)
  BY <1>6, <1>7, <1>9, <1>13, <1>14
<1>17. KeysIn(had) \subseteq KeysIn(got)
  BY <1>7, <1>9, <1>13
<1>18. ASSUME NEW k \in KeysIn(got)
       PROVE  /\ OfIn(got, k) \in {OfIn(first, k), OfIn(second, k)}
              /\ Ok(q) /\ k \in KeysIn(first) => OfIn(got, k) = OfIn(first, k)
  <2>1. k \in KeysOf(A) \/ (k \notin KeysOf(A) /\ k \in KeysOf(B))
    BY <1>9, <1>13
  <2>2. CASE kind = "map"
    <3>1. A = F /\ B = H /\ first = value /\ second = had
      BY <1>7, <2>2
    <3>2. CASE k \in KeysOf(A)
      BY <1>10, <1>12, <1>13, <3>1, <3>2
    <3>3. CASE k \notin KeysOf(A)
      BY <1>6, <1>11, <1>13, <3>1, <3>3
    <3> QED BY <3>2, <3>3
  <2>3. CASE kind # "map"
    <3>1. A = H /\ B = F /\ first = had /\ second = value
      BY <1>7, <2>3
    <3>2. CASE k \in KeysOf(A)
      BY <1>10, <1>13, <3>1, <3>2
    <3>3. CASE k \notin KeysOf(A)
      BY <1>11, <1>12, <1>13, <2>1, <3>1, <3>3
    <3> QED BY <3>2, <3>3
  <2> QED BY <2>2, <2>3
<1> QED BY <1>1, <1>16, <1>17, <1>18

LEMMA ReadWhole ==
  ASSUME NEW rec, IsValue(rec.kind, rec.value), NEW had, rec.kind # "element" => IsSeq(had),
         NEW r, r.pos = rec.start, r.got = had,
         NEW q, ReadIs(rec.kind, r, rec.end, rec.value, q),
         NEW l, l = [record |-> rec, had |-> had, code |-> q.code, got |-> q.got, pos |-> q.pos]
  PROVE  WholeRead(l)
<1>1. PICK kind, value : kind = rec.kind /\ value = rec.value
  OBVIOUS
<1>2. /\ l.record = rec /\ l.had = had /\ l.code = q.code /\ l.got = q.got /\ l.pos = q.pos
      /\ (l.code = "SUCCESS" <=> Ok(q))
  BY DEF Ok
<1>3. /\ Ok(q) => q.pos = rec.end
      /\ ~Ok(q) /\ kind \in Restored => q.pos = rec.start
      /\ kind = "element" => q.got = IF Ok(q) THEN value ELSE had
      /\ kind # "element" => GivesFirst(kind, had, value, q)
  BY <1>1 DEF ReadIs
<1>4. ASSUME kind \in {"list", "values", "multimap"}
      PROVE  /\ IsPrefix(had, q.got) /\ IsPrefix(q.got, had \o value)
             /\ Ok(q) => q.got = had \o value
  <2>1. kind # "element" /\ kind \notin {"map", "entries", "vectors"}
    BY <1>4
  <2>2. IsValue(kind, value)
    BY <1>1
  <2>3. IsSeq(value)
    BY <1>4, <2>2 DEF IsValue, IsList, IsEntries
  <2>4. IsSeq(had) /\ GivesFirst(kind, had, value, q)
    BY <1>1, <1>3, <2>1
  <2> QED BY <1>4, <2>3, <2>4, SequencesGrow
<1> DEFINE first == IF kind = "map" THEN value ELSE had
           second == IF kind = "map" THEN had ELSE value
<1>5. ASSUME kind \in {"map", "entries", "vectors"}
      PROVE  /\ Ok(q) => KeysIn(q.got) = KeysIn(had \o value)
             /\ KeysIn(had) \subseteq KeysIn(q.got)
             /\ \A k \in KeysIn(q.got) :
                  /\ OfIn(q.got, k) \in {OfIn(first, k), OfIn(second, k)}
                  /\ Ok(q) /\ k \in KeysIn(first) => OfIn(q.got, k) = OfIn(first, k)
  <2>1. kind \in Keyed /\ kind # "element"
    BY <1>5 DEF Keyed
  <2>2. IsValue(kind, value) /\ IsSeq(had) /\ GivesFirst(kind, had, value, q)
    BY <1>1, <1>3, <2>1
  <2> QED BY <2>1, <2>2, MapsMerge
<1> QED BY <1>1, <1>2, <1>3, <1>4, <1>5 DEF WholeRead

LEMMA HadIsSeq ==
  ASSUME NEW kind, kind # "element", NEW had \in Had(kind)
  PROVE  IsSeq(had)
<1>1. CASE had = <<>>
  BY <1>1 DEF IsSeq
<1>2. CASE had # <<>>
  <2>1. PICK rec \in Records : rec.kind = kind /\ had = rec.value
    BY <1>2 DEF Had
  <2>2. IsValue(kind, had)
    BY <2>1, RecordsAssumption DEF IsValue
  <2>3. kind \in {"list", "map", "values", "entries", "multimap", "vectors"}
    BY <2>2 DEF IsValue
  <2> QED BY <2>2, <2>3 DEF IsValue, IsList, IsMap, IsEntries
<1> QED BY <1>1, <1>2

Logged(d, n, rec) ==
  /\ IsValue(rec.kind, rec.value)
  /\ rec.start \in Nat /\ rec.end \in 0 .. n
  /\ HoldsAny(d, rec.start, rec.end, rec.kind, rec.value)

ElementsInv ==
  /\ IsWriter(out) /\ IsReader(in) /\ (in.cells = <<>> \/ in.cells = out.cells)
  /\ IsSeq(log) /\ \A i \in 1 .. Len(log) : Logged(out.cells, out.pos, log[i])
  /\ \A l \in ToSet(lastRecord) : WholeRead(l)

LEMMA StillLogged ==
  ASSUME NEW o, NEW p, IsWriter(o), Extends(o, p), NEW rec, Logged(o.cells, o.pos, rec)
  PROVE  Logged(p.cells, p.pos, rec)
<1>1. PICK m, n : m = o.pos /\ n = p.pos
  OBVIOUS
<1>2. m \in Nat /\ n \in Nat /\ m <= n
  BY <1>1 DEF IsWriter, Extends
<1>3. /\ IsValue(rec.kind, rec.value) /\ rec.start \in Nat /\ rec.end \in Nat /\ rec.end <= m
      /\ HoldsAny(o.cells, rec.start, rec.end, rec.kind, rec.value)
  BY <1>1, <1>2 DEF Logged
<1>4. rec.end \in 0 .. n
  BY <1>2, <1>3
<1>5. Agree(o.cells, p.cells, 0, m)
  BY <1>1 DEF Extends
<1>6. Agree(o.cells, p.cells, rec.start, rec.end)
  BY <1>2, <1>3, <1>5 DEF Agree
<1>7. HoldsAny(p.cells, rec.start, rec.end, rec.kind, rec.value)
  BY <1>3, <1>6, AnySame
<1> QED BY <1>1, <1>3, <1>4, <1>7 DEF Logged

LEMMA StreamStarts ==
  ASSUME StreamInit
  PROVE  ElementsInv
<1>1. IsWriter(out)
  BY DEF StreamInit, IsWriter, Outcome, IsSeq
<1>2. IsReader(in) /\ in.cells = <<>>
  BY DEF StreamInit, IsReader, Reader
<1>3. IsSeq(log) /\ Len(log) = 0
  BY DEF StreamInit, IsSeq
<1>4. ToSet(lastRecord) = {}
  BY DEF StreamInit, ToSet
<1> QED BY <1>1, <1>2, <1>3, <1>4 DEF ElementsInv

LEMMA WriteIsLogged ==
  ASSUME ElementsInv, NEW rec \in Records, Write(rec)
  PROVE  ElementsInv'
<1>1. PICK o \in WriteAny(out, rec) :
        /\ IF Ok(o)
           THEN log' = Append(log, [kind |-> rec.kind, value |-> rec.value,
                                    start |-> out.pos, end |-> o.pos])
           ELSE log' = log
        /\ out' = IF rec.kind \in Restored THEN [o EXCEPT !.code = "SUCCESS"] ELSE o
  BY DEF Write
<1>2. Ok(out) /\ in.cells = <<>> /\ in' = in /\ lastRecord' = lastRecord
  BY DEF Write
<1>3. IsValue(rec.kind, rec.value)
  BY RecordsAssumption DEF IsValue
<1>4. /\ IsWriter(out) /\ IsReader(in) /\ IsSeq(log)
      /\ \A i \in 1 .. Len(log) : Logged(out.cells, out.pos, log[i])
      /\ \A l \in ToSet(lastRecord) : WholeRead(l)
  BY DEF ElementsInv
<1>5. Extends(out, o) /\ (Ok(o) => HoldsAny(o.cells, out.pos, o.pos, rec.kind, rec.value))
  BY <1>1, <1>2, <1>3, <1>4, AnyLaid
<1>6. IsWriter(o)
  BY <1>5 DEF Extends
<1>7. IsWriter(out') /\ out'.cells = o.cells /\ out'.pos = o.pos
  <2>1. o = [code |-> o.code, cells |-> o.cells, pos |-> o.pos]
    BY <1>6 DEF IsWriter, Outcome
  <2>2. PICK w : w = IF rec.kind \in Restored THEN [o EXCEPT !.code = "SUCCESS"] ELSE o
    OBVIOUS
  <2>3. w = [code |-> w.code, cells |-> o.cells, pos |-> o.pos]
    BY <2>1, <2>2
  <2>4. IsWriter(w) /\ w.cells = o.cells /\ w.pos = o.pos
    BY <1>6, <2>3 DEF IsWriter, Outcome
  <2>5. out' = w
    BY <1>1, <2>2
  <2> QED BY <2>4, <2>5 DEF IsWriter
<1>8. \A i \in 1 .. Len(log) : Logged(o.cells, o.pos, log[i])
  BY <1>4, <1>5, StillLogged
<1>9. IsSeq(log') /\ \A i \in 1 .. Len(log') : Logged(o.cells, o.pos, log'[i])
  <2>1. CASE ~Ok(o)
    <3>1. log' = log
      BY <1>1, <2>1
    <3> QED BY <1>4, <1>8, <3>1
  <2>2. CASE Ok(o)
    <3>1. PICK e, n : /\ e = [kind |-> rec.kind, value |-> rec.value,
                               start |-> out.pos, end |-> o.pos]
                      /\ n = Len(log)
      OBVIOUS
    <3>2. log' = Append(log, e)
      BY <1>1, <2>2, <3>1
    <3>3. out.pos \in Nat /\ o.pos \in Nat
      BY <1>4, <1>6 DEF IsWriter
    <3>4. Logged(o.cells, o.pos, e)
      BY <1>3, <1>5, <2>2, <3>1, <3>3 DEF Logged
    <3>5. PICK z : z = Append(log, e)
      OBVIOUS
    <3>6. n \in Nat /\ IsSeq(z) /\ Len(z) = n + 1 /\ z[n + 1] = e
          /\ \A i \in 1 .. n : z[i] = log[i]
      BY <1>4, <3>1, <3>5, AppendSeq, SeqIs
    <3>7. \A i \in 1 .. n : Logged(o.cells, o.pos, z[i])
      BY <1>8, <3>1, <3>6
    <3>8. \A i \in 1 .. n + 1 : i \in 1 .. n \/ i = n + 1
      BY <3>6
    <3>9. \A i \in 1 .. Len(z) : Logged(o.cells, o.pos, z[i])
      BY <3>4, <3>6, <3>7, <3>8
    <3> QED BY <3>2, <3>5, <3>6, <3>9
  <2> QED BY <2>1, <2>2
<1>10. IsReader(in')
  BY <1>2, <1>4 DEF IsReader
<1>11. (\A l \in ToSet(lastRecord) : WholeRead(l))'
  BY <1>2, <1>4
<1> QED BY <1>2, <1>7, <1>9, <1>10, <1>11 DEF ElementsInv

LEMMA ReceiveIsFresh ==
  ASSUME ElementsInv, Receive
  PROVE  ElementsInv'
<1>1. PICK limit \in 0 .. out.pos : in' = Reader(out.cells, 0, limit, <<>>)
  BY DEF Receive
<1>2. out' = out /\ log' = log /\ lastRecord' = lastRecord
  BY DEF Receive
<1>3. /\ IsWriter(out) /\ IsReader(in) /\ IsSeq(log)
      /\ \A i \in 1 .. Len(log) : Logged(out.cells, out.pos, log[i])
      /\ \A l \in ToSet(lastRecord) : WholeRead(l)
  BY DEF ElementsInv
<1>4. PICK q : q = Reader(out.cells, 0, limit, <<>>)
  OBVIOUS
<1>5. IsReader(q) /\ q.cells = out.cells
  BY <1>4 DEF IsReader, Reader
<1>6. in' = q
  BY <1>1, <1>4
<1> QED BY <1>2, <1>3, <1>5, <1>6 DEF ElementsInv

LEMMA ReadIsWhole ==
  ASSUME ElementsInv, Read
  PROVE  ElementsInv'
<1>0. PICK i \in DOMAIN log :
        /\ Ok(in) /\ in.cells # <<>> /\ in.pos = log[i].start
        /\ \E had \in Had(log[i].kind) :
             Finish(log[i], had, ReadAny([in EXCEPT !.got = had], log[i].kind))
        /\ UNCHANGED <<out, log>>
  BY DEF Read
<1>1. PICK had \in Had(log[i].kind) :
        Finish(log[i], had, ReadAny([in EXCEPT !.got = had], log[i].kind))
  BY <1>0
<1>2. out' = out /\ log' = log /\ Ok(in)
  BY <1>0
<1>3. /\ IsWriter(out) /\ IsReader(in) /\ IsSeq(log)
      /\ in.cells = <<>> \/ in.cells = out.cells
      /\ \A j \in 1 .. Len(log) : Logged(out.cells, out.pos, log[j])
  BY DEF ElementsInv
<1>4. PICK rec, r, s : /\ rec = log[i] /\ r = [in EXCEPT !.got = had]
                       /\ s = ReadAny(r, rec.kind)
  OBVIOUS
<1>5. /\ in' = [s EXCEPT !.got = <<>>,
                         !.code = IF rec.kind \in Restored THEN "SUCCESS" ELSE @]
      /\ lastRecord' = <<[record |-> rec, had |-> had, code |-> s.code,
                          got |-> s.got, pos |-> s.pos]>>
      /\ in.cells # <<>> /\ in.pos = rec.start
  <2>1. Finish(rec, had, s) /\ in.cells # <<>> /\ in.pos = rec.start
    BY <1>0, <1>1, <1>4
  <2> QED BY <2>1 DEF Finish
<1>6. Logged(out.cells, out.pos, rec)
  BY <1>3, <1>4, SeqIs
<1>7. rec.kind # "element" => IsSeq(had)
  BY <1>4, HadIsSeq
<1>8. /\ IsReader(r) /\ r.cells = out.cells /\ r.pos = rec.start /\ r.got = had /\ Ok(r)
  BY <1>2, <1>3, <1>4, <1>5, GotIs DEF Reads
<1>9. IsValue(rec.kind, rec.value) /\ HoldsAny(r.cells, r.pos, rec.end, rec.kind, rec.value)
  BY <1>6, <1>8 DEF Logged
<1>10. ReadIs(rec.kind, r, rec.end, rec.value, ReadAny(r, rec.kind))
  BY <1>7, <1>8, <1>9, AnyRead
<1>11. ReadIs(rec.kind, r, rec.end, rec.value, s)
  BY <1>4, <1>10
<1>12. PICK l : l = [record |-> rec, had |-> had, code |-> s.code, got |-> s.got, pos |-> s.pos]
  OBVIOUS
<1>13. WholeRead(l)
  BY <1>7, <1>8, <1>9, <1>11, <1>12, ReadWhole
<1>14. \A x \in ToSet(lastRecord') : WholeRead(x)
  <2>1. ToSet(<<l>>) = {l}
    BY DEF ToSet
  <2> QED BY <1>5, <1>12, <1>13, <2>1
<1>15. IsReader(in') /\ in'.cells = out.cells
  <2>1. IsReader(s) /\ s.cells = out.cells
    BY <1>8, <1>11 DEF ReadIs, Reads
  <2>2. PICK c : c = IF rec.kind \in Restored THEN "SUCCESS" ELSE s.code
    OBVIOUS
  <2>3. PICK q : q = [code |-> c, cells |-> s.cells, pos |-> s.pos, limit |-> s.limit, got |-> <<>>]
    OBVIOUS
  <2>4. s = [code |-> s.code, cells |-> s.cells, pos |-> s.pos, limit |-> s.limit, got |-> s.got]
    BY <2>1 DEF IsReader
  <2>5. in' = q
    <3>1. PICK sc, sp, sl : sc = s.cells /\ sp = s.pos /\ sl = s.limit
      OBVIOUS
    <3>2. PICK so, sg : so = s.code /\ sg = s.got
      OBVIOUS
    <3>3. PICK z : z = [code |-> so, cells |-> sc, pos |-> sp, limit |-> sl, got |-> sg]
      OBVIOUS
    <3>4. s = z /\ z.code = so
      BY <2>4, <3>1, <3>2, <3>3
    <3>5. [z EXCEPT !.got = <<>>, !.code = c]
            = [code |-> c, cells |-> sc, pos |-> sp, limit |-> sl, got |-> <<>>]
      <4>1. PICK y : y = [code |-> so, cells |-> sc, pos |-> sp, limit |-> sl, got |-> <<>>]
        OBVIOUS
      <4>2. [z EXCEPT !.got = <<>>] = y
        BY <3>3, <4>1
      <4>3. [y EXCEPT !.code = c]
              = [code |-> c, cells |-> sc, pos |-> sp, limit |-> sl, got |-> <<>>]
        BY <4>1
      <4> QED BY <4>2, <4>3
    <3>6. in' = [z EXCEPT !.got = <<>>, !.code = c]
      BY <1>5, <2>2, <3>2, <3>4
    <3> QED BY <2>3, <3>1, <3>5, <3>6
  <2>6. IsReader(q) /\ q.cells = out.cells
    BY <2>1, <2>3 DEF IsReader
  <2> QED BY <2>5, <2>6
<1> QED BY <1>2, <1>3, <1>14, <1>15 DEF ElementsInv

\* ReadsAreWhole: a read gives what was written and ends where it ends, added to
\* what the caller has, and a failed one is as if it had not begun, or gives a whole
\* part of what was written; for any elements, vectors and maps, written and read
\* any number of times, with failures anywhere.
THEOREM ElementsAreReadWhole == StreamSpec => []ReadsAreWhole
<1>1. StreamInit => ElementsInv
  BY StreamStarts
<1>2. ElementsInv /\ [StreamNext]_stream => ElementsInv'
  <2> SUFFICES ASSUME ElementsInv, [StreamNext]_stream PROVE ElementsInv'
    OBVIOUS
  <2>1. CASE Receive
    BY <2>1, ReceiveIsFresh
  <2>2. CASE Read
    BY <2>2, ReadIsWhole
  <2>3. ASSUME NEW rec \in Records, Write(rec) PROVE ElementsInv'
    BY <2>3, WriteIsLogged
  <2>4. CASE UNCHANGED stream
    BY <2>4 DEF stream, ElementsInv
  <2> QED BY <2>1, <2>2, <2>3, <2>4 DEF StreamNext
<1>3. ElementsInv => ReadsAreWhole
  BY WholeReads DEF ElementsInv
<1> QED BY <1>1, <1>2, <1>3, PTL DEF StreamSpec
=============================================================================
