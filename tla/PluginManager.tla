----------------------------- MODULE PluginManager -----------------------------
(***************************************************************************)
(* The plugin manager (PluginManager.cc, Plugin.cc, Singleton.h).  A       *)
(* plugin is a static object of a library: its constructor registers it    *)
(* when the library is loaded, for the core library before main().         *)
(*                                                                         *)
(* Libraries are opened with RTLD_NODELETE: closing one runs nothing, and  *)
(* opening one again runs no constructor.  A plugin of a name that is      *)
(* taken is deleted by registerPlugin(), static object and in the middle   *)
(* of its constructor as it is, which then throws through dlopen(): from   *)
(* there on the process does anything, or ends.                            *)
(***************************************************************************)
EXTENDS Naturals, Sequences, SequencesExt

CONSTANTS
  Libraries,   \* the libraries a user may name
  PluginsOf,   \* the plugins in each, in the order of construction
  CorePlugins, \* those of the core library
  MaxLoads     \* bound: libraries opened since the manager was made

\* A plugin: its name, the type it is of, and the class it makes objects of.
Plugin(name, type, class) == [name |-> name, type |-> type, class |-> class]

NoPlugin == "no plugin"   \* the null pointer of getPlugin() and create()

VARIABLES
  pluginMap,    \* m_pluginMap: the plugin of each name
  dlLibraries,  \* m_dlLibraries: the libraries opened by this manager
  mapped,       \* the libraries in the process, for good
  toLoad,       \* what is left of the list of loadLibraries()
  killed,       \* kill() was called
  process       \* "running", or "undefined"

manager == <<pluginMap, dlLibraries, mapped, toLoad, killed, process>>

Names(plugins) == {p.name : p \in Range(plugins)}

\* The map once every plugin of the sequence that finds its name free is in it.
Register(map, plugins) ==
  [n \in DOMAIN map \union Names(plugins) |->
     IF n \in DOMAIN map THEN map[n]
     ELSE plugins[CHOOSE i \in DOMAIN plugins :
            /\ plugins[i].name = n
            /\ \A j \in 1 .. i - 1 : plugins[j].name # n]]

\* Only the plugins of one library are told apart.
CollidesWithin(map, plugins) ==
  \E i, j \in DOMAIN plugins : i # j /\ plugins[i].name = plugins[j].name

\* A plugin of the sequence finds its name taken.
Collides(map, plugins) ==
  \/ Names(plugins) \intersect DOMAIN map # {}
  \/ \E i, j \in DOMAIN plugins : i # j /\ plugins[i].name = plugins[j].name

\* What constructors register is a sequence; the plugins of the core library have
\* names of their own.
ASSUME PluginAssumption ==
  /\ MaxLoads \in Nat
  /\ DOMAIN PluginsOf \subseteq Libraries   \* the others cannot be opened
  /\ \A lib \in DOMAIN PluginsOf : PluginsOf[lib] \in Seq(Range(PluginsOf[lib]))
  /\ CorePlugins \in Seq(Range(CorePlugins)) /\ ~Collides(<<>>, CorePlugins)

ManagerInit ==
  /\ pluginMap = Register(<<>>, CorePlugins)
  /\ dlLibraries = <<>> /\ mapped = {} /\ toLoad = <<>>
  /\ killed = FALSE
  /\ process = "running"

Idle == process = "running" /\ toLoad = <<>>

\* The list is given, or comes from DQM4HEP_PLUGIN_DLL, split at colons.
LoadLibraries(libs) ==
  /\ Len(dlLibraries) + Len(SelectSeq(libs, LAMBDA lib : lib \in DOMAIN PluginsOf))
       <= MaxLoads
  /\ toLoad' = libs
  /\ UNCHANGED <<pluginMap, dlLibraries, mapped, killed, process>>

\* The library cannot be opened, and those after it are not tried.
CannotOpen(lib) ==
  /\ lib \notin DOMAIN PluginsOf
  /\ toLoad' = <<>>
  /\ UNCHANGED <<pluginMap, dlLibraries, mapped, killed, process>>

\* dlopen() with the constructors it runs, or none the second time.
Open(lib) ==
  /\ lib \in DOMAIN PluginsOf
  /\ toLoad' = Tail(toLoad)
  /\ dlLibraries' = Append(dlLibraries, lib)
  /\ mapped' = mapped \union {lib}
  /\ pluginMap' = IF lib \in mapped THEN pluginMap
                  ELSE Register(pluginMap, PluginsOf[lib])
  /\ process' = IF lib \notin mapped /\ Collides(pluginMap, PluginsOf[lib])
                THEN "undefined" ELSE process
  /\ UNCHANGED killed

LoadLibrary ==
  /\ process = "running" /\ toLoad # <<>>
  /\ \/ Open(Head(toLoad))
     \/ CannotOpen(Head(toLoad))

\* ~PluginManager(); the next call of instance() makes a new, empty manager.
Kill ==
  /\ pluginMap' = <<>> /\ dlLibraries' = <<>>
  /\ killed' = TRUE
  /\ UNCHANGED <<mapped, toLoad, process>>

\* create<T>() for T = type: another type gives null, and leaks the object made.
Create(name, type) ==
  IF name \in DOMAIN pluginMap /\ pluginMap[name].type = type
  THEN pluginMap[name].class ELSE NoPlugin
-----------------------------------------------------------------------------
\* While the process is defined and its first manager lives, the plugins of the
\* core library and of every library loaded are all found by their names, none
\* having taken the name of another (registerPlugin(), PluginManager.cc:143).
LoadedPluginsAreFound ==
  process = "running" /\ ~killed =>
    \A p \in Range(CorePlugins) \union
             UNION {Range(PluginsOf[lib]) : lib \in Range(dlLibraries)} :
      p.name \in DOMAIN pluginMap /\ pluginMap[p.name] = p
=============================================================================
