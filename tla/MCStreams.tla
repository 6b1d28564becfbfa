------------------------------- MODULE MCStreams -------------------------------
(***************************************************************************)
(* Events and monitor elements, as owners of objects and as what goes      *)
(* through a device.  Three modules that share no state: a behaviour is    *)
(* about one of them, its subject, and the others rest.                    *)
(*                                                                         *)
(* EventStream with two base records, one content, and three libraries: a  *)
(* streamer, one with the name of a core plugin, one that does not open.   *)
(* ElementStream with records of each kind, whole and with a null element, *)
(* keys that meet.  Ownership with a handle, an element and a wrapper.     *)
(***************************************************************************)
EXTENDS EventStream, Ownership, ElementStream, TLC

MCBases == {"b1", "b2"}
MCContents == {"c1"}
MCCorePlugins ==
  <<Plugin("Buffer", "EventStreamerPlugin", "Buffer"),
    Plugin("Generic", "EventStreamerPlugin", "Generic"),
    Plugin("Root", "EventStreamerPlugin", "Root"),
    Plugin("Chi2Test", "QualityTestFactory", "Chi2Test")>>
MCPluginsOf ==
  [streamer |-> <<Plugin("other", "EventStreamerPlugin", "Buffer")>>,
   clash |-> <<Plugin("other", "QualityTestFactory", "OtherTest"),
              Plugin("Root", "QualityTestFactory", "RootTest")>>]
-----------------------------------------------------------------------------
CONSTANTS x1, x2, k1, k2, v1, v2

e1 == [path |-> "p", object |-> x1, reference |-> NoObject]
e2 == [path |-> "q", object |-> x2, reference |-> x1]

MCRecords ==
  {[kind |-> "element", value |-> v] : v \in {e1, e2, NoObject}} \union
  {[kind |-> "list", value |-> v] : v \in {<<>>, <<e1, e2>>, <<e1, NoObject>>}} \union
  {[kind |-> "map", value |-> v] :
     v \in {<<<<k1, <<e1>>>>, <<k2, <<e2>>>>>>, <<<<k1, <<e2, e1>>>>>>}} \union
  {[kind |-> "values", value |-> <<v1, v2>>],
   [kind |-> "entries", value |-> <<<<k1, v1>>, <<k2, v2>>>>],
   [kind |-> "entries", value |-> <<<<k2, v1>>>>],
   [kind |-> "multimap", value |-> <<<<k1, v1>>, <<k1, v2>>>>],
   [kind |-> "vectors", value |-> <<<<k1, <<v1, v2>>>>, <<k2, <<>>>>>>],
   [kind |-> "vectors", value |-> <<<<k2, <<v1>>>>>>]}
-----------------------------------------------------------------------------
\* Objects are told apart by nothing.
AnyObject == Permutations(Objects)

VARIABLE subject

MCInit == Init /\ OwnershipInit /\ StreamInit /\ subject \in {"events", "memory", "elements"}

MCNext ==
  /\ UNCHANGED subject
  /\ \/ subject = "events" /\ Next /\ UNCHANGED <<memory, stream>>
     \/ subject = "memory" /\ OwnershipNext /\ UNCHANGED <<vars, stream>>
     \/ subject = "elements" /\ StreamNext /\ UNCHANGED <<vars, memory>>

MCSpec == MCInit /\ [][MCNext]_<<vars, memory, stream, subject>>
=============================================================================
