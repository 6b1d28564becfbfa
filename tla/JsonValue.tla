------------------------------- MODULE JsonValue -------------------------------
(***************************************************************************)
(* JSON values (class basic_json of json.h): a type and what it says of    *)
(* the value.  An object is a function on its keys, an array a sequence.   *)
(***************************************************************************)
EXTENDS Integers, SequencesExt, FiniteSetsExt

CONSTANT Keys   \* the keys of objects, in the order of strings

Value(type, v) == [type |-> type, value |-> v]
Null      == Value("null", <<>>)
Discarded == Value("discarded", <<>>)
Array(s)  == Value("array", s)
Object(f) == Value("object", f)
Str(s)    == Value("string", s)

IsStructured(v) == v.type \in {"array", "object"}

\* The keys of an object in their order.
KeysOf(v) == SelectSeq(Keys, LAMBDA k : k \in DOMAIN v.value)

\* The element of a key is replaced, or only set where there is none.
Put(f, k, v)     == (k :> v) @@ f
Emplace(f, k, v) == f @@ (k :> v)
Without(f, k)    == [x \in DOMAIN f \ {k} |-> f[x]]

Integral == {"number_integer", "number_unsigned"}

RECURSIVE Equal(_, _)

\* operator==: numbers are compared across their types.
Equal(a, b) ==
  CASE a.type = "array" /\ b.type = "array" ->
         Len(a.value) = Len(b.value) /\ \A i \in DOMAIN a.value : Equal(a.value[i], b.value[i])
    [] a.type = "object" /\ b.type = "object" ->
         DOMAIN a.value = DOMAIN b.value /\ \A k \in DOMAIN a.value : Equal(a.value[k], b.value[k])
    [] {a.type, b.type} \subseteq Integral -> a.value = b.value
    [] a.type # b.type /\ ~({a.type, b.type} \subseteq Integral) -> FALSE
    [] OTHER -> a.type # "discarded" /\ a.value = b.value
=============================================================================
