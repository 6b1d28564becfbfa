------------------------------- MODULE MCJson -------------------------------
(***************************************************************************)
(* TLC instance: JSON texts, tokens, patches and binary forms, and Signal. *)
(* One of the five is at work in a behaviour, its subject.                 *)
(*                                                                         *)
(* Signal with two methods of one object and one function, room for four   *)
(* connections, emissions nested twice; Init, Next and vars are Signal's.  *)
(***************************************************************************)
EXTENDS JsonLexer, JsonParser, JsonPatch, JsonBinary, Signal

VARIABLE subject   \* "lexer", "parser", "patch", "binary" or "signal"

A == <<97>>   \* the keys "a" and "~", and others
B == <<98>>
MCKeys == <<<<>>, <<47>>, <<48>>, A, <<97, 47>>, B, <<126>>, <<126, 49>>>>

Number(n) == Value("number_unsigned", n)
True == Value("boolean", 1)
Objects(D, V) == {Object(f) : f \in UNION {[d -> V] : d \in {d \in SUBSET D : Cardinality(d) <= 2}}}
-----------------------------------------------------------------------------
(* Bytes: pieces of strings, lead bytes with those after them, numbers.    *)

StringPieces ==
  {<<97>>, <<Quote>>, <<0>>, <<31>>, <<127>>, <<Backslash>>, <<Backslash, 110>>, <<Backslash, Slash>>,
   <<Backslash, Backslash>>, <<92, 117, 100, 56, 51, 68>>, <<92, 117, 68, 67, 48, 48>>,
   <<92, 117, 48, 48, 69, 57>>, <<92, 117, 48, 48, 48, 103>>, <<92, 117, 100, 102, 102, 102>>,
   <<92, 117, 100, 98, 102, 102>>, <<92, 117, 70, 70, 70, 70>>}
  \union {<<b>> : b \in {128, 143, 144, 159, 160, 191, 193, 194, 223, 224, 236, 237, 240, 244, 245}}
Followers == {<<128>>, <<143>>, <<144>>, <<159>>, <<160>>, <<191>>}
Leads3 == {<<224>>, <<236>>, <<237>>, <<240>>, <<241>>, <<244>>}
Leads4 == {<<240>>, <<241>>, <<244>>}

MCTexts ==
  {<<Quote>> \o FlattenSeq(p) \o <<Quote>> :
     p \in SeqOf(StringPieces, 2) \union {<<a, b, c>> : a \in Leads3, b, c \in Followers}
           \union {<<a, b, <<191>>, c>> : a \in Leads4, b, c \in Followers}}
  \union SeqOf({Minus, Plus, Point, Zero, 49, 57, 101, 44, 32}, 4)
  \union {<<116, 114, 117, 101>>, <<116, 114, 117>>, <<110, 117, 108, 108, 44>>, <<91, 32, 93>>,
          <<123, 58, 125>>, <<102, 97, 108, 115, 101>>, <<120>>, <<>>, <<0>>}

CodePoints == {0, 8, 31, 34, 47, 92, 127, 128, 2047, 2048, 55295, 57344, 65535, 65536, 1114111}
MCTokens ==
  {TokenOf("value_integer", n) : n \in -8..7} \union {TokenOf("value_unsigned", n) : n \in 0..15}
  \union {TokenOf("value_string", Bytes(c) \o Bytes(d)) : c, d \in CodePoints}
  \union {TokenOf("value_string", s) :
            s \in {<<>>, <<128>>, <<97, 194>>, <<237, 160, 128>>, <<192, 128>>, <<224, 160>>, <<244, 144, 128, 128>>}}
  \union {TokenOf("value_float", s) : s \in {<<49>>, <<49, 101, 57>>}}
-----------------------------------------------------------------------------
(* Tokens, and values with few parts.                                      *)

Signs == {Sign("begin_object"), Sign("end_object"), Sign("begin_array"), Sign("end_array"),
          Sign("name_separator"), Sign("value_separator"), Tok("string", A), Tok("number_float", "inf")}
MCTokenTexts ==
  SeqOf(Signs, 3) \union {<<Sign("begin_object"), Tok("string", A), Sign("name_separator")>> \o s : s \in SeqOf(Signs, 3)}
  \union {<<Sign("begin_array"), Sign("null")>> \o s : s \in SeqOf(Signs, 3)}

Simple == {Null, Str(A), True, Number(1), Value("number_integer", -1), Value("number_float", "inf")}
Level1 == Simple \union {Array(s) : s \in SeqOf({Str(A), Null}, 2)} \union Objects({A, B}, {Str(A), Number(1)})
MCDumped ==
  Level1 \union {Array(<<x, y>>) : x, y \in Level1} \union {Discarded}
  \union {Object(A :> x @@ B :> y) :
            x, y \in {Null, Array(<<>>), Object(<<>>), Array(<<Str(A)>>), Object(B :> Null)}}
-----------------------------------------------------------------------------
(* Values to patch, and patches of one or two operations.                  *)

Sources1 ==
  {Null, Number(1), True} \union {Array(s) : s \in SeqOf({Null, Number(1)}, 3)}
  \union Objects(ToSet(MCKeys) \ {B}, {Number(1)})
MCSources ==
  Sources1
  \union {Array(s) : s \in SeqOf({Number(1), Array(<<>>), Array(<<Number(1), True>>), Object(A :> Number(1))}, 2)}
  \union Objects({A, <<126>>, <<48>>}, {Number(1), Object(A :> Null), Array(<<Number(1)>>), Array(<<True, Number(1)>>)})

Path(tokens) == FlattenSeq([i \in DOMAIN tokens |-> <<47>> \o tokens[i]])
Paths ==
  {A, <<47, 126>>}
  \union {Path(t) : t \in {<<>>, <<A>>, <<(<<>>)>>, <<(<<48>>)>>, <<(<<49>>)>>, <<PastEnd>>, <<(<<126, 48>>)>>,
                           <<A, <<48>>>>, <<A, A>>, <<(<<48>>), <<49>>>>, <<(<<48>>), A>>, <<(<<48, 49>>)>>,
                           <<A, <<48>>, PastEnd>>, <<A, PastEnd, A>>, <<A, <<49>>, <<48>>>>}}
Operations ==
  {Op(o, p, v) : o \in {"add", "replace", "test"}, p \in Paths, v \in {Number(1), Array(<<Number(1)>>)}}
  \union {Op(o, p, f) : o \in {"move", "copy"}, p, f \in Paths}
  \union {Op("remove", p, <<>>) : p \in Paths} \union {Op("bad", <<>>, <<>>)}
Few == {Op("add", Path(<<(<<48>>)>>), Array(<<Number(1)>>)), Op("remove", Path(<<A>>), <<>>),
        Op("copy", Path(<<(<<126, 48>>)>>), Path(<<A>>))}
MCPatches == {<<o>> : o \in Operations} \union {<<o, p>> : o, p \in Few} \union {<<>>}
-----------------------------------------------------------------------------
(* Numbers and lengths around the limits of 3 and 6 bits and so on.        *)

Near == UNION {{x - 1, x, x + 1} : x \in {0, 2, 4, 8, 32, 64, 2048, 4096, 8388608}} \union {16777215}
Numbers ==
  {Number(n) : n \in Near \intersect Nat}
  \union {Value("number_integer", n) : n \in ({-x : x \in Near} \union Near) \intersect -8388608 .. 8388607}
Strings == {Str([i \in 1 .. n |-> i % 3]) : n \in {0, 1, 2, 3, 4, 5, 7, 8, 9, 63, 64, 65}}
Arrays == {Array([i \in 1 .. n |-> x]) : n \in {0, 1, 2, 3, 4, 7, 8, 9, 64}, x \in {Null, Number(3)}}
Float == Value("number_float", 5)
Parts ==
  {Null, True, Number(3), Value("number_integer", 3), Value("number_integer", -5), Number(5), Float, Str(<<0>>),
   Array(<<>>), Array(<<Null>>), Object(<<>>), Object(A :> Null), Array(<<Number(40)>>)}
MCBinaryValues ==
  Numbers \union Strings \union Arrays \union Parts
  \union {Array(<<x, y>>) : x, y \in Parts} \union {Object(A :> x @@ <<97, 47>> :> y) : x, y \in Parts}
  \union {Object([k \in ToSet(SubSeq(MCKeys, 1, n)) |-> Null]) : n \in 0..4}

In(f, s) == [format |-> f, items |-> s]
MCForeign ==
  {In("cbor", <<Item("array", 7), Item("uint", 1), Item("string", 7), Byte(1), Byte(2), Break, Break>>),
   In("cbor", <<Item("map", 7), Item("string", 7), Byte(97), Break, Item("uint", 1),
                Item("string", 1), Byte(97), Item("uint", 2), Break>>),
   In("cbor", <<Item("map", 2), Item("string", 1), Byte(97), Item("uint", 1),
                Item("string", 1), Byte(97), Item("negative", 2)>>),
   In("cbor", <<Item("map", 1), Item("uint", 1), Item("uint", 1)>>),
   In("msgpack", <<Item("array", 2), Byte(0), Byte(1), Item("int", 1), Byte(3)>>),
   In("msgpack", <<Item("fixmap", 2), Item("fixstr", 0), Item("null", 0), Item("str", 1), Byte(0), Item("positive", 1)>>),
   In("ubjson", <<Noop, Item("array", 0), Noop, Item("int8", 0), Byte(3), Noop, Item("char", 0), Byte(3), Noop,
                  Item("end_array", 0), Noop>>),
   In("ubjson", <<Item("char", 0), Byte(4)>>),
   In("ubjson", <<Item("array", 0), Item("$", 0), Noop, Item("#", 0), Item("uint8", 0), Byte(2)>>),
   In("ubjson", <<Item("array", 0), Item("$", 0), Item("null", 0), Item("uint8", 0), Byte(2)>>),
   In("ubjson", <<Item("array", 0), Item("#", 0), Item("int8", 0), Byte(5), Item("null", 0), Item("null", 0)>>),
   In("ubjson", <<Item("object", 0), Item("#", 0), Item("int8", 0), Byte(7), Item("end_object", 0)>>),
   In("ubjson", <<Item("string", 0), Item("int8", 0), Byte(7)>>)}
-----------------------------------------------------------------------------
(* Signal.                                                                 *)

CONSTANTS m1, m2, f1, obj

MCTargets == {m1, m2, f1}
MCReceiverOf == (m1 :> obj) @@ (m2 :> obj) @@ (f1 :> NoReceiver)
MCSymmetry == Permutations(Conns) \cup Permutations({m1, m2})
-----------------------------------------------------------------------------
Idle(who) ==
  /\ who # "lexer"  => /\ input = <<>> /\ at = 1 /\ lexing = "none" /\ start = 1 /\ token_buffer = <<>>
                       /\ number = "init" /\ token = Nothing /\ dumped = <<>>
  /\ who # "parser" => /\ text = <<>> /\ pos = 1 /\ parsing = "none" /\ frames = <<>> /\ keep = TRUE
                       /\ parsed = Null /\ depth = 0 /\ errored = FALSE /\ refused = FALSE
                       /\ options = [callback |-> FALSE, allow_exceptions |-> FALSE, strict |-> FALSE]
                       /\ written = <<>>
  /\ who # "patch"  => source = Null /\ result = Null /\ rest = <<>> /\ outcome = "none" /\ aim = <<>>
  /\ who # "binary" => format = "none" /\ json = Null /\ items = <<>> /\ phase = "none" /\ original = <<>>

MCInit ==
  /\ subject \in {"lexer", "parser", "patch", "binary", "signal"} /\ Idle(subject) /\ Init
  /\ CASE subject = "lexer"  -> LexInit
       [] subject = "parser" -> ParserInit
       [] subject = "patch"  -> PatchInit
       [] subject = "binary" -> BinaryInit
       [] subject = "signal" -> TRUE

MCNext ==
  /\ UNCHANGED subject
  /\ \/ subject = "lexer"  /\ LexNext    /\ UNCHANGED <<parserVars, patchVars, binaryVars, vars>>
     \/ subject = "parser" /\ ParserNext /\ UNCHANGED <<lexVars, patchVars, binaryVars, vars>>
     \/ subject = "patch"  /\ PatchNext  /\ UNCHANGED <<lexVars, parserVars, binaryVars, vars>>
     \/ subject = "binary" /\ BinaryNext /\ UNCHANGED <<lexVars, parserVars, patchVars, vars>>
     \/ subject = "signal" /\ Next       /\ UNCHANGED <<lexVars, parserVars, patchVars, binaryVars>>

MCSpec == MCInit /\ [][MCNext]_<<lexVars, parserVars, patchVars, binaryVars, vars, subject>>
=============================================================================
