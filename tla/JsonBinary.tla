------------------------------- MODULE JsonBinary -------------------------------
(***************************************************************************)
(* CBOR, MessagePack and UBJSON (json.h: the classes binary_writer and     *)
(* binary_reader).  A byte that tells what follows is a head: its kind     *)
(* and the small number that is part of it.  All other bytes are digits of *)
(* numbers in network order and characters.  The base of the digits and    *)
(* the limits of the small numbers are constants; a float stays one item.  *)
(***************************************************************************)
EXTENDS JsonValue, TLC

CONSTANTS
  Base,          \* 256
  Small,         \* 23 of CBOR
  FixNegative,   \* 32 of MessagePack
  FixString,     \* 31
  FixSize,       \* 15
  BinaryValues,  \* values that are written
  Foreign        \* records of a format and of items of other writers that are read

ASSUME LimitAssumption ==
  /\ {Base, Small, FixNegative, FixString, FixSize} \subseteq Nat /\ Base % 2 = 0
  /\ Small < Base /\ FixString < Base /\ FixNegative <= Base \div 2

VARIABLES
  format,     \* a format of Formats
  json,       \* the value to be written, or that was read
  items,      \* what was written, or is to be read
  phase,      \* "value", "items", "read", "thrown" or "refused"
  original    \* the value that was written before it was read, or nothing

binaryVars == <<format, json, items, phase, original>>

UbFormats == {"ubjson", "ubjson_count", "ubjson_type"}
Formats == {"cbor", "msgpack"} \union UbFormats

Item(kind, n) == [kind |-> kind, n |-> n]
Byte(d) == Item("byte", d)
None == Item("none", 0)
NoItem  == Item("eof", 0)
Noop == Item("noop", 0)
Widths == <<1, 2, 4, 8>>
-----------------------------------------------------------------------------
(* write_number(): the digits, of a negative number in two's complement.   *)

\* The digits of a little endian machine as they are in memory.
Unreversed(n, w) == [i \in 1 .. w |-> Byte(((n % Base^w) \div Base^(i - 1)) % Base)]

Digits(n, w) == [i \in 1 .. w |-> Byte(((n % Base^w) \div Base^(w - i)) % Base)]

\* The first of the widths whose unsigned or signed numbers have n; one too many if none has.
FirstOf(s, Test(_)) == Min({k \in DOMAIN s : Test(s[k])} \union {Len(s) + 1})
UnsignedWidth(n, ws) == FirstOf(ws, LAMBDA w : n < Base^w)
SignedWidth(n, ws)   == FirstOf(ws, LAMBDA w : n \in -(Base^w \div 2) .. Base^w \div 2 - 1)

Chars(s) == [i \in DOMAIN s |-> Byte(s[i])]
-----------------------------------------------------------------------------
(* write_cbor().                                                           *)

CborHead(major, n) ==
  LET k == UnsignedWidth(n, Widths)
  IN  IF n <= Small THEN <<Item(major, n)>>
      ELSE <<Item(major, Small + k)>> \o Digits(n, Widths[k])

RECURSIVE Cbor(_)

Cbor(v) ==
  CASE v.type = "null" -> <<Item("null", 0)>>
    [] v.type \in {"boolean", "number_float"} -> <<Item(v.type, v.value)>>
    [] v.type \in Integral ->
         IF v.value >= 0 THEN CborHead("uint", v.value) ELSE CborHead("negative", -1 - v.value)
    [] v.type = "string" -> CborHead("string", Len(v.value)) \o Chars(v.value)
    [] v.type = "array"  ->
         CborHead("array", Len(v.value)) \o FlattenSeq([i \in DOMAIN v.value |-> Cbor(v.value[i])])
    [] v.type = "object" ->
         CborHead("map", Len(KeysOf(v)))
           \o FlattenSeq([i \in DOMAIN KeysOf(v) |-> Cbor(Str(KeysOf(v)[i])) \o Cbor(v.value[KeysOf(v)[i]])])
-----------------------------------------------------------------------------
(* write_msgpack().                                                        *)

\* A length: in the head up to a limit, else with one of the widths.
PackHead(fix, limit, kind, ws, n) ==
  LET k == UnsignedWidth(n, ws)
  IN  IF n <= limit THEN <<Item(fix, n)>>
      ELSE IF k > Len(ws) THEN <<>> ELSE <<Item(kind, ws[k])>> \o Digits(n, ws[k])

PackNumber(n) ==
  CASE n \in 0 .. Base \div 2 - 1 -> <<Item("positive", n)>>
    [] n >= Base \div 2 -> LET w == Widths[UnsignedWidth(n, Widths)] IN <<Item("uint", w)>> \o Digits(n, w)
    [] n \in -FixNegative .. -1 -> <<Item("negative", n)>>
    [] n < -FixNegative -> LET w == Widths[SignedWidth(n, Widths)] IN <<Item("int", w)>> \o Digits(n, w)

PackString(s) == PackHead("fixstr", FixString, "str", <<1, 2, 4>>, Len(s)) \o Chars(s)

RECURSIVE Pack(_)

Pack(v) ==
  CASE v.type = "null" -> <<Item("null", 0)>>
    [] v.type \in {"boolean", "number_float"} -> <<Item(v.type, v.value)>>
    [] v.type \in Integral -> PackNumber(v.value)
    [] v.type = "string" -> PackString(v.value)
    [] v.type = "array"  ->
         PackHead("fixarray", FixSize, "array", <<2, 4>>, Len(v.value))
           \o FlattenSeq([i \in DOMAIN v.value |-> Pack(v.value[i])])
    [] v.type = "object" ->
         PackHead("fixmap", FixSize, "map", <<2, 4>>, Len(KeysOf(v)))
           \o FlattenSeq([i \in DOMAIN KeysOf(v) |-> PackString(KeysOf(v)[i]) \o Pack(v.value[KeysOf(v)[i]])])
-----------------------------------------------------------------------------
(* write_ubjson().                                                         *)

\* i, U, I, l and L: widths of signed numbers, but of the second.
UbKinds  == <<"int8", "uint8", "int16", "int32", "int64">>
UbWidths == <<1, 1, 2, 4, 8>>
UbFits(n, k) ==
  IF UbKinds[k] = "uint8" THEN n \in 0 .. Base - 1
  ELSE n \in -(Base^UbWidths[k] \div 2) .. Base^UbWidths[k] \div 2 - 1
UbKind(n) == FirstOf(<<1, 2, 3, 4, 5>>, LAMBDA k : UbFits(n, k))

Overflow == Item("overflow", 0)

\* write_number_with_ubjson_prefix(); what does not fit 64 bits throws.
UbNumber(n, prefix) ==
  LET k == UbKind(n)
  IN  IF k > 5 THEN <<Overflow>>
      ELSE (IF prefix THEN <<Item(UbKinds[k], 0)>> ELSE <<>>) \o Digits(n, UbWidths[k])

\* ubjson_prefix(), with a number's kind by its least width.
UbPrefix(v) ==
  CASE v.type \in Integral  -> Item(UbKinds[Min({UbKind(v.value), 5})], 0)
    [] v.type = "boolean"   -> Item("boolean", v.value)
    [] OTHER                -> Item(v.type, 0)

RECURSIVE Ub(_, _, _)

Ub(v, f, prefix) ==
  LET parts  == IF v.type = "array" THEN v.value ELSE [i \in DOMAIN KeysOf(v) |-> v.value[KeysOf(v)[i]]]
      first  == UbPrefix(parts[1])
      typed  == f = "ubjson_type" /\ parts # <<>> /\ \A i \in DOMAIN parts : UbPrefix(parts[i]) = first
      key(i) == IF v.type = "array" THEN <<>>
                ELSE UbNumber(Len(KeysOf(v)[i]), TRUE) \o Chars(KeysOf(v)[i])
      kind   == IF prefix THEN <<UbPrefix(v)>> ELSE <<>>
  IN  CASE v.type \in {"null", "boolean"} -> kind
        [] v.type = "number_float" -> kind \o <<Byte(v.value)>>
        [] v.type \in Integral     -> UbNumber(v.value, prefix)
        [] v.type = "string"       -> kind \o UbNumber(Len(v.value), TRUE) \o Chars(v.value)
        [] IsStructured(v)         ->
             kind
             \o (IF typed THEN <<Item("$", 0), first>> ELSE <<>>)
             \o (IF f # "ubjson" THEN <<Item("#", 0)>> \o UbNumber(Len(parts), TRUE) ELSE <<>>)
             \o FlattenSeq([i \in DOMAIN parts |-> key(i) \o Ub(parts[i], f, ~typed)])
             \o (IF f = "ubjson" THEN <<Item("end_" \o v.type, 0)>> ELSE <<>>)

WrittenIn(f, v) == CASE f = "cbor" -> Cbor(v) [] f = "msgpack" -> Pack(v) [] OTHER -> Ub(v, f, TRUE)
-----------------------------------------------------------------------------
(* binary_reader.  What is read from an item on is a set: of the pair of   *)
(* the value and the place after it, or of nothing if an exception is      *)
(* thrown.                                                                 *)

ItemAt(i) == IF i > Len(items) THEN NoItem ELSE items[i]

\* get_ignore_noop() of UBJSON.
PastNoops(f, i) == IF f \in UbFormats THEN Min({j \in i .. Max({i, Len(items) + 1}) : ItemAt(j) # Noop}) ELSE i

AreBytes(i, n) == \A k \in i .. i + n - 1 : ItemAt(k).kind = "byte"

\* get_number()
NumberAt(i, w, signed) ==
  LET n == FoldLeft(LAMBDA m, k : m * Base + ItemAt(i + k - 1).n, 0, [k \in 1 .. w |-> k])
  IN  IF AreBytes(i, w) THEN {<<IF signed /\ n >= Base^w \div 2 THEN n - Base^w ELSE n, i + w>>} ELSE {}

\* get_string(): no characters if the length is negative.
StringAt(lengths) ==
  {<<Str([k \in 1 .. l[1] |-> ItemAt(l[2] + k - 1).n]), l[2] + Max({0, l[1]})>> :
     l \in {m \in lengths : AreBytes(m[2], m[1])}}

\* A number or a length that a head gives, or the digits after it.
CborNumber(h, i) == IF h.n <= Small THEN {<<h.n, i>>} ELSE NumberAt(i, Widths[h.n - Small], FALSE)
PackLength(h, i) ==
  IF h.kind \in {"fixstr", "fixarray", "fixmap"} THEN {<<h.n, i>>} ELSE NumberAt(i, h.n, FALSE)
UbLength(h, i) ==
  UNION {NumberAt(i, UbWidths[k], h.kind # "uint8") : k \in {k \in 1 .. 5 : UbKinds[k] = h.kind}}

As(type, numbers) == {<<Value(type, n[1]), n[2]>> : n \in numbers}

\* Indefinite length of CBOR: the number after the four widths.
Indefinite == Small + 5
Break == Item("break", 0)

\* The characters up to the break.
StringToBreak(i) ==
  {<<Str([k \in 1 .. j - i |-> items[i + k - 1].n]), j + 1>> :
     j \in {j \in i .. Len(items) : items[j] = Break /\ \A k \in i .. j - 1 : items[k] # Break}}

\* The key of an object, in UBJSON a string without its head.
KeyAt(f, i) ==
  LET h == ItemAt(i)
  IN  CASE f = "cbor" /\ h = Item("string", Indefinite)     -> StringToBreak(i + 1)
        [] f = "cbor" /\ h.kind = "string" /\ h.n # Indefinite -> StringAt(CborNumber(h, i + 1))
        [] f = "msgpack" /\ h.kind \in {"fixstr", "str"}     -> StringAt(PackLength(h, i + 1))
        [] f \in UbFormats                                   -> StringAt(UbLength(h, i + 1))
        [] OTHER -> {}

RECURSIVE ValueOf(_, _, _), Elements(_, _, _, _, _), ElementsTo(_, _, _, _)

\* A value from i on, of the type t if that is given.
ReadAs(f, t, i) ==
  LET j == PastNoops(f, i)
  IN  ValueOf(f, IF t = None THEN ItemAt(j) ELSE t, IF t = None THEN j + 1 ELSE i)

ReadFrom(f, i) == ReadAs(f, None, i)

\* One member, or one element, is added to what was read so far.
NextPart(f, t, i, v, AddOne(_, _, _)) ==
  UNION {{<<IF v.type = "array" THEN Array(Append(v.value, part[1]))
            ELSE Object(AddOne(v.value, key[1].value, part[1])), part[2]>> :
            part \in ReadAs(f, t, key[2])} :
         key \in IF v.type = "array" THEN {<<Null, i>>} ELSE KeyAt(f, i)}

\* n of them, the first of two keys wins.  A negative count of UBJSON is
\* converted to a very large one: the input ends first.
Elements(f, t, n, i, v) ==
  IF n < 0 THEN {}
  ELSE IF n = 0 THEN {<<v, i>>}
  ELSE UNION {Elements(f, t, n - 1, r[2], r[1]) : r \in NextPart(f, t, i, v, Emplace)}

\* Up to an end, the last of two keys wins.
ElementsTo(f, end, i, v) ==
  LET j == PastNoops(f, i)
  IN  IF ItemAt(j) = end THEN {<<v, j + 1>>}
      ELSE UNION {ElementsTo(f, end, r[2], r[1]) : r \in NextPart(f, None, j, v, Put)}

\* get_ubjson_size_type() and what follows.
UbElements(f, i, empty) ==
  LET first  == PastNoops(f, i)
      typed  == ItemAt(first).kind = "$"
      t      == IF typed THEN ItemAt(first + 1) ELSE None
      place  == IF typed THEN PastNoops(f, first + 2) ELSE first
      Count(n) == IF t = Noop /\ empty.type = "array" THEN 0 ELSE n
  IN  CASE ItemAt(place).kind = "#" ->
             UNION {Elements(f, t, Count(l[1].value), l[2], empty) :
                      l \in {m \in ReadFrom(f, place + 1) : m[1].type \in Integral}}
        [] ItemAt(place).kind # "#" /\ ~typed -> ElementsTo(f, Item("end_" \o empty.type, 0), i, empty)
        [] OTHER -> {}

Sized(f, lengths, empty) == UNION {Elements(f, None, l[1], l[2], empty) : l \in lengths}

\* parse_cbor_internal()
CborValue(h, i) ==
  LET empty == IF h.kind = "array" THEN Array(<<>>) ELSE Object(<<>>)
      n     == CborNumber(h, i)
  IN  CASE h.kind = "uint"     -> As("number_unsigned", n)
        [] h.kind = "negative" -> As("number_integer", {<<-1 - x[1], x[2]>> : x \in n})
        [] h.kind = "string"   -> KeyAt("cbor", i - 1)
        [] h.kind \in {"array", "map"} /\ h.n = Indefinite -> ElementsTo("cbor", Break, i, empty)
        [] h.kind \in {"array", "map"} /\ h.n # Indefinite -> Sized("cbor", n, empty)
        [] OTHER -> {}

\* parse_msgpack_internal()
PackValue(h, i) ==
  CASE h.kind = "positive" -> {<<Value("number_unsigned", h.n), i>>}
    [] h.kind = "negative" -> {<<Value("number_integer", h.n), i>>}
    [] h.kind = "uint"     -> As("number_unsigned", NumberAt(i, h.n, FALSE))
    [] h.kind = "int"      -> As("number_integer", NumberAt(i, h.n, TRUE))
    [] h.kind \in {"fixstr", "str"} -> KeyAt("msgpack", i - 1)
    [] h.kind \in {"fixarray", "array", "fixmap", "map"} ->
         Sized("msgpack", PackLength(h, i),
               IF h.kind \in {"fixarray", "array"} THEN Array(<<>>) ELSE Object(<<>>))
    [] OTHER -> {}

\* get_ubjson_value()
UbValue(f, h, i) ==
  CASE h.kind = "char"   ->
         {<<Str(<<x.n>>), i + 1>> : x \in {x \in {ItemAt(i)} : x.kind = "byte" /\ x.n < Base \div 2}}
    [] h.kind = "string" -> KeyAt(f, i)
    [] h.kind = "number_float" ->
         {<<Value("number_float", x.n), i + 1>> : x \in {x \in {ItemAt(i)} : x.kind = "byte"}}
    [] h.kind \in {"array", "object"} ->
         UbElements(f, i, IF h.kind = "array" THEN Array(<<>>) ELSE Object(<<>>))
    [] OTHER -> As(IF h.kind = "uint8" THEN "number_unsigned" ELSE "number_integer", UbLength(h, i))

\* The value of a head and what follows from i on.
ValueOf(f, h, i) ==
  CASE h.kind = "null"      -> {<<Null, i>>}
    [] h.kind = "boolean"   -> {<<Value("boolean", h.n), i>>}
    [] f \notin UbFormats /\ h.kind = "number_float" -> {<<Value(h.kind, h.n), i>>}
    [] h.kind \in {"eof", "byte"} -> {}
    [] OTHER -> CASE f = "cbor"       -> CborValue(h, i)
                  [] f = "msgpack"    -> PackValue(h, i)
                  [] f \in UbFormats  -> UbValue(f, h, i)
-----------------------------------------------------------------------------
BinaryInit ==
  \/ /\ format \in Formats /\ json \in BinaryValues /\ phase = "value"
     /\ items = <<>> /\ original = <<>>
  \/ \E x \in Foreign : /\ format = x.format /\ items = x.items /\ phase = "items"
                        /\ json = Null /\ original = <<>>

\* to_cbor(), to_msgpack() or to_ubjson()
Write ==
  /\ phase = "value" \/ (phase = "read" /\ original = <<>>)
  /\ LET s == WrittenIn(format, json)
     IN  \/ Overflow \in ToSet(s) /\ phase' = "thrown" /\ UNCHANGED items
         \/ Overflow \notin ToSet(s) /\ phase' = "items" /\ items' = s
  /\ original' = <<json>> /\ UNCHANGED <<format, json>>

\* from_cbor(), from_msgpack() or from_ubjson()
Read ==
  /\ phase = "items"
  /\ LET whole == {r \in ReadFrom(format, 1) : PastNoops(format, r[2]) > Len(items)}
     IN  \/ \E r \in whole : phase' = "read" /\ json' = r[1]
         \/ whole = {} /\ phase' = "refused" /\ UNCHANGED json
  /\ UNCHANGED <<format, items, original>>

\* The last items are lost, or one comes after them.
Damage ==
  /\ phase = "items" /\ original \notin {<<>>, <<Discarded>>}
  /\ \/ \E n \in 0 .. Len(items) - 1 : items' = SubSeq(items, 1, n)
     \/ items' = Append(items, Byte(0))
  /\ original' = <<Discarded>> /\ UNCHANGED <<format, json, phase>>

BinaryNext == Write \/ Read \/ Damage

BinarySpec == BinaryInit /\ [][BinaryNext]_binaryVars
-----------------------------------------------------------------------------
\* What one of the writers wrote its reader gives back, whatever the widths it chose,
\* and it refuses what is cut off or too long (json.h:4400, :5620).  Only UBJSON has
\* values that are not written: numbers that need all 64 bits.
BinaryValuesAreKept ==
  /\ phase = "read" /\ original # <<>> => original[1] # Discarded /\ Equal(json, original[1])
  /\ phase = "refused" => original \in {<<>>, <<Discarded>>}
  /\ phase = "thrown" => format \in UbFormats
=============================================================================
