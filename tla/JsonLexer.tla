------------------------------- MODULE JsonLexer -------------------------------
(***************************************************************************)
(* The tokens of JSON texts: how json.h reads them (class lexer) and how   *)
(* it writes strings and numbers (class serializer).  A text is a sequence *)
(* of bytes.  The widths of integers are constants; what a text with a "." *)
(* or an exponent means as a number is left out, it stands for itself.     *)
(***************************************************************************)
EXTENDS Integers, SequencesExt, FiniteSetsExt

CONSTANTS
  Texts,        \* what is read
  Values,       \* strings and numbers that are written
  MaxUnsigned,  \* of number_unsigned_t
  MaxInteger    \* of number_integer_t

ASSUME WidthAssumption == MaxInteger \in Nat /\ MaxUnsigned = 2 * MaxInteger + 1

Octet == 0 .. 255

ASSUME TextsAssumption == Texts \subseteq Seq(Octet)

VARIABLES
  input, at,      \* the text, and the next byte to get
  lexing,         \* "idle", in a "string" or "number", at a "token", or "thrown" by dump()
  start,          \* the first byte of the token
  token_buffer,
  number,         \* the label of scan_number()
  token,          \* the last token: its type and value
  dumped          \* the token whose text the input is, if it was dumped

lexVars == <<input, at, lexing, start, token_buffer, number, token, dumped>>

EOF == -1
Quote == 34   Backslash == 92   Slash == 47   U == 117
Minus == 45   Plus == 43        Point == 46   Zero == 48

ByteAt(i) == IF i > Len(input) THEN EOF ELSE input[i]
Current == ByteAt(at)
Digit == 48 .. 57
Exponent == {69, 101}
White == {32, 9, 10, 13}

TokenOf(type, value) == [type |-> type, value |-> value]

Structural == [c \in {91, 93, 123, 125, 58, 44} |->
                 CASE c = 91  -> "begin_array"    [] c = 93  -> "end_array"
                   [] c = 123 -> "begin_object"   [] c = 125 -> "end_object"
                   [] c = 58  -> "name_separator" [] c = 44  -> "value_separator"]

\* true, false and null.
Literal == [c \in {116, 102, 110} |->
              CASE c = 116 -> <<116, 114, 117, 101>>
                [] c = 102 -> <<102, 97, 108, 115, 101>>
                [] c = 110 -> <<110, 117, 108, 108>>]
-----------------------------------------------------------------------------
(* Bytes and code points.                                                  *)

\* get_codepoint(): the value of four hex digits from i on, or -1.
HexValue(c) == CASE c \in Digit     -> c - 48
                 [] c \in 65 .. 70  -> c - 55
                 [] c \in 97 .. 102 -> c - 87
                 [] OTHER           -> -1

CodePoint(i) ==
  LET h == [k \in 0..3 |-> HexValue(ByteAt(i + k))]
  IN  IF \E k \in 0..3 : h[k] = -1 THEN -1
      ELSE h[0] * 4096 + h[1] * 256 + h[2] * 16 + h[3]

High == 55296 .. 56319   \* D800..DBFF
Low  == 56320 .. 57343   \* DC00..DFFF

\* The bytes of a code point.
Bytes(c) ==
  IF c < 128 THEN <<c>>
  ELSE IF c < 2048  THEN <<192 + c \div 64, 128 + (c % 64)>>
  ELSE IF c < 65536 THEN <<224 + c \div 4096, 128 + ((c \div 64) % 64), 128 + (c % 64)>>
  ELSE <<240 + c \div 262144, 128 + ((c \div 4096) % 64), 128 + ((c \div 64) % 64), 128 + (c % 64)>>

\* The ranges of the bytes after a lead byte, none for a byte that is no lead.
Ranges(lead) == CASE lead \in 194 .. 223 -> <<128 .. 191>>
                  [] lead = 224 -> <<160 .. 191, 128 .. 191>>
                  [] lead = 237 -> <<128 .. 159, 128 .. 191>>
                  [] lead \in 225 .. 239 \ {237} -> <<128 .. 191, 128 .. 191>>
                  [] lead = 240 -> <<144 .. 191, 128 .. 191, 128 .. 191>>
                  [] lead \in 241 .. 243 -> <<128 .. 191, 128 .. 191, 128 .. 191>>
                  [] lead = 244 -> <<128 .. 143, 128 .. 191, 128 .. 191>>
                  [] OTHER -> <<>>

\* decode(): the type of a byte, and the state after one of this type.
ByteType(b) ==
  CASE b < 128 -> 0          [] b \in 128 .. 143 -> 1   [] b \in 144 .. 159 -> 9
    [] b \in 160 .. 191 -> 7 [] b \in 194 .. 223 -> 2   [] b = 224 -> 10
    [] b = 237 -> 4          [] b \in 225 .. 239 \ {237} -> 3
    [] b = 240 -> 11         [] b \in 241 .. 243 -> 6   [] b = 244 -> 5
    [] OTHER -> 8

Accept == 0
Reject == 1

StateAfter(state, type) ==
  CASE state = 0 -> <<0, 1, 2, 3, 5, 8, 7, 1, 1, 1, 4, 6>>[type + 1]
    [] state \in {2, 3, 7} /\ type \in {1, 7, 9} -> IF state = 2 THEN 0 ELSE IF state = 3 THEN 2 ELSE 3
    [] state = 4 /\ type = 7 -> 2
    [] state = 5 /\ type \in {1, 9} -> 2
    [] state = 6 /\ type \in {7, 9} -> 3
    [] state = 8 /\ type = 1 -> 3
    [] OTHER -> Reject

Power2(n) == <<1, 2, 4, 8, 16, 32, 64, 128, 256>>[n + 1]

\* The bits of a first byte that its type keeps.
FirstBits(b, type) == IF type > 8 THEN 0 ELSE b % Power2(8 - type)

Decode(d, b) ==
  LET type == ByteType(b)
  IN  [state |-> StateAfter(d.state, type),
       codep |-> IF d.state # Accept THEN (d.codep * 64) + (b % 64) ELSE FirstBits(b, type)]
-----------------------------------------------------------------------------
(* dump_escaped() and dump_integer().                                      *)

Hex(n) == IF n < 10 THEN 48 + n ELSE 87 + n
Escape(n) == <<Backslash, U, Hex(n \div 4096), Hex((n \div 256) % 16), Hex((n \div 16) % 16), Hex(n % 16)>>

Short == [c \in {8, 9, 10, 12, 13, Quote, Backslash} |->
            CASE c = 8 -> 98 [] c = 9 -> 116 [] c = 10 -> 110 [] c = 12 -> 102 [] c = 13 -> 114
              [] OTHER -> c]

\* Code points cut to 16 bits.
EscapedInOne(cp, byte, ascii) ==
  IF cp \in DOMAIN Short THEN <<Backslash, Short[cp]>>
  ELSE IF cp <= 31 \/ (ascii /\ cp >= 127) THEN Escape(cp % 65536) ELSE <<byte>>

Escaped(cp, byte, ascii) ==
  CASE cp \in DOMAIN Short -> <<Backslash, Short[cp]>>
    [] cp \notin DOMAIN Short /\ (cp <= 31 \/ (ascii /\ cp >= 127)) ->
         IF cp <= 65535 THEN Escape(cp)
         ELSE Escape((55232 + cp \div 1024) % 65536) \o Escape(56320 + (cp % 1024))
    [] OTHER -> <<byte>>

\* One turn of the loop over the bytes of a string.
DumpByte(d, byte, ascii) ==
  LET e == Decode(d, byte)
  IN  IF d.state = Reject THEN d
      ELSE [state |-> e.state, codep |-> e.codep,
            out |-> CASE e.state = Accept -> d.out \o Escaped(e.codep, byte, ascii)
                      [] e.state = Reject -> d.out
                      [] OTHER -> IF ascii THEN d.out ELSE Append(d.out, byte)]

DumpEscaped(s, ascii) ==
  LET after[i \in 0 .. Len(s)] ==
        IF i = 0 THEN [state |-> Accept, codep |-> 0, out |-> <<>>]
        ELSE DumpByte(after[i - 1], s[i], ascii)
  IN  after[Len(s)]

\* Digits of the remainders, reversed, and the sign.
DumpInteger(x) ==
  LET abs == IF x < 0 THEN -x ELSE x
      digits[n \in 0 .. abs] == IF n = 0 THEN <<>> ELSE Append(digits[n \div 10], Zero + (n % 10))
  IN  CASE x = 0 -> <<Zero>> [] x > 0 -> digits[abs] [] x < 0 -> <<Minus>> \o digits[abs]

\* dump_float(): ".0" is added to what looks like an integer.
DumpFloat(text) ==
  IF \E i \in DOMAIN text : text[i] \in Exponent \union {Point} THEN text
  ELSE text \o <<Point, Zero>>

Dumped(t, ascii) ==
  CASE t.type = "value_string" -> <<Quote>> \o DumpEscaped(t.value, ascii).out \o <<Quote>>
    [] t.type \in {"value_integer", "value_unsigned"} -> DumpInteger(t.value)
    [] t.type = "value_float" -> DumpFloat(t.value)
-----------------------------------------------------------------------------
Nothing == TokenOf("uninitialized", <<>>)

LexInit ==
  /\ at = 1 /\ start = 1 /\ token_buffer = <<>> /\ number = "init" /\ dumped = <<>>
  /\ \/ input \in Texts /\ lexing = "idle" /\ token = Nothing
     \/ input = <<>> /\ lexing = "token" /\ token \in Values

Found(type, value, next) ==
  /\ lexing' = "token" /\ token' = TokenOf(type, value) /\ at' = next
  /\ UNCHANGED <<input, dumped>>

ParseError(next) == Found("parse_error", <<>>, next) /\ UNCHANGED <<token_buffer, number>>

\* The first byte that is not white space.
Skip == Min({i \in at .. Len(input) + 1 : ByteAt(i) \notin White})

\* scan(): tokens that the first byte decides.
ScanOne ==
  /\ lexing = "idle" /\ start' = Skip
  /\ LET c == ByteAt(Skip)
     IN  /\ UNCHANGED <<token_buffer, number>>
         /\ \/ c \in DOMAIN Structural /\ Found(Structural[c], <<>>, Skip + 1)
            \/ /\ c \in DOMAIN Literal
               /\ LET n == Len(Literal[c])
                  IN  IF \A k \in 1..n : ByteAt(Skip + k - 1) = Literal[c][k]
                      THEN Found("literal", Literal[c], Skip + n)
                      ELSE Found("parse_error", <<>>, Skip + 1)
            \/ c \in {EOF, 0} /\ Found("end_of_input", <<>>, Skip + 1)
            \/ /\ c \notin DOMAIN Structural \union DOMAIN Literal \union {EOF, 0, Quote, Minus} \union Digit
               /\ Found("parse_error", <<>>, Skip + 1)

BeginString ==
  /\ lexing = "idle" /\ ByteAt(Skip) = Quote
  /\ lexing' = "string" /\ start' = Skip /\ at' = Skip + 1 /\ token_buffer' = <<>>
  /\ UNCHANGED <<input, number, token, dumped>>

\* add(): bytes for the buffer, and the next one to get.
Add(bytes, next) ==
  /\ token_buffer' = token_buffer \o bytes /\ at' = next
  /\ UNCHANGED <<input, lexing, start, number, token, dumped>>

EndString ==
  /\ lexing = "string" /\ Current = Quote
  /\ Found("value_string", token_buffer, at + 1) /\ UNCHANGED <<start, token_buffer, number>>

\* The end of the input, control characters, and bytes that lead no code point.
BadByte ==
  /\ lexing = "string" /\ (Current < 32 \/ (Current >= 128 /\ Ranges(Current) = <<>>))
  /\ ParseError(at + 1) /\ UNCHANGED start

PlainByte ==
  /\ lexing = "string" /\ Current \in 32 .. 127 \ {Quote, Backslash}
  /\ Add(<<Current>>, at + 1)

\* next_byte_in_range()
ManyBytes ==
  /\ lexing = "string" /\ Current >= 128 /\ Ranges(Current) # <<>>
  /\ LET r == Ranges(Current)
     IN  \/ /\ \A k \in DOMAIN r : ByteAt(at + k) \in r[k]
            /\ Add(SubSeq(input, at, at + Len(r)), at + Len(r) + 1)
         \/ /\ \E k \in DOMAIN r : ByteAt(at + k) \notin r[k]
            /\ ParseError(at + 1) /\ UNCHANGED start

ShortEscape ==
  /\ lexing = "string" /\ Current = Backslash /\ ByteAt(at + 1) # U
  /\ LET meant == {c \in DOMAIN Short \union {Slash} :
                     ByteAt(at + 1) = IF c = Slash THEN Slash ELSE Short[c]}
     IN  \/ meant # {} /\ Add(<<CHOOSE c \in meant : TRUE>>, at + 2)
         \/ meant = {} /\ ParseError(at + 2) /\ UNCHANGED start

\* A code point outside the basic plane is two escapes, a high and a low surrogate.
UnicodeEscape ==
  /\ lexing = "string" /\ Current = Backslash /\ ByteAt(at + 1) = U
  /\ LET first  == CodePoint(at + 2)
         second == IF ByteAt(at + 6) = Backslash /\ ByteAt(at + 7) = U THEN CodePoint(at + 8) ELSE -1
     IN  \/ /\ first # -1 /\ first \notin High \union Low
            /\ Add(Bytes(first), at + 6)
         \/ /\ first \in High /\ second \in Low
            /\ Add(Bytes((first - 55296) * 1024 + (second - 56320) + 65536), at + 12)
         \/ /\ first = -1 \/ first \in Low \/ (first \in High /\ second \notin Low)
            /\ ParseError(at + 2) /\ UNCHANGED start
-----------------------------------------------------------------------------
(* scan_number(): a label, and the label that a byte leads to.             *)

AfterZero(c) == CASE c = Point -> "decimal1" [] c \in Exponent -> "exponent" [] OTHER -> "done"

NextLabel(label, c) ==
  CASE label \in {"init", "minus"} /\ c = Zero          -> "zero"
    [] label \in {"init", "minus"} /\ c \in Digit \ {Zero} -> "any1"
    [] label = "init" /\ c = Minus                       -> "minus"
    [] label = "any1" /\ c \in Digit                     -> "any1"
    [] label = "zero"                                    -> AfterZero(c)
    [] label = "any1" /\ c = Point                       -> "decimal1"
    [] label \in {"decimal1", "decimal2"} /\ c \in Digit -> "decimal2"
    [] label \in {"any1", "decimal2"} /\ c \in Exponent -> "exponent"
    [] label = "exponent" /\ c \in {Plus, Minus}         -> "sign"
    [] label \in {"exponent", "sign", "any2"} /\ c \in Digit -> "any2"
    [] label \in {"minus", "decimal1", "sign"} /\ c \notin Digit -> "error"
    [] label = "exponent" /\ c \notin Digit \union {Plus, Minus} -> "error"
    [] OTHER                                             -> "done"

BeginNumber ==
  /\ lexing = "idle" /\ ByteAt(Skip) \in Digit \union {Minus}
  /\ lexing' = "number" /\ start' = Skip /\ at' = Skip + 1
  /\ token_buffer' = <<ByteAt(Skip)>> /\ number' = NextLabel("init", ByteAt(Skip))
  /\ UNCHANGED <<input, token, dumped>>

NumberByte ==
  /\ lexing = "number" /\ NextLabel(number, Current) \notin {"done", "error"}
  /\ number' = NextLabel(number, Current)
  /\ token_buffer' = Append(token_buffer, Current) /\ at' = at + 1
  /\ UNCHANGED <<input, lexing, start, token, dumped>>

NumberError ==
  /\ lexing = "number" /\ NextLabel(number, Current) = "error"
  /\ ParseError(at + 1) /\ UNCHANGED start

DigitsValue(s) ==
  LET upto[i \in 0 .. Len(s)] == IF i = 0 THEN 0 ELSE 10 * upto[i - 1] + (s[i] - Zero)
  IN  upto[Len(s)]

\* The type is that of the text, or float if the number does not fit.
NumberToken(s) ==
  LET whole == \A i \in DOMAIN s : s[i] \in Digit \union {Minus}
      n     == DigitsValue(IF s[1] = Minus THEN Tail(s) ELSE s)
  IN  CASE whole /\ s[1] # Minus /\ n <= MaxUnsigned    -> TokenOf("value_unsigned", n)
        [] whole /\ s[1] = Minus /\ n <= MaxInteger + 1 -> TokenOf("value_integer", -n)
        [] OTHER                                        -> TokenOf("value_float", s)

NumberDone ==
  /\ lexing = "number" /\ NextLabel(number, Current) = "done"
  /\ Found(NumberToken(token_buffer).type, NumberToken(token_buffer).value, at)
  /\ UNCHANGED <<start, token_buffer, number>>
-----------------------------------------------------------------------------
IsValue(t) == t.type \in {"value_string", "value_unsigned", "value_integer", "value_float"}

\* The next token of the text.
ScanNext ==
  /\ lexing = "token" /\ dumped = <<>> /\ token.type \notin {"parse_error", "end_of_input"} /\ at <= Len(input)
  /\ lexing' = "idle" /\ UNCHANGED <<input, at, start, token_buffer, number, token, dumped>>

\* dump() of a value; a string that is not UTF-8 is refused with type_error 316.
Dump(ascii) ==
  /\ lexing = "token" /\ dumped = <<>> /\ IsValue(token)
  /\ \/ /\ token.type = "value_string" /\ DumpEscaped(token.value, ascii).state # Accept
        /\ lexing' = "thrown" /\ UNCHANGED <<input, at, dumped>>
     \/ /\ token.type = "value_string" => DumpEscaped(token.value, ascii).state = Accept
        /\ lexing' = "idle" /\ input' = Dumped(token, ascii) /\ at' = 1 /\ dumped' = <<token>>
  /\ UNCHANGED <<start, token_buffer, number, token>>

LexNext ==
  \/ ScanOne \/ BeginString \/ EndString \/ BadByte \/ PlainByte \/ ManyBytes \/ ShortEscape
  \/ UnicodeEscape \/ BeginNumber \/ NumberByte \/ NumberError \/ NumberDone
  \/ ScanNext \/ \E ascii \in BOOLEAN : Dump(ascii)

LexSpec == LexInit /\ [][LexNext]_lexVars
-----------------------------------------------------------------------------
\* The code point of n bytes is one of those that take n bytes, and no surrogate.
IsCharacter(s) ==
  LET Six(i) == s[i] - 128
      Two    == (s[1] - 192) * 64 + Six(2)
      Three  == (s[1] - 224) * 4096 + Six(2) * 64 + Six(3)
      Four   == (s[1] - 240) * 262144 + Six(2) * 4096 + Six(3) * 64 + Six(4)
  IN  /\ \A i \in 2 .. Len(s) : s[i] \in 128 .. 191
      /\ \/ Len(s) = 1 /\ s[1] < 128
         \/ Len(s) = 2 /\ s[1] \in 192 .. 223 /\ 128 <= Two /\ Two < 2048
         \/ Len(s) = 3 /\ s[1] \in 224 .. 239 /\ 2048 <= Three /\ Three < 65536 /\ Three \notin High \union Low
         \/ Len(s) = 4 /\ s[1] \in 240 .. 247 /\ 65536 <= Four /\ Four < 1114112

IsUtf8(s) ==
  LET upto[i \in 0 .. Len(s)] ==
        i = 0 \/ \E n \in {k \in 1 .. 4 : k <= i} :
                    IsCharacter(SubSeq(s, i - n + 1, i)) /\ upto[i - n]
  IN  upto[Len(s)]

\* Lexer and serializer, written apart, agree with the definition of UTF-8: the one
\* gives no other strings, the other refuses none (json.h:2052 to :2292, :7788).
StringsAreUtf8 ==
  /\ token.type = "value_string" /\ dumped = <<>> /\ input # <<>> => IsUtf8(token.value)
  /\ lexing = "thrown" => ~IsUtf8(token.value)

\* The grammar of numbers of RFC 7159.
IsNumber(t) ==
  LET n == Len(t)
      Digits(a, b) == a < b /\ \A k \in a + 1 .. b : t[k] \in Digit
      Whole(a, b) == Digits(a, b) /\ (t[a + 1] = Zero => b = a + 1)
      Fraction(a, b) == Digits(a + 1, b) /\ t[a + 1] = Point
      Signed(a) == Digits(a + 1, n) /\ t[a + 1] \in {Plus, Minus}
      Power(a) == (Digits(a + 1, n) \/ Signed(a + 1)) /\ t[a + 1] \in Exponent
  IN  \E m \in {0, 1}, i, j \in 1 .. n :
        /\ m = 1 => t[1] = Minus
        /\ Whole(m, i) /\ (i = j \/ Fraction(i, j)) /\ (j = n \/ Power(j))

\* Tokens hold what their type can; a float is the text of a finite number.
TokenOK(t) ==
  /\ t = TokenOf(t.type, t.value)
  /\ t.type = "value_string" => t.value \in Seq(Octet)
  /\ t.type = "value_unsigned" => t.value \in Nat /\ t.value <= MaxUnsigned
  /\ t.type = "value_integer" => t.value \in Int /\ -(MaxInteger + 1) <= t.value /\ t.value <= MaxInteger
  /\ t.type = "value_float" => t.value \in Seq(Octet) /\ IsNumber(t.value)

ASSUME ValuesAssumption == \A t \in Values : IsValue(t) /\ TokenOK(t)

\* All bytes from i on that may be of a number.
RunFrom(i) ==
  LET ends == {j \in i .. Len(input) + 1 : ByteAt(j) \notin Digit \union Exponent \union {Plus, Minus, Point}}
  IN  SubSeq(input, i, Min(ends) - 1)

\* Numbers are scanned by the grammar, no part of one is refused (json.h:2340).
NumbersFollowTheGrammar ==
  lexing = "token" /\ input # <<>> /\ ByteAt(start) \in Digit \union {Minus} =>
    IF token.type = "parse_error" THEN ~IsNumber(RunFrom(start))
    ELSE IsNumber(SubSeq(input, start, at - 1))

\* What dump() writes of a string or a number, with ASCII only or not, is read as the
\* same value; integers are equal whatever their sign was stored as (json.h:7444, :13472).
DumpedTokensAreScanned ==
  LET Same(t, u) == \/ t = u
                    \/ {t.type, u.type} \subseteq {"value_integer", "value_unsigned"} /\ t.value = u.value
                    \/ t.type = "value_float" /\ u = TokenOf("value_float", DumpFloat(t.value))
  IN  lexing = "token" /\ dumped # <<>> => Same(dumped[1], token) /\ at = Len(input) + 1

\* Every token is what its bytes say by the rules of RFC 7159 and of UTF-8, and reader
\* and writer, each with tables of its own, agree on it (the three parts above).
TokensAreScanned == StringsAreUtf8 /\ NumbersFollowTheGrammar /\ DumpedTokensAreScanned
=============================================================================
