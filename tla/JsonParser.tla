------------------------------ MODULE JsonParser ------------------------------
(***************************************************************************)
(* Reading and writing of JSON values, token by token (json.h: the class   *)
(* parser, and dump() of the class serializer).  The recursion of          *)
(* parse_internal() is a stack of frames.  A callback, if there is one,    *)
(* may keep or refuse whatever it is told.                                 *)
(***************************************************************************)
EXTENDS JsonValue, TLC

CONSTANTS
  TokenTexts,    \* texts of others, as tokens
  DumpedValues   \* values of the program that are written and read

VARIABLES
  text, pos,     \* the tokens, and the place of last_token
  parsing,       \* "idle", "value", "first", "key", "next", "last", "end", "done" or "thrown"
  frames,        \* calls of parse_internal() in progress, with what they have so far
  keep,          \* of the call that begins
  parsed,        \* the value of the call that ended
  depth, errored,
  refused,       \* did the callback refuse anything
  options,       \* callback, allow_exceptions, strict
  written        \* the value whose text it is, if it was dumped

parserVars == <<text, pos, parsing, frames, keep, parsed, depth, errored, refused, options, written>>

Tok(type, v) == [type |-> type, value |-> v]
Sign(type)   == Tok(type, <<>>)
Blank        == Sign("white")

Scalar == {"null", "string", "boolean", "number_unsigned", "number_integer", "number_float"}

\* A finite number; what is not finite is "inf".
Finite(t) == t.value # "inf"
-----------------------------------------------------------------------------
(* dump().                                                                 *)

\* A comma after each of them, the last one too.
Commas(s, pretty) ==
  FlattenSeq([i \in DOMAIN s |->
    s[i] \o <<Sign("value_separator")>> \o (IF pretty THEN <<Blank>> ELSE <<>>)])

Separated(s, pretty) ==
  FlattenSeq([i \in DOMAIN s |->
    s[i] \o IF i = Len(s) THEN <<>>
            ELSE <<Sign("value_separator")>> \o (IF pretty THEN <<Blank>> ELSE <<>>)])

Wrapped(open, s, close, pretty) ==
  LET line == IF pretty /\ s # <<>> THEN <<Blank>> ELSE <<>>
  IN  <<Sign(open)>> \o line \o Separated(s, pretty) \o line \o <<Sign(close)>>

RECURSIVE Written(_, _)

\* Numbers that are not finite are written as null.
Written(v, pretty) ==
  CASE v.type = "object" ->
         Wrapped("begin_object",
                 [i \in DOMAIN KeysOf(v) |->
                    <<Tok("string", KeysOf(v)[i]), Sign("name_separator")>>
                      \o (IF pretty THEN <<Blank>> ELSE <<>>) \o Written(v.value[KeysOf(v)[i]], pretty)],
                 "end_object", pretty)
    [] v.type = "array" ->
         Wrapped("begin_array", [i \in DOMAIN v.value |-> Written(v.value[i], pretty)],
                 "end_array", pretty)
    [] v.type = "number_float" -> <<IF Finite(v) THEN Tok(v.type, v.value) ELSE Sign("null")>>
    [] v.type = "number_integer" -> \* a text without a sign is read as an unsigned number
         <<Tok(IF v.value < 0 THEN v.type ELSE "number_unsigned", v.value)>>
    [] v.type = "discarded" -> <<Sign("parse_error")>>
    [] OTHER -> <<Tok(v.type, v.value)>>
-----------------------------------------------------------------------------
ParserInit ==
  /\ pos = 1 /\ parsing = "idle" /\ frames = <<>> /\ keep = TRUE /\ parsed = Null
  /\ depth = 0 /\ errored = FALSE /\ refused = FALSE
  /\ options \in [callback : BOOLEAN, allow_exceptions : BOOLEAN, strict : BOOLEAN]
  /\ \/ text \in TokenTexts /\ written = <<>>
     \/ \E v \in DumpedValues, pretty \in BOOLEAN : text = Written(v, pretty) /\ written = <<v>>

\* get_token() of the lexer, which skips white space; past the end there is the end.
TokenAt(i) == IF i > Len(text) THEN Sign("end_of_input") ELSE text[i]
TokenFrom(i) == Min({j \in i .. Max({i, Len(text) + 1}) : TokenAt(j) # Blank})
last_token == TokenAt(pos)
Following(i) == TokenFrom(i + 1)

Same == UNCHANGED <<text, options, written>>

\* The verdict of the callback; without one everything is kept.
Verdicts == IF options.callback THEN BOOLEAN ELSE {TRUE}
Heard(verdict) == refused' = (refused \/ ~verdict)

\* expect() of another token: an exception, or the calls all return.
Unexpected ==
  /\ errored' = TRUE
  /\ parsing' = IF options.allow_exceptions THEN "thrown" ELSE "end"
  /\ UNCHANGED <<pos, frames, keep, parsed, depth, refused>> /\ Same

\* parse() gets the first token.
BeginParse ==
  /\ parsing = "idle" /\ pos' = TokenFrom(1) /\ parsing' = "value"
  /\ UNCHANGED <<frames, keep, parsed, depth, errored, refused>> /\ Same

\* parse_internal() returns v, after the callback heard of it.
Return(v, kept, verdict, d) ==
  /\ parsed' = IF kept /\ ~verdict THEN Discarded ELSE v
  /\ depth' = d /\ Heard(kept => verdict)
  /\ parsing' = IF frames' = <<>> THEN "end" ELSE "next"

ParseScalar ==
  /\ parsing = "value" /\ last_token.type \in Scalar
  /\ last_token.type = "number_float" => Finite(last_token)
  /\ \E verdict \in Verdicts :
       /\ UNCHANGED <<pos, frames, keep, errored>> /\ Same
       /\ Return(Value(last_token.type, last_token.value), keep, verdict, depth)

\* No value, or a number that is not finite.
ParseNoValue ==
  /\ parsing = "value"
  /\ \/ last_token.type \notin Scalar \union {"begin_object", "begin_array"}
     \/ last_token.type = "number_float" /\ ~Finite(last_token)
  /\ Unexpected

Opened(type) == IF type = "begin_object" THEN "object" ELSE "array"

\* "{" or "[": a frame.  What is not kept stays discarded.
ParseStart ==
  /\ parsing = "value" /\ last_token.type \in {"begin_object", "begin_array"}
  /\ \E verdict \in IF keep THEN Verdicts ELSE {FALSE} :
       /\ frames' = Append(frames, [kind |-> Opened(last_token.type), keep |-> verdict,
                                    keep_tag |-> TRUE, key |-> "",
                                    value |-> IF ~verdict THEN Discarded
                                              ELSE Value(Opened(last_token.type), <<>>)])
       /\ Heard(keep => verdict)
       /\ depth' = IF keep /\ options.callback THEN depth + 1 ELSE depth
  /\ pos' = Following(pos) /\ parsing' = "first"
  /\ UNCHANGED <<keep, parsed, errored>> /\ Same

Frame == Last(frames)
IsObject == Frame.kind = "object"

ClosingOf(f) == IF f.kind = "object" THEN "end_object" ELSE "end_array"

\* object_end or array_end; the end of an empty array is told even if it is not kept.
Close(told) ==
  \E ending \in IF told THEN Verdicts ELSE {TRUE}, verdict \in IF Frame.keep THEN Verdicts ELSE {TRUE} :
    /\ frames' = Front(frames) /\ UNCHANGED <<pos, keep, errored>> /\ Same
    /\ LET d == IF told /\ options.callback THEN depth - 1 ELSE depth
           v == IF ending THEN Frame.value ELSE Discarded
       IN  /\ parsed' = IF Frame.keep /\ ~verdict THEN Discarded ELSE v
           /\ depth' = d /\ Heard(ending /\ verdict)
    /\ parsing' = IF Len(frames) = 1 THEN "end" ELSE "next"

\* The first token after "{" or "[".
ParseEmpty ==
  /\ parsing = "first" /\ last_token.type = ClosingOf(Frame)
  /\ Close(Frame.keep \/ ~IsObject)

ParseFirst ==
  /\ parsing = "first" /\ last_token.type # ClosingOf(Frame)
  /\ parsing' = (IF IsObject THEN "key" ELSE "value") /\ keep' = Frame.keep
  /\ UNCHANGED <<pos, frames, parsed, depth, errored, refused>> /\ Same

\* A key, which the callback may refuse, and ":".
ParseKey ==
  /\ parsing = "key" /\ last_token.type = "string" /\ TokenAt(Following(pos)) = Sign("name_separator")
  /\ \E verdict \in IF Frame.keep THEN Verdicts ELSE {FALSE} :
       /\ frames' = [frames EXCEPT ![Len(frames)].key = last_token.value, ![Len(frames)].keep_tag = verdict]
       /\ Heard(Frame.keep => verdict)
  /\ pos' = Following(Following(pos)) /\ parsing' = "value" /\ keep' = Frame.keep
  /\ UNCHANGED <<parsed, depth, errored>> /\ Same

ParseNoKey ==
  /\ parsing = "key"
  /\ ~(last_token.type = "string" /\ TokenAt(Following(pos)) = Sign("name_separator"))
  /\ Unexpected

\* emplace() keeps the first of two members of a name.
Added(f, v) == IF f.kind = "object" THEN Emplace(f.value.value, f.key, v) ELSE Append(f.value.value, v)

\* The value goes into its container; what follows is "," or the end.
ParseNext ==
  /\ parsing = "next"
  /\ frames' = IF Frame.keep /\ Frame.keep_tag /\ parsed # Discarded
               THEN [frames EXCEPT ![Len(frames)].value.value = Added(Frame, parsed)] ELSE frames
  /\ pos' = Following(pos)
  /\ parsing' = "last" /\ UNCHANGED <<keep, parsed, depth, errored, refused>> /\ Same

ParseComma ==
  /\ parsing = "last" /\ last_token.type = "value_separator"
  /\ pos' = Following(pos) /\ parsing' = (IF IsObject THEN "key" ELSE "value") /\ keep' = Frame.keep
  /\ UNCHANGED <<frames, parsed, depth, errored, refused>> /\ Same

ParseClose ==
  /\ parsing = "last" /\ last_token.type = ClosingOf(Frame)
  /\ Close(Frame.keep)

ParseNoClose ==
  /\ parsing = "last" /\ last_token.type \notin {"value_separator", ClosingOf(Frame)}
  /\ Unexpected

\* parse() after the value: operator>> leaves what follows.
EndParse ==
  /\ parsing = "end"
  /\ LET more == options.strict /\ TokenAt(Following(pos)).type # "end_of_input"
     IN  /\ errored' = (errored \/ more)
         /\ parsing' = IF more /\ options.allow_exceptions THEN "thrown" ELSE "done"
         /\ parsed' = IF errored' THEN Discarded ELSE IF parsed = Discarded THEN Null ELSE parsed
  /\ UNCHANGED <<pos, frames, keep, depth, refused>> /\ Same

ParserNext ==
  \/ BeginParse \/ ParseScalar \/ ParseNoValue \/ ParseStart \/ ParseEmpty \/ ParseFirst \/ ParseKey
  \/ ParseNoKey \/ ParseNext \/ ParseComma \/ ParseClose \/ ParseNoClose \/ EndParse

ParserSpec == ParserInit /\ [][ParserNext]_parserVars
-----------------------------------------------------------------------------
(* accept().                                                               *)

\* The place after a value, its members or its elements that begin at i, or 0.
AcceptFrom ==
  LET Then(f, end, again, i) ==
        CASE i = 0 -> 0
          [] i # 0 /\ TokenAt(i).type = "value_separator" -> f[again, Following(i)]
          [] i # 0 /\ TokenAt(i).type = end -> Following(i)
          [] OTHER -> 0
      f[what \in {"value", "members", "elements"}, i \in 1 .. Len(text) + 2] ==
        CASE what = "value" /\ TokenAt(i).type = "begin_object" ->
               IF TokenAt(Following(i)).type = "end_object" THEN Following(Following(i))
               ELSE f["members", Following(i)]
          [] what = "value" /\ TokenAt(i).type = "begin_array" ->
               IF TokenAt(Following(i)).type = "end_array" THEN Following(Following(i))
               ELSE f["elements", Following(i)]
          [] what = "value" /\ TokenAt(i).type \in Scalar ->
               IF TokenAt(i).type = "number_float" /\ ~Finite(TokenAt(i)) THEN 0 ELSE Following(i)
          [] what = "members" /\ TokenAt(i).type = "string"
               /\ TokenAt(Following(i)).type = "name_separator" ->
               Then(f, "end_object", "members", f["value", Following(Following(i))])
          [] what = "elements" -> Then(f, "end_array", "elements", f["value", i])
          [] OTHER -> 0
  IN  f

Accepted == LET end == AcceptFrom["value", TokenFrom(1)]
            IN  end # 0 /\ (options.strict => TokenAt(end).type = "end_of_input")
-----------------------------------------------------------------------------
\* parse() gives a value exactly of the texts that accept() accepts, whatever a
\* callback refuses (json.h:2976, :3196).
AcceptAgreesWithParse ==
  parsing \in {"done", "thrown"} => (errored <=> ~Accepted)

RECURSIVE Readable(_)

\* What can be read back: numbers that are not finite are null, and there is no
\* discarded value.
Readable(v) ==
  CASE v.type = "array"  -> Array([i \in DOMAIN v.value |-> Readable(v.value[i])])
    [] v.type = "object" -> Object([k \in DOMAIN v.value |-> Readable(v.value[k])])
    [] OTHER -> IF v.type = "number_float" /\ ~Finite(v) THEN Null ELSE v

\* A value that was dumped, on one line or on many, is read as an equal one; the text
\* of a discarded value is refused (json.h:7346 to :7473).
DumpedValuesAreParsed ==
  parsing \in {"done", "thrown"} /\ written # <<>> /\ ~refused =>
    IF written[1] = Discarded THEN errored ELSE Equal(parsed, Readable(written[1]))

RECURSIVE IsPart(_, _)

\* v is w, or what is left when members and elements are taken away, at any depth.
IsPart(v, w) ==
  \/ v = Null
  \/ Equal(v, w)
  \/ v.type = "object" /\ w.type = "object"
       /\ \A k \in DOMAIN v.value : k \in DOMAIN w.value /\ IsPart(v.value[k], w.value[k])
  \/ v.type = "array" /\ w.type = "array" /\ Len(v.value) <= Len(w.value)
       /\ \E f \in [DOMAIN v.value -> DOMAIN w.value] :
            /\ \A i, j \in DOMAIN f : i < j => f[i] < f[j]
            /\ \A i \in DOMAIN f : IsPart(v.value[i], w.value[f[i]])

\* What a callback leaves is part of the value: refusing one thing moves or changes
\* no other, and the depth it hears is that of the nesting while it has refused
\* nothing (json.h:2990 to :3125).
CallbacksOnlyTakeAway ==
  /\ parsing = "done" /\ written # <<>> /\ ~errored => IsPart(parsed, Readable(written[1]))
  /\ options.callback /\ ~refused /\ ~errored => depth = Len(frames)

\* A text is parsed to the value that was written, or refused by parse() and accept()
\* alike, and a callback takes parts of it away and does nothing else (the three parts
\* above).
TextsAreParsed == AcceptAgreesWithParse /\ DumpedValuesAreParsed /\ CallbacksOnlyTakeAway
=============================================================================
