------------------------------- MODULE JsonPatch -------------------------------
(***************************************************************************)
(* JSON pointers, flatten() and unflatten(), patches and diffs (json.h).   *)
(* Keys and the texts of pointers are sequences of bytes.  A function      *)
(* that may throw gives a sequence of one value, or of none.               *)
(***************************************************************************)
EXTENDS JsonValue, TLC

CONSTANTS
  Sources,      \* values that are changed
  Patches       \* sequences of operations on them

VARIABLES
  source,    \* the value that patch(), diff() or flatten() is called for
  result,    \* the working copy
  rest,      \* operations still to be applied
  outcome,   \* "idle", "applying", "done", "thrown", "flat", "unflat" or "unflat_thrown"
  aim        \* the target of a diff, or nothing

patchVars == <<source, result, rest, outcome, aim>>

Op(op, path, with) == [op |-> op, path |-> path, with |-> with]
-----------------------------------------------------------------------------
(* class json_pointer.                                                     *)

Separator == 47   \* the slash
Tilde     == 126
Nil       == 48   \* "0"
One       == 49
PastEnd   == <<45>>   \* "-"

\* replace_substring(): f is two characters or one.
Replaced(s, f, t) ==
  LET from[i \in 1 .. Len(s) + 1] ==
        CASE i > Len(s) -> <<>>
          [] i <= Len(s) /\ i + Len(f) - 1 <= Len(s) /\ SubSeq(s, i, Min({Len(s), i + Len(f) - 1})) = f ->
               t \o from[i + Len(f)]
          [] OTHER -> <<s[i]>> \o from[i + 1]
  IN  from[1]

EscapedKey(s) == Replaced(Replaced(s, <<Tilde>>, <<Tilde, Nil>>), <<Separator>>, <<Tilde, One>>)
Unescaped(s)  == Replaced(Replaced(s, <<Tilde, One>>, <<Separator>>), <<Tilde, Nil>>, <<Tilde>>)

\* split(): the reference tokens, or nothing.
Tokens(text) ==
  LET slashes == {i \in DOMAIN text : text[i] = Separator}
      ends    == SetToSortSeq((slashes \ {1}) \union {Len(text) + 1}, <)
      begins  == SetToSortSeq(slashes, <)
      parts   == [k \in DOMAIN begins |-> SubSeq(text, begins[k] + 1, ends[k] - 1)]
      Good(s) == \A i \in DOMAIN s : s[i] = Tilde => i < Len(s) /\ s[i + 1] \in {Nil, One}
  IN  CASE text = <<>> -> <<(<<>>)>>
        [] text # <<>> /\ (text[1] # Separator \/ \E k \in DOMAIN parts : ~Good(parts[k])) -> <<>>
        [] OTHER -> <<[k \in DOMAIN parts |-> Unescaped(parts[k])]>>

IsDecimal(s) == \A i \in DOMAIN s : s[i] \in 48 .. 57
Numeral(s)   == FoldLeft(LAMBDA n, c : 10 * n + (c - 48), 0, s)
NumeralOf(n) == IF n < 10 THEN <<48 + n>> ELSE <<48 + n \div 10, 48 + (n % 10)>>

\* array_index(), and the tests of the tokens before it; -1 for an exception.
ArrayIndex(s) == IF s # <<>> /\ IsDecimal(s) THEN Numeral(s) ELSE -1
StrictIndex(s) == IF Len(s) > 1 /\ s[1] = Nil THEN -1 ELSE ArrayIndex(s)

RECURSIVE At(_, _), Set(_, _, _), Grow(_, _, _)

\* get_checked(): what v has at the tokens t.
At(v, t) ==
  CASE t = <<>> -> <<v>>
    [] t # <<>> /\ v.type = "object" /\ t[1] \in DOMAIN v.value -> At(v.value[t[1]], Tail(t))
    [] t # <<>> /\ v.type = "array" /\ StrictIndex(t[1]) + 1 \in DOMAIN v.value ->
         At(v.value[StrictIndex(t[1]) + 1], Tail(t))
    [] OTHER -> <<>>

\* v with x at t, which it has.
Set(v, t, x) ==
  CASE t = <<>> -> x
    [] t # <<>> /\ v.type = "object" -> Object(Put(v.value, t[1], Set(v.value[t[1]], Tail(t), x)))
    [] t # <<>> /\ v.type = "array" ->
         Array([v.value EXCEPT ![StrictIndex(t[1]) + 1] = Set(@, Tail(t), x)])

\* The numbers from 1 on of n things, if n is positive.
UpTo(n) == 1 .. Max({0, n})

\* operator[] of an array beyond its end.
Filled(s, n) == s \o [i \in UpTo(n - Len(s)) |-> Null]

\* get_and_create() of unflatten(), and the value put there.
Grow(v, t, x) ==
  LET Key(f) == Grow(IF t[1] \in DOMAIN f THEN f[t[1]] ELSE Null, Tail(t), x)
      In(s)  == IF ArrayIndex(t[1]) = -1 THEN <<>>
                ELSE Grow(Filled(s, ArrayIndex(t[1]) + 1)[ArrayIndex(t[1]) + 1], Tail(t), x)
      AsArray(s)  == IF In(s) = <<>> THEN <<>>
                     ELSE <<Array([Filled(s, ArrayIndex(t[1]) + 1) EXCEPT ![ArrayIndex(t[1]) + 1] = In(s)[1]])>>
      AsObject(f) == IF Key(f) = <<>> THEN <<>> ELSE <<Object(Put(f, t[1], Key(f)[1]))>>
  IN  CASE t = <<>> -> <<x>>
        [] t # <<>> /\ v.type = "null" -> IF t[1] = <<Nil>> THEN AsArray(<<>>) ELSE AsObject(<<>>)
        [] t # <<>> /\ v.type = "object" -> AsObject(v.value)
        [] t # <<>> /\ v.type = "array"  -> AsArray(v.value)
        [] OTHER -> <<>>
-----------------------------------------------------------------------------
(* flatten() and unflatten().                                              *)

RECURSIVE Flattened(_, _)

\* The values of no parts, by their paths.
Flattened(path, v) ==
  LET Union(s) == FoldLeft(LAMBDA f, g : f @@ g, <<>>, s)
  IN  CASE IsStructured(v) /\ DOMAIN v.value = {} -> path :> Null
        [] v.type = "array" /\ v.value # <<>> ->
             Union([i \in DOMAIN v.value |-> Flattened(path \o <<Separator>> \o NumeralOf(i - 1), v.value[i])])
        [] v.type = "object" /\ DOMAIN v.value # {} ->
             Union([i \in DOMAIN KeysOf(v) |->
                      Flattened(path \o <<Separator>> \o EscapedKey(KeysOf(v)[i]), v.value[KeysOf(v)[i]])])
        [] OTHER -> path :> v

\* The order of strings.
Before(s, t) ==
  \/ Len(s) < Len(t) /\ SubSeq(t, 1, Len(s)) = s
  \/ \E i \in 1 .. Min({Len(s), Len(t)}) : /\ \A j \in 1 .. i - 1 : s[j] = t[j]
                                           /\ s[i] < t[i]

Unflattened(f) ==
  FoldLeft(LAMBDA v, path : IF v = <<>> THEN <<>> ELSE Grow(v[1], Tokens(path)[1], f[path]),
           <<Null>>, SetToSortSeq(DOMAIN f, Before))
-----------------------------------------------------------------------------
(* patch().                                                                *)

\* The last step of operation_add: x goes into its parent.
AddTo(v, last, x) ==
  LET i == IF last = PastEnd THEN Len(v.value) ELSE ArrayIndex(last)
  IN  CASE v.type = "null"   -> <<Object(last :> x)>>
        [] v.type = "object" -> <<Object(Put(v.value, last, x))>>
        [] v.type = "array"  -> IF i \in 0 .. Len(v.value) THEN <<Array(InsertAt(v.value, i + 1, x))>> ELSE <<>>
        [] OTHER             -> <<v>>

RECURSIVE AddBelow(_, _, _)

\* get_unchecked() to the parent makes whatever is missing.
AddBelow(v, t, x) ==
  LET w == CASE v.type # "null" -> v
             [] v.type = "null" /\ (IsDecimal(t[1]) \/ t[1] = PastEnd) -> Array(<<>>)
             [] OTHER -> Object(<<>>)
      In(part) == AddBelow(part, Tail(t), x)
  IN  CASE Len(t) = 1 -> AddTo(v, t[1], x)
        [] Len(t) > 1 /\ w.type = "object" ->
             LET r == In(IF t[1] \in DOMAIN w.value THEN w.value[t[1]] ELSE Null)
             IN  IF r = <<>> THEN <<>> ELSE <<Object(Put(w.value, t[1], r[1]))>>
        [] Len(t) > 1 /\ w.type = "array" ->
             LET i == IF t[1] = PastEnd THEN Len(w.value) + 1 ELSE StrictIndex(t[1]) + 1
                 r == IF i = 0 THEN <<>> ELSE In(Filled(w.value, i)[i])
             IN  IF r = <<>> THEN <<>> ELSE <<Array([Filled(w.value, i) EXCEPT ![i] = r[1]])>>
        [] OTHER -> <<>>

\* operation_add: of the parents only the first must be there.
AddAt(v, t, x) ==
  CASE t = <<>> -> <<x>>
    [] Len(t) > 1 /\ At(v, <<t[1]>>) = <<>> -> <<>>
    [] OTHER -> AddBelow(v, t, x)

\* operation_remove
Erase(v, t) ==
  LET parent == At(v, Front(t))
      last   == Last(t)
  IN  CASE t = <<>> \/ parent = <<>> -> <<>>
        [] OTHER ->
             CASE parent[1].type = "object" ->
                    IF last \notin DOMAIN parent[1].value THEN <<>>
                    ELSE <<Set(v, Front(t), Object(Without(parent[1].value, last)))>>
               [] parent[1].type = "array" ->
                    IF ArrayIndex(last) + 1 \notin DOMAIN parent[1].value THEN <<>>
                    ELSE <<Set(v, Front(t), Array(RemoveAt(parent[1].value, ArrayIndex(last) + 1)))>>
               [] OTHER -> <<v>>

\* One operation; "with" is its value, or the tokens it takes a value from.
Applied(v, o) ==
  LET t == Tokens(o.path)[1]
      from == Tokens(o.with)[1]
      there == At(v, from)
  IN  CASE o.op = "add"     -> AddAt(v, t, o.with)
        [] o.op = "remove"  -> Erase(v, t)
        [] o.op = "replace" -> IF At(v, t) = <<>> THEN <<>> ELSE <<Set(v, t, o.with)>>
        [] o.op = "move"    -> IF there = <<>> \/ Erase(v, from) = <<>> THEN <<>>
                               ELSE AddAt(Erase(v, from)[1], t, there[1])
        [] o.op = "copy"    -> IF there = <<>> THEN <<>> ELSE AddAt(v, t, there[1])
        [] o.op = "test"    -> IF At(v, t) # <<>> /\ Equal(At(v, t)[1], o.with) THEN <<v>> ELSE <<>>
        [] OTHER            -> <<>>
-----------------------------------------------------------------------------
(* diff().                                                                 *)

Replace(path, w) == <<Op("replace", path, w)>>
Below(path, i)   == path \o <<Separator>> \o NumeralOf(i - 1)
Under(path, k)   == path \o <<Separator>> \o EscapedKey(k)

\* Elements that are too many, the first one first.
RemovedUp(path, from, to) == [k \in UpTo(to - from) |-> Op("remove", Below(path, from + k), <<>>)]

\* The last one first.
Removed(path, from, to) == [k \in UpTo(to - from) |-> Op("remove", Below(path, to + 1 - k), <<>>)]

RECURSIVE Diff(_, _, _)

Diff(v, w, path) ==
  CASE Equal(v, w) -> <<>>
    [] ~Equal(v, w) /\ v.type = "array" /\ w.type = "array" ->
         LET n == Len(v.value)  m == Len(w.value)
         IN  FlattenSeq([i \in 1 .. Min({n, m}) |-> Diff(v.value[i], w.value[i], Below(path, i))])
             \o Removed(path, m, n)
             \o [k \in UpTo(m - n) |-> Op("add", Below(path, n + k), w.value[n + k])]
    [] ~Equal(v, w) /\ v.type = "object" /\ w.type = "object" ->
         LET new == SelectSeq(KeysOf(w), LAMBDA k : k \notin DOMAIN v.value)
         IN  FlattenSeq([i \in DOMAIN KeysOf(v) |->
               LET k == KeysOf(v)[i]
               IN  IF k \in DOMAIN w.value THEN Diff(v.value[k], w.value[k], Under(path, k))
                   ELSE <<Op("remove", Under(path, k), <<>>)>>])
             \o [i \in DOMAIN new |-> Op("add", Under(path, new[i]), w.value[new[i]])]
    [] OTHER -> Replace(path, w)

-----------------------------------------------------------------------------
PatchInit ==
  /\ source \in Sources /\ outcome = "idle" /\ result = source /\ rest = <<>> /\ aim = <<>>

\* patch() with operations of others, or with diff() to another value.
BeginPatch ==
  /\ outcome = "idle" /\ rest' \in Patches /\ aim' = <<>>
  /\ outcome' = "applying" /\ UNCHANGED <<source, result>>

BeginDiff ==
  /\ outcome = "idle"
  /\ \E w \in Sources : aim' = <<w>> /\ rest' = Diff(source, w, <<>>)
  /\ outcome' = "applying" /\ UNCHANGED <<source, result>>

\* The next operation; an exception leaves the value as it was, the copy is dropped.
Apply ==
  /\ outcome = "applying" /\ rest # <<>>
  /\ LET o == Head(rest)
         r == IF Tokens(o.path) = <<>> \/ (o.op \in {"move", "copy"} /\ Tokens(o.with) = <<>>)
              THEN <<>> ELSE Applied(result, o)
     IN  /\ outcome' = IF r = <<>> THEN "thrown" ELSE "applying"
         /\ result' = IF r = <<>> THEN source ELSE r[1]
  /\ rest' = Tail(rest) /\ UNCHANGED <<source, aim>>

EndPatch ==
  /\ outcome = "applying" /\ rest = <<>>
  /\ outcome' = "done" /\ UNCHANGED <<source, result, rest, aim>>

Flatten ==
  /\ outcome = "idle" /\ outcome' = "flat" /\ result' = Object(Flattened(<<>>, source))
  /\ UNCHANGED <<source, rest, aim>>

Unflatten ==
  /\ outcome = "flat"
  /\ LET r == Unflattened(result.value)
     IN  /\ outcome' = IF r = <<>> THEN "unflat_thrown" ELSE "unflat"
         /\ result' = IF r = <<>> THEN result ELSE r[1]
  /\ UNCHANGED <<source, rest, aim>>

PatchNext == BeginPatch \/ BeginDiff \/ Apply \/ EndPatch \/ Flatten \/ Unflatten

PatchSpec == PatchInit /\ [][PatchNext]_patchVars
-----------------------------------------------------------------------------
\* "source.patch(diff(source, target)) == target" (json.h:15191), and no step of
\* the patch fails.
DiffsArePatches ==
  aim # <<>> /\ outcome \in {"done", "thrown"} => outcome = "done" /\ Equal(result, aim[1])

RECURSIVE Whole(_)

\* Values of which every part has a path that leads back to it: no empty container,
\* and no object with a key 0, which may be taken for an index.
Whole(v) ==
  IsStructured(v) =>
    /\ DOMAIN v.value # {}
    /\ v.type = "object" => <<Nil>> \notin DOMAIN v.value
    /\ \A k \in DOMAIN v.value : Whole(v.value[k])

\* A flattened value is unflattened to the same one (json.h:14859, :14880).
FlattenedValuesAreUnflattened ==
  outcome \in {"unflat", "unflat_thrown"} /\ Whole(source) => outcome = "unflat" /\ Equal(result, source)

(* The operations of RFC 6902, on a value as the function from the paths to all its *)
(* parts.                                                                            *)
RECURSIVE Nodes(_)

Nodes(v) ==
  LET parts == CASE v.type = "array"  -> [t \in {NumeralOf(i - 1) : i \in DOMAIN v.value} |-> v.value[Numeral(t) + 1]]
                 [] v.type = "object" -> v.value
                 [] OTHER             -> <<>>
      below == {<<k>> \o t : <<k, t>> \in UNION {{<<k, t>> : t \in DOMAIN Nodes(parts[k])} : k \in DOMAIN parts}}
  IN  [t \in below \union {<<>>} |->
         IF t # <<>> THEN Nodes(parts[t[1]])[Tail(t)] ELSE IF IsStructured(v) THEN Value(v.type, <<>>) ELSE v]

Size(N, p) == Cardinality({t \in DOMAIN N : Len(t) = Len(p) + 1 /\ IsPrefix(p, t)})
Cut(N, p)   == [t \in {u \in DOMAIN N : ~IsPrefix(p, u)} |-> N[t]]
Graft(N, p, M) == Cut(N, p) @@ [t \in {p \o u : u \in DOMAIN M} |-> M[SubSeq(t, Len(p) + 1, Len(t))]]

\* Elements of the array at p from i on move by d places.
Shift(N, p, i, d) ==
  LET n == Len(p) + 1
      Moves(t) == Len(t) >= n /\ IsPrefix(p, t) /\ Numeral(t[n]) >= i
      To(t) == IF Moves(t) THEN [t EXCEPT ![n] = NumeralOf(Numeral(@) + d)] ELSE t
      image == {<<To(t), N[t]>> : t \in DOMAIN N}
  IN  [t \in {x[1] : x \in image} |-> (CHOOSE x \in image : x[1] = t)[2]]

\* What is at p is taken out, M is put in; either gives nothing if it is not valid.
TakenOut(N, p) ==
  CASE p = <<>> \/ p \notin DOMAIN N -> <<>>
    [] N[Front(p)].type = "object" -> <<Cut(N, p)>>
    [] OTHER -> <<Shift(Cut(N, p), Front(p), Numeral(Last(p)), -1)>>

PutIn(N, p, M) ==
  LET places == {NumeralOf(i) : i \in 0 .. Size(N, Front(p))} \union {PastEnd}
      place  == IF Last(p) = PastEnd THEN Size(N, Front(p)) ELSE Numeral(Last(p))
  IN  CASE p = <<>> -> <<M>>
        [] p # <<>> /\ Front(p) \notin DOMAIN N -> <<>>
        [] N[Front(p)].type = "object" -> <<Graft(N, p, M)>>
        [] N[Front(p)].type = "array" /\ Last(p) \in places ->
             <<Graft(Shift(N, Front(p), place, 1), Append(Front(p), NumeralOf(place)), M)>>
        [] OTHER -> <<>>

Meant(N, o) ==
  LET p == Tokens(o.path)[1]
      f == Tokens(o.with)[1]
      Sub(q) == [t \in {SubSeq(u, Len(q) + 1, Len(u)) : u \in {u \in DOMAIN N : IsPrefix(q, u)}} |-> N[q \o t]]
      out == TakenOut(N, f)
  IN  CASE o.op = "add"     -> PutIn(N, p, Nodes(o.with))
        [] o.op = "remove"  -> TakenOut(N, p)
        [] o.op = "replace" -> IF p \in DOMAIN N THEN <<Graft(N, p, Nodes(o.with))>> ELSE <<>>
        [] o.op = "move"    -> IF out = <<>> \/ IsStrictPrefix(f, p) THEN <<>> ELSE PutIn(out[1], p, Sub(f))
        [] o.op = "copy"    -> IF f \in DOMAIN N THEN PutIn(N, p, Sub(f)) ELSE <<>>
        [] o.op = "test"    -> IF p \in DOMAIN N /\ Sub(p) = Nodes(o.with) THEN <<N>> ELSE <<>>
        [] OTHER            -> <<>>

\* A valid operation is never refused and does what RFC 6902 says (json.h:14973).
ValidOperationsAreApplied ==
  [][LET o == Head(rest)
         m == Meant(Nodes(result), o)
     IN  outcome = "applying" /\ rest # <<>> /\ Tokens(o.path) # <<>>
           /\ (o.op \in {"move", "copy"} => Tokens(o.with) # <<>>) /\ m # <<>> =>
         outcome' = "applying" /\ Nodes(result') = m[1]]_patchVars

\* Pointers, patches and diffs mean the same places: whatever a path is made from leads
\* back to it, also when the operations before have moved it (the three parts above).
PatchesMeanWhatTheySay ==
  [](DiffsArePatches /\ FlattenedValuesAreUnflattened) /\ ValidOperationsAreApplied
=============================================================================
