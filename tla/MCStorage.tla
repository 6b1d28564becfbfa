------------------------------ MODULE MCStorage ------------------------------
(***************************************************************************)
(* A small instance of Storage and of its iterations: three directories    *)
(* besides the root and the names a and ab, where the text of ab starts    *)
(* with that of a.                                                         *)
(***************************************************************************)
EXTENDS StorageIterate, TLC

MCNames == {"a", "ab"}

MCStartsWith == {<<m, n>> \in MCNames \X MCNames : m = n \/ <<m, n>> = <<"a", "ab">>}

\* Bounds: paths of at most two components.
MCPathArgs ==
  [absolute : BOOLEAN, comps : BoundedSeq({"a", "ab"}, 2)]
  \cup {[absolute |-> b, comps |-> c] : b \in BOOLEAN,
          c \in {<<".">>, <<"..">>, <<"?">>, <<"a", "..">>, <<"..", "a">>, <<"a", ".">>}}

MCSymmetry == Permutations(Dirs \ {Root})
=============================================================================
