--------------------------- MODULE MCMonitorElements ---------------------------
(* Two elements, the root and one directory, two names and two tests: under *)
(* the operations of callers, or under storage files that are parsed one    *)
(* after the other.                                                         *)
EXTENDS StorageFile, TLC

CONSTANTS e1, e2, m, n, t1, t2

VARIABLE subject

MCPaths == {<<>>, <<"a">>}

\* In the first file, the object at a/m is called n.
MCRootFiles ==
  [r |-> (<< <<>>, m >> :> m) @@ (<< <<"a">>, m >> :> n),
   s |-> (<< <<>>, m >> :> m) @@ (<< <<>>, n >> :> n)
           @@ (<< <<"a">>, m >> :> m) @@ (<< <<"a">>, n >> :> n)]

MCClasses == [TGraph |-> "named", TObject |-> "unnamed", TForeign |-> "foreign"]

style(theme, o, r) == [theme |-> theme, object |-> o, reference |-> r]
open(id, f) == [id |-> id, file |-> f]
test(t, good) == [name |-> t, good |-> good]
ref(id, p, k) == [id |-> id, path |-> p, name |-> k]
same == ref("i", Unset, Unset)
read(f, p, k, r, ts) ==
  [tag |-> "fileElement", file |-> f, path |-> p, name |-> k, reference |-> r, tests |-> ts]
book(type, has, p, k, r, ts) ==
  [tag |-> "bookElement", type |-> type, has |-> has, path |-> p, name |-> k,
   reference |-> r, tests |-> ts]
files(f, l) == [tag |-> "file", file |-> f, elements |-> l]
other == [tag |-> "other"]
storageXml(st, refs, ts, l) == [style |-> st, references |-> refs, tests |-> ts, elements |-> l]
only(i) == storageXml(None, <<>>, <<>>, <<i>>)
binsX == {"nBinsX", "minX", "maxX"}

Good == {
  storageXml(style("thick", "good", "none"), <<open("i", "s")>>, <<test(t1, TRUE), test(t2, TRUE)>>,
    << book("TH1", binsX, <<"a">>, m, same, <<t1, t2>>), other,
       read("s", Unset, n, ref("i", Unset, m), <<t2>>) >>),
  storageXml(None, <<open("i", "s")>>, <<test(t1, TRUE)>>,
    << files("r", << read("r", <<"a">>, m, same, <<t1>>), read("r", Unset, m, None, <<>>) >>) >>),
  storageXml(style("", "none", "good"), <<>>, <<>>,
    << book("int", {}, Unset, m, ref("i", <<"a">>, n), <<t1>>) >>) }

\* One mistake in each: of the style, of a file, of a test, of an element, of
\* a reference, and a test that is given twice.
Bad ==
  { storageXml(st, <<>>, <<>>, <<>>) : st \in
      {style("unknown", "none", "none"), style("thick", "bad", "none"), style("thick", "good", "bad")} }
  \union { storageXml(None, <<r>>, <<>>, <<>>) : r \in {open("j", "none"), open("j", "")} }
  \union { storageXml(None, <<>>, <<t>>, <<>>) : t \in {test(t1, FALSE), test(Unset, TRUE)} }
  \union { only(i) : i \in
      { files("", <<>>), read("none", Unset, m, None, <<>>),
        book("TH2", binsX, Unset, m, None, <<>>), book("TGraph", {}, Unset, Unset, None, <<>>),
        book("TForeign", {}, Unset, m, None, <<>>), book("TObject", {}, Unset, m, None, <<>>) } }
  \union {
      storageXml(None, <<>>, <<>>,
        << book("THStack", {}, Unset, n, ref("k", Unset, Unset), <<>>),
           book("TGraph", {}, Unset, m, None, <<t1>>) >>),
      storageXml(None, <<>>, <<>>,
        << book("TGraph", {}, Unset, m, None, <<t1, t1>>),
           book("TGraph", {}, <<"a">>, m, None, <<t1>>) >>) }

MCStorageFiles == Good \union Bad

MCInit == Init /\ FileInit /\ subject \in {"callers", "files"}

MCNext ==
  /\ UNCHANGED subject
  /\ \/ subject = "callers" /\ Next /\ UNCHANGED fileVars
     \/ subject = "files" /\ FileNext

MCSpec == MCInit /\ [][MCNext]_<<vars, fileVars, subject>>
=============================================================================
