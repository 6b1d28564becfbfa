------------------------------ MODULE MCDocuments ------------------------------
(* TinyXml with up to MaxNodes nodes, and XmlText on all files of up to      *)
(* four of the tokens below, on truncated ones and on documents of up to     *)
(* two levels; "subject" says which of the two a behaviour is about.         *)
EXTENDS TinyXml, XmlText

VARIABLE subject

Of(kind, v)           == Token(kind, <<v>>, <<>>)
Tagged(kind, as)      == Token(kind, <<"a">>, as)
Valued(name, v)       == <<name, v>>

MCTokens == {Of("start", "a"), Of("start", "b"), Of("end", "a"), Of("end", "b"),
             Tagged("empty", <<Valued("x", <<"&", "lt;">>)>>),
             Tagged("start", <<Valued("x", <<"a">>), Valued("x", <<"a">>)>>),
             Of("comment", "c"), Of("cdata", "&"), Char("a"), Char("&"), Blank}

MCCut == {Of("tag", "a"), Of("half", "c")}

MCFiles == SeqOf(MCTokens, 4) \union {Append(f, t) : f \in SeqOf(MCTokens, 2), t \in MCCut}

Inner(kids) == XmlNode("element", <<"a">>, <<>>, kids)
OfValue(kind, v) == XmlNode(kind, v, <<>>, <<>>)

MCValues == {<<"a">>, <<"<", "a">>, <<"&">>, <<"&", "amp;">>, <<"&", "#x61;">>,
             <<"a", " ", "&">>, <<" ">>}

MCKids == {OfValue("text", v) : v \in MCValues}
            \union {OfValue(kind, <<"&">>) : kind \in {"comment", "cdata", "unknown"}}
            \union {Inner(<<>>), Inner(<<OfValue("text", <<"a">>)>>),
                    XmlNode("element", <<"a">>,
                            <<Valued("x", <<"&">>), Valued("y", <<"<", "a">>)>>, <<>>)}

MCDocuments ==
  {Document(<<Inner(kids)>>) : kids \in SeqOf(MCKids, 2)}
    \union {Document(<<OfValue("declaration", <<"v">>), Inner(<<Inner(<<k>>), l>>),
                       OfValue("comment", <<"c">>)>>) : k, l \in MCKids}

MCInit == XmlInit /\ TextInit /\ \/ subject = "text"
                                 \/ subject = "nodes" /\ file = <<>> /\ TheDocument.kids = <<>>
MCNext == /\ UNCHANGED subject
          /\ \/ subject = "nodes" /\ XmlNext /\ UNCHANGED textVars
             \/ subject = "text" /\ TextNext /\ UNCHANGED nodes

MCSpec == MCInit /\ [][MCNext]_<<subject, nodes, textVars>> /\ WF_textVars(Parse /\ UNCHANGED <<nodes, subject>>)
=============================================================================
