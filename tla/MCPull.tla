---- MODULE MCPull ----
EXTENDS IterParse
Ev(t, s) == [type |-> t, strings |-> s, attrs |-> <<>>, prefix |-> ""]
S(n, as) == [Ev("start", <<n>>) EXCEPT !.attrs = as]
SQ(p, n) == [Ev("start", <<n>>) EXCEPT !.prefix = p]
E(n) == Ev("end", <<n>>)
T(s) == Ev("text", <<s>>)
Bind(p, u) == Ev("startPrefix", <<p, u>>)
Unbind(p) == Ev("endPrefix", <<p>>)
Done == Ev("endDocument", <<>>)
Err == Ev("error", <<"message">>)
Nested == <<S("r", <<"k", "v">>), T("x"), S("a", <<>>), T("y"), S("b", <<"k", "w">>), Ev("cdata", <<"z">>), T("t"), E("b"),
            Ev("comment", <<"c">>), T("u"), E("a"), T("v"), S("c", <<"l", "m", "n", "o">>), S("d", <<"k", "z">>), E("d"), E("c"), E("r"), Done>>
Scoped == <<Bind("p", "u"), Bind("", "d"), S("r", <<>>), Bind("p", "v"), Bind("q", "w"), SQ("p", "a"), Bind("p", "u"), SQ("q", "b"), E("b"),
            Unbind("p"), SQ("p", "c"), E("c"), E("a"), Unbind("p"), Unbind("q"), SQ("p", "d"), E("d"), E("r"), Unbind("p"), Unbind(""),
            Ev("pi", <<"t", "d">>), Done>>
Broken == <<S("r", <<>>), S("a", <<"k", "v">>), T("x"), E("a"), S("b", <<>>), S("c", <<>>), T("y"), E("c"), Err>>
Texts == {Nested, Scoped, Broken, <<S("r", <<>>), E("r"), Done>>}
====
