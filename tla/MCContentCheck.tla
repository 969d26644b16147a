--------------------------- MODULE MCContentCheck ---------------------------
EXTENDS ContentCheck
Abc == {"a", "b", "c"}
A == Particle({"a"})
B == Particle({"b"})
C == Particle({"c"})
Occ(p) == {p, Times(p, 0, 1), Times(p, 0, Unbounded), Times(p, 1, Unbounded)}
Groups(Xs, Ys) == {Node(k, <<x, y>>) : k \in {"seq", "choice"}, x \in Xs, y \in Ys}
Ab == Groups({A, Times(A, 0, 1)}, {B, Times(B, 0, Unbounded)}) \cup {Node("seq", <<A>>), Node("choice", <<A, C>>)}
Nested == Groups(Ab, {C, B, Times(A, 0, Unbounded)}) \cup Groups({A, Times(C, 0, 1)}, Ab)
DtdPlainModels == Nested \cup UNION {Occ(g) : g \in Ab}
DtdRepeated == Groups(UNION {Occ(g) \ {g} : g \in Groups({A}, {B, Times(B, 0, 1)})}, {A, C, Times(C, 0, 1)})
                 \cup Groups({A, Times(C, 0, Unbounded)}, UNION {Occ(g) \ {g} : g \in Groups({A}, {B, Times(B, 0, 1)})})
Dtd(Ms) == {[lang |-> "dtd", model |-> m, open |-> NoOpen] : m \in Ms}

Ranges == {<<0, 1>>, <<1, 1>>, <<0, Unbounded>>, <<2, 3>>, <<1, Unbounded>>, <<0, 0>>}
Bounded(p) == {Times(p, r[1], r[2]) : r \in Ranges}
AnyOf == Particle({"a", "c"})
XsdGroups == Groups(Bounded(A), {Times(AnyOf, 0, 2), Times(B, 0, 1), B})
XsdModels == XsdGroups \cup UNION {{Times(g, 0, Unbounded), Times(g, 1, 2), Times(g, 0, 2)} : g \in XsdGroups}
               \cup {Node("seq", <<Node("ref", <<g>>), Times(C, 0, 1)>>) : g \in XsdGroups}
               \cup {Node("choice", <<g, Node("seq", <<>>), Times(Node("ref", <<g>>), 2, 2)>>) : g \in XsdGroups}
               \cup {Node("seq", <<>>)}
               \cup {Times(Node("all", <<x, y, C>>), n, 1) : n \in {0, 1}, x \in {A, Times(A, 0, 1)}, y \in {B, Times(B, 0, 1)}}
Xsd(Ms, open) == {[lang |-> "xsd", model |-> m, open |-> open] : m \in Ms}
SuffixModels == {g \in XsdGroups : g.kind = "seq"} \cup {Node("seq", <<g, C>>) : g \in XsdGroups}
InterleaveModels == {Node("seq", <<x, y>>) : x \in {A, Times(A, 0, 1)}, y \in {B, Times(B, 0, 1), Node("choice", <<A, B>>)}}
Opened(mode) == [mode |-> mode, admits |-> {"c"}]

Wrapped1(g) == {Times(Node("seq", <<g>>), 0, 1), Times(Node("seq", <<g>>), 0, Unbounded), Times(Node("seq", <<g>>), 1, Unbounded)}
RngList == {A, Times(A, 0, 1), Times(A, 0, Unbounded)}
RngItems == UNION {Wrapped1(g) : g \in Groups({A}, {B, Times(B, 0, 1)})}
             \cup Groups({A, Times(A, 0, 1)}, {B, Times(B, 1, Unbounded)})
             \cup {Node("all", <<x, B>>) : x \in RngList} \cup {Node("ref", <<A, Times(B, 0, 1)>>)}
Rng(Ms) == {[lang |-> "rng", model |-> m, open |-> NoOpen] : m \in {m \in Ms : Deterministic(m)}}
RngModels == {Node("seq", <<x, y>>) : x \in RngItems, y \in {C, Times(C, 0, 1), Node("choice", <<C, Node("seq", <<>>)>>)}}
              \cup {Node("seq", <<x, y>>) : y \in RngItems, x \in {C, Times(C, 0, 1)}} \cup {Node("seq", <<x>>) : x \in RngItems}

AllSchemas == Dtd(DtdPlainModels \cup DtdRepeated) \cup Xsd(XsdModels, NoOpen) \cup Xsd(SuffixModels, Opened("suffix")) \cup Xsd(InterleaveModels, Opened("interleave")) \cup Rng(RngModels)
=============================================================================
