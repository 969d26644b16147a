---- MODULE MCSaxStreaming ----
EXTENDS SaxStreaming
P(b, e) == [bytes |-> b, events |-> e]
A == <<"a", "b">>
B == <<"b">>
BX == <<"b", "x">>
Nothing == P(<<>>, <<>>)
Prolog == {Nothing, P(<<"<", "?", "x", "?", ">", " ">>, <<>>),
           P(<<"<", "!", "-", "-", "b", "-", "-", ">">>, <<[kind |-> "comment", data |-> B]>>),
           P(<<"<", "!", "D", "O", "T", "a", ">">>, <<>>),
           P(<<"<", "?", "x", "b", "?", ">">>, <<[kind |-> "pi", data |-> <<"x", "b">>]>>)}
Opened == {P(<<"<", "a", "b", ">">>, <<Started(A, <<>>)>>),
           P(<<"<", "a", "b", " ", "b", "x", " ", "=", "'", "x", "&", "a", ";", "'", ">">>,
             <<Started(A, <<[name |-> BX, value |-> <<"x", "A">>]>>)>>),
           P(<<"<", "a", "b", " ", "m", "=", "q", "'", "q", ">">>,
             <<[kind |-> "startPrefix"], Started(A, <<[name |-> <<"m">>, value |-> <<"'">>]>>)>>)}
Inside == {Nothing,
           P(<<"x", "&", "a", ";", "&", "a", ";">>, <<Text(<<"x", "A", "A">>)>>),
           P(<<"<", "b", "/", ">">>, <<Started(B, <<>>), Ended(B)>>),
           P(<<"<", "b", "x", ">", "x", "<", "/", "b", "x", " ", ">">>,
             <<Started(BX, <<>>), Text(<<"x">>), Ended(BX)>>),
           P(<<"<", "!", "-", "-", "-", "x", "-", "-", ">">>, <<[kind |-> "comment", data |-> <<"-", "x">>]>>),
           P(CDataOpen \o <<"]", "x", "]", "]", "]", ">">>, <<[kind |-> "cdata", data |-> <<"]", "x", "]">>]>>),
           P(<<"<", "?", "b", "?", "?", ">">>, <<[kind |-> "pi", data |-> <<"b", "?">>]>>)}
EndOf(o) == LET ns == \E e \in ToSet(o.events) : e.kind = "startPrefix"
            IN IF ns THEN <<Ended(A), [kind |-> "endPrefix"]>> ELSE <<Ended(A)>>
Tight == <<"<", "/", "a", "b", ">">>
Spaced == <<"<", "/", "a", "b", " ", " ", ">">>
Behind == {Nothing, P(<<"<", "?", "b", "?", ">">>, <<[kind |-> "pi", data |-> B]>>)}
Documents == {<<p, o, i, j, P(c, EndOf(o)), e>> :
                o \in Opened,
                <<p, i, j>> \in {Nothing} \X Inside \X Inside \cup Prolog \X Inside \X {Nothing},
                <<c, e>> \in {Tight} \X Behind \cup {<<Spaced, Nothing>>}}
====
