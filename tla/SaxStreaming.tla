---------------------------- MODULE SaxStreaming ----------------------------
(* The resumable SAX parser (sax/streaming.c): one step function per state,  *)
(* a carry for a token cut by the end of a chunk, and a dispatch loop run by  *)
(* every feed.  A byte is a one-character string.  Three openers are          *)
(* shortened, keeping their order of length: <![CDATA[ is <![C[, <!DOCTYPE is *)
(* <!DOT, and the xml of an XML declaration is x.  A name is a sequence of    *)
(* letters, a reference has one.  Not modelled: positions, depth limit,       *)
(* memory failures, repeated attributes, the in-place scans of one-shot mode. *)
EXTENDS Integers, SequencesExt, FiniteSetsExt

CONSTANTS
  Inputs      \* what may arrive: sequences of pieces [bytes, events]

ASSUME InputsAssumption == \A i \in Inputs : \A k \in DOMAIN i : DOMAIN i[k] = {"bytes", "events"}

VARIABLES
  input,      \* the pieces that arrive
  fed,        \* how many of their bytes have arrived
  final,      \* the last feed has been made
  endCut,     \* a feed ended behind the white space of an end tag
  sax         \* the parser

vars == <<input, fed, final, endCut, sax>>

White == {" "}
Letter == {"a", "b", "m", "x", "C", "D", "O", "T"}
CDataOpen == <<"<", "!", "[", "C", "[">>
DoctypeOpen == <<"<", "!", "D", "O", "T">>

Bytes == FlattenSeq([k \in DOMAIN input |-> input[k].bytes])

-----------------------------------------------------------------------------
(* Sequences of bytes.                                                      *)

From(s, i) == SubSeq(s, i, Len(s))

\* The first place of pattern pat in s, 0 if it is not there.
Place(s, pat) ==
  LET at == {i \in 1..(Len(s) - Len(pat) + 1) : SubSeq(s, i, i + Len(pat) - 1) = pat}
  IN IF at = {} THEN 0 ELSE Min(at)

\* How many bytes of S the sequence starts with.
Run(s, S) == Min({i \in 0..Len(s) : i = Len(s) \/ s[i + 1] \notin S})

-----------------------------------------------------------------------------
(* Events.  Adjacent character events count as one, as a consumer of the     *)
(* interface must take them: their number depends on the chunks.             *)

Started(n, as) == [kind |-> "start", name |-> n, attrs |-> as]
Ended(n) == [kind |-> "end", name |-> n]
Text(s) == [kind |-> "text", data |-> s]

Emit(ev, e) ==
  IF e.kind = "text" /\ ev # <<>> /\ Last(ev).kind = "text"
  THEN Append(Front(ev), Text(Last(ev).data \o e.data))
  ELSE Append(ev, e)

\* References in a span are replaced by what they stand for: &a; by A.
Decoded[s \in Seq(STRING)] ==
  IF Place(s, <<"&", "a", ";">>) = 0 THEN s
  ELSE LET i == Place(s, <<"&", "a", ";">>)
       IN SubSeq(s, 1, i - 1) \o <<"A">> \o Decoded[From(s, i + 3)]

Characters(ev, s) == IF s = <<>> THEN ev ELSE Emit(ev, Text(Decoded[s]))

\* Attribute m is a namespace declaration.
Mappings(ev, f, kind) ==
  ev \o [k \in 1..Len(SelectSeq(f.attrs, LAMBDA a : a.name = <<"m">>)) |-> [kind |-> kind]]

-----------------------------------------------------------------------------
(* The states.  A step takes the parser and whether the feed is the last,    *)
(* and says in rc whether to go on, to wait for more, or to give up.         *)

Go(p)    == [p EXCEPT !.rc = "ok"]
Fail(p)  == [p EXCEPT !.rc = "err", !.state = "error"]
More(p, last) == IF last THEN Fail(p) ELSE [p EXCEPT !.rc = "more"]

\* Slip: the parser waits without keeping the bytes it has read.
StashSlip(p, last) == More([p EXCEPT !.buf = <<>>], last)

\* What there is goes to the carry, to be put before the next chunk.
Stash(p, last) == More([p EXCEPT !.carry = @ \o p.buf, !.buf = <<>>], last)

\* n bytes are consumed and the carry is empty in the next state.
Into(p, state, n) == Go([p EXCEPT !.state = state, !.buf = From(@, n + 1), !.carry = <<>>])

\* The state to return to after markup that can stand anywhere.
Back(p) == IF p.stack = <<>> THEN "toplevel" ELSE "content"

\* A whole declaration, comment or instruction before or after the root, or nothing of it.
TopMarkup(p, close, last, after, ev) ==
  LET at == Place(From(p.buf, after), close)
  IN IF at = 0 THEN Stash(p, last)
     ELSE [Into(p, "toplevel", after + at + Len(close) - 2) EXCEPT
             !.ev = IF ev.kind = "none" \/ (ev.kind = "comment" /\ at = 1) THEN p.ev
                    ELSE Emit(p.ev, [ev EXCEPT !.data = SubSeq(p.buf, after, after + at - 2)])]

TopLevel(p0, last) ==
  LET p == [p0 EXCEPT !.buf = From(@, Run(@, White) + 1)]
      b == p.buf
      n == Len(b)
      none == [kind |-> "none"]
  IN CASE n = 0 -> IF last THEN [p EXCEPT !.rc = "done"] ELSE [p EXCEPT !.rc = "more"]
       [] n > 0 /\ b[1] # "<" -> Fail(p)
       [] n = 1 /\ b[1] = "<" -> Stash(p, last)
       [] n > 1 /\ b[1] = "<" /\ b[2] \notin {"?", "!"} ->
            IF b[2] \in Letter THEN Into(p, "name", 1) ELSE Fail(p)
       [] n > 1 /\ b[1] = "<" /\ b[2] = "?" ->
            IF n > 2 /\ b[3] = "x" /\ (n = 3 \/ b[4] \in White \cup {"?"})
            THEN TopMarkup(p, <<"?", ">">>, last, 4, none)
            ELSE TopMarkup(p, <<"?", ">">>, last, 3, [kind |-> "pi", data |-> <<>>])
       [] n > 1 /\ b[1] = "<" /\ b[2] = "!" ->
            IF n >= 4 /\ SubSeq(b, 3, 4) = <<"-", "-">>
            THEN TopMarkup(p, <<"-", "-", ">">>, last, 5, [kind |-> "comment", data |-> <<>>])
            ELSE IF n < 5 THEN Stash(p, last)
            ELSE IF SubSeq(b, 1, 5) = DoctypeOpen THEN TopMarkup(p, <<">">>, last, 6, none)
            ELSE Into(p, "name", 1)

\* A name is gathered in the carry; the step after it runs when the name is over.
Name(p, last, Then(_, _)) ==
  LET n == Run(p.buf, Letter)
      q == [p EXCEPT !.carry = @ \o SubSeq(p.buf, 1, n), !.buf = From(@, n + 1)]
  IN IF p.carry = <<>> /\ p.buf = <<>> THEN More(p, last)
     ELSE IF q.carry = <<>> THEN Fail(p)
     ELSE IF q.buf = <<>> /\ ~last THEN More(q, last)
     ELSE Then(q, q.carry)

ElemOpenName(p, last) ==
  Name(p, last, LAMBDA q, n :
    [Into(q, "attrs", 0) EXCEPT !.stack = Append(@, [name |-> n, attrs |-> <<>>])])

SkipWhite(p) == [p EXCEPT !.buf = From(@, Run(@, White) + 1)]

StartEvents(ev, f) == Emit(Mappings(ev, f, "startPrefix"), Started(f.name, f.attrs))
EndEvents(ev, f)   == Mappings(Emit(ev, Ended(f.name)), f, "endPrefix")

\* Slip: a slash at the end of a chunk is taken for an attribute.
AttrListSlip(p0, last) ==
  LET p == SkipWhite(p0)
      f == Last(p.stack)
  IN CASE p.buf = <<>> -> More(p, last)
       [] p.buf # <<>> /\ p.buf[1] = ">" ->
            [Into(p, "content", 1) EXCEPT !.ev = StartEvents(p.ev, f)]
       [] Len(p.buf) > 1 /\ p.buf[1] = "/" /\ p.buf[2] = ">" ->
            LET q == [p EXCEPT !.stack = Front(@)]
            IN [Into(q, Back(q), 2) EXCEPT !.ev = EndEvents(StartEvents(p.ev, f), f)]
       [] OTHER -> Into(p, "attrName", 0)

AttrList(p0, last) ==
  LET p == SkipWhite(p0)
      f == Last(p.stack)
  IN CASE p.buf = <<>> \/ p.buf = <<"/">> -> More(p, last)
       [] p.buf # <<>> /\ p.buf[1] = ">" ->
            [Into(p, "content", 1) EXCEPT !.ev = StartEvents(p.ev, f)]
       [] Len(p.buf) > 1 /\ p.buf[1] = "/" /\ p.buf[2] = ">" ->
            LET q == [p EXCEPT !.stack = Front(@)]
            IN [Into(q, Back(q), 2) EXCEPT !.ev = EndEvents(StartEvents(p.ev, f), f)]
       [] OTHER -> Into(p, "attrName", 0)

AttrName(p, last) ==
  Name(p, last, LAMBDA q, n : [Into(q, "attrEq", 0) EXCEPT !.attr = n])

AttrEq(p0, last) ==
  LET p == SkipWhite(p0)
  IN IF p.buf = <<>> THEN More(p, last)
     ELSE IF p.buf[1] = "=" THEN Into(p, "attrQuote", 1) ELSE Fail(p)

\* The quote is the first byte of the carry while the value is read.
AttrQuote(p0, last) ==
  LET p == SkipWhite(p0)
  IN IF p.buf = <<>> THEN More(p, last)
     ELSE IF p.buf[1] \in {"'", "q"}
          THEN [Into(p, "attrValue", 1) EXCEPT !.carry = <<p.buf[1]>>]
     ELSE Fail(p)

AttrValue(p, last) ==
  LET at == Place(p.buf, <<p.carry[1]>>)
      raw == Tail(p.carry) \o SubSeq(p.buf, 1, at - 1)
      new == [name |-> p.attr, value |-> Decoded[raw]]
  IN IF at = 0 THEN Stash(p, last)
     ELSE [Into(p, "attrs", at) EXCEPT
             !.stack = Append(Front(p.stack), [Last(p.stack) EXCEPT !.attrs = Append(@, new)])]

Content(p, last) ==
  LET b == p.buf
      n == Len(b)
  IN CASE n = 0 -> More(p, last)
       [] n > 0 /\ b[1] # "<" -> Into(p, "text", 0)
       [] n = 1 /\ b[1] = "<" -> Stash(p, last)
       [] n > 1 /\ b[1] = "<" /\ b[2] = "/" -> Into(p, "close", 2)
       [] n > 1 /\ b[1] = "<" /\ b[2] = "?" -> Into(p, "pi", 2)
       [] n > 1 /\ b[1] = "<" /\ b[2] = "!" ->
            IF n < 4 THEN Stash(p, last)
            ELSE IF SubSeq(b, 3, 4) = <<"-", "-">> THEN Into(p, "comment", 4)
            ELSE IF n < Len(CDataOpen) THEN Stash(p, last)
            ELSE IF SubSeq(b, 1, 5) = CDataOpen THEN Into(p, "cdata", 5)
            ELSE Fail(p)
       [] n > 1 /\ b[1] = "<" /\ b[2] \notin {"/", "?", "!"} -> Into(p, "name", 1)

\* Slip: a reference cut by the end of a chunk is delivered in two parts.
CompleteSlip(s) == Len(s)

\* How much of a span can be delivered: up to a reference that is not complete.
Complete(s) ==
  LET open == {i \in 1..Len(s) : s[i] = "&" /\ ";" \notin ToSet(From(s, i))}
  IN IF open = {} THEN Len(s) ELSE Min(open) - 1

TextRun(p, last) ==
  LET at == Place(p.buf, <<"<">>)
      n == IF at = 0 THEN Len(p.buf) ELSE at - 1
      span == p.carry \o SubSeq(p.buf, 1, n)
      done == IF last THEN Len(span) ELSE Complete(span)
      q == [p EXCEPT !.buf = From(@, n + 1), !.carry = From(span, done + 1),
                     !.ev = Characters(@, SubSeq(span, 1, done))]
  IN IF q.buf = <<>> THEN More(q, last)
     ELSE [Into(q, "content", 0) EXCEPT !.ev = Characters(q.ev, q.carry)]

\* The name is compared and the carry given up before the white space and '>' are there.
ClosingTag(p, last) ==
  Name(p, last, LAMBDA q, n :
    LET f == Last(q.stack)
        r == SkipWhite([q EXCEPT !.carry = <<>>])
        s == [r EXCEPT !.stack = Front(@)]
    IN IF q.stack = <<>> \/ f.name # n THEN Fail(q)
       ELSE IF r.buf = <<>> THEN More(r, last)
       ELSE IF r.buf[1] # ">" THEN Fail(r)
       ELSE [Into(s, Back(s), 1) EXCEPT !.ev = EndEvents(r.ev, f)])

\* Slip: the end is looked for in the new bytes only.
DelimitedSlip(p, close, last, kind) ==
  LET at == Place(p.buf, close)
      Body(s, n) == [Into(p, Back(p), n) EXCEPT
                       !.ev = IF s = <<>> /\ kind # "pi" THEN p.ev
                              ELSE Emit(p.ev, [kind |-> kind, data |-> s])]
  IN IF at # 0 THEN Body(p.carry \o SubSeq(p.buf, 1, at - 1), at + Len(close) - 1)
     ELSE Stash(p, last)

\* The body of a comment, CDATA section or instruction, whose end may lie partly in
\* the carry; only an instruction is reported when it is empty.
Delimited(p, close, last, kind) ==
  LET cut == {k \in 1..(Len(close) - 1) : /\ IsSuffix(SubSeq(close, 1, k), p.carry)
                                          /\ IsPrefix(From(close, k + 1), p.buf)}
      at == Place(p.buf, close)
      Body(s, n) == [Into(p, Back(p), n) EXCEPT
                       !.ev = IF s = <<>> /\ kind # "pi" THEN p.ev
                              ELSE Emit(p.ev, [kind |-> kind, data |-> s])]
  IN IF cut # {} THEN Body(SubSeq(p.carry, 1, Len(p.carry) - Max(cut)), Len(close) - Max(cut))
     ELSE IF at # 0 THEN Body(p.carry \o SubSeq(p.buf, 1, at - 1), at + Len(close) - 1)
     ELSE Stash(p, last)

Comment(p, last) == Delimited(p, <<"-", "-", ">">>, last, "comment")
CData(p, last)   == Delimited(p, <<"]", "]", ">">>, last, "cdata")
Pi(p, last)      == Delimited(p, <<"?", ">">>, last, "pi")

Step(p, last) ==
  CASE p.state = "toplevel" -> TopLevel(p, last)
    [] p.state = "name" -> ElemOpenName(p, last)
    [] p.state = "attrs" -> AttrList(p, last)
    [] p.state = "attrName" -> AttrName(p, last)
    [] p.state = "attrEq" -> AttrEq(p, last)
    [] p.state = "attrQuote" -> AttrQuote(p, last)
    [] p.state = "attrValue" -> AttrValue(p, last)
    [] p.state = "content" -> Content(p, last)
    [] p.state = "text" -> TextRun(p, last)
    [] p.state = "close" -> ClosingTag(p, last)
    [] p.state = "comment" -> Comment(p, last)
    [] p.state = "cdata" -> CData(p, last)
    [] p.state = "pi" -> Pi(p, last)
    [] p.state = "done" -> [p EXCEPT !.rc = "more"]
    [] p.state = "error" -> [p EXCEPT !.rc = "err"]

\* The end of the document: at top level with everything read, in the last feed.
AtEnd(p) == p.state = "toplevel" /\ p.stack = <<>> /\ p.buf = <<>>

RECURSIVE Dispatch(_, _)
Dispatch(p, last) ==
  LET q == Step(p, last)
  IN IF q.rc \in {"err", "more"} THEN q
     ELSE IF AtEnd(q)
          THEN IF last THEN [q EXCEPT !.state = "done", !.ev = Emit(@, [kind |-> "endDocument"])] ELSE q
     ELSE Dispatch(q, last)

\* leptris_sax_streaming_feed: what two states stashed comes first.
Fed(p, chunk, last) ==
  LET again == p.state \in {"toplevel", "content"}
  IN Dispatch([p EXCEPT !.buf = (IF again THEN p.carry ELSE <<>>) \o @ \o chunk,
                        !.carry = IF again THEN <<>> ELSE @], last)

-----------------------------------------------------------------------------
Init ==
  /\ input \in Inputs
  /\ fed = 0
  /\ final = FALSE
  /\ sax = [state |-> "toplevel", buf |-> <<>>, carry |-> <<>>, stack |-> <<>>, attr |-> "",
            ev |-> <<>>, rc |-> "more"]
  /\ endCut = FALSE

\* The first n bytes end behind the white space of an end tag.
BehindEndName(n) ==
  n > 0 /\ Bytes[n] \in White
    /\ \E i \in 1..n : /\ SubSeq(Bytes, i, i + 1) = <<"<", "/">>
                       /\ ToSet(SubSeq(Bytes, i + 2, n)) \subseteq Letter \cup White

\* leptris_sax_parser_feed with the next n bytes; an empty feed may be the last one.
Feed(n, last) ==
  /\ ~final
  /\ fed + n <= Len(Bytes)
  /\ last => fed + n = Len(Bytes)
  /\ n > 0 \/ last
  /\ fed' = fed + n
  /\ final' = last
  /\ endCut' = (endCut \/ (~last /\ BehindEndName(fed + n)))
  /\ sax' = Fed(sax, SubSeq(Bytes, fed + 1, fed + n), last)
  /\ UNCHANGED input

Next == \E n \in 0..Len(Bytes), last \in BOOLEAN : Feed(n, last)

Spec == Init /\ [][Next]_vars

-----------------------------------------------------------------------------
(* Properties.                                                              *)

\* The events of the first n pieces.
Meaning(n) == FoldLeft(Emit, <<>>, FlattenSeq([k \in 1..n |-> input[k].events]))

AsRead == sax.state = "done" /\ sax.ev = Append(Meaning(Len(input)), [kind |-> "endDocument"])

\* However the input is cut into chunks, but behind the white space of an end tag, the
\* events are those its pieces stand for: names, values, references, tags and section
\* ends cut anywhere else are put together again, and nothing is reported twice or as an
\* error (include/leptris/sax/sax.h:284-294, streaming.c:1077-1252).  Behind that white
\* space the interface is not kept: the carry of an end tag is given up when its name is
\* matched, and the next feed looks for the name again (streaming.c:1218, 1228-1231).
Faithful == final /\ ~endCut => AsRead

\* An event is delivered by the feed that brings its last byte, and no earlier feed
\* reports anything of it but text: whatever arrived complete is out.  (Not after a cut
\* behind the white space of an end tag, which ends the parse.)
Prompt ==
  ~endCut => \A n \in DOMAIN input :
    Len(FlattenSeq([k \in 1..n |-> input[k].bytes])) <= fed
      /\ (n = Len(input) \/ \A e \in ToSet(input[n].events) \cup ToSet(input[n + 1].events) : e.kind # "text")
      => IsPrefix(Meaning(n), sax.ev)
=============================================================================
