------------------------------- MODULE Chains -------------------------------
(* The linked lists of dom/root_doc_map.c, as sequences without duplicates: *)
(* unlinking entries from a list and walking it to the first entry that     *)
(* matches.  And what is reached by following links of any kind.            *)
EXTENDS Integers, Sequences, FiniteSets

\* The list s with a new entry at its front.
Push(s, e) == <<e>> \o s

\* The list s after the entries E were unlinked; the others keep their order.
Without(s, E) ==
  LET kept[n \in 0 .. Len(s)] ==
        IF n = 0 THEN <<>>
        ELSE IF s[n] \in E THEN kept[n - 1] ELSE Append(kept[n - 1], s[n])
  IN  kept[Len(s)]

\* What a walk from the head of s to an entry of R finds: one entry or none.
FirstOf(s, R) ==
  {s[i] : i \in {i \in 1 .. Len(s) : s[i] \in R /\ \A j \in 1 .. i - 1 : s[j] \notin R}}

\* What is reached from e by following next, e itself included.
Reached(e, next) ==
  LET within[k \in 0 .. Cardinality(DOMAIN next)] ==
        IF k = 0 THEN {e}
        ELSE LET w == within[k - 1] IN w \cup UNION {next[n] : n \in w}
  IN  within[Cardinality(DOMAIN next)]
=============================================================================
