------------------------------- MODULE ChildSeq -------------------------------
(***************************************************************************)
(* What the mutation functions of the DOM promise: every element has a     *)
(* sequence of children, every node is in at most one of them, and each    *)
(* call moves one node to the place its name says (leptris.h, "Append      *)
(* child element" to "Remove all children").  Next says that some call is  *)
(* made; which function of the library makes which of them is AsNamed, of  *)
(* the module that implements this one.                                    *)
(***************************************************************************)
EXTENDS SequencesExt

CONSTANTS Elems, Nodes   \* elements, and all nodes

VARIABLE kids     \* element -> the sequence of its children

Attached(c) == LET now == kids IN \E p \in Elems : c \in ToSet(now[p])

(* p does not hang below c, nor is it c: some set that holds c, and with an  *)
(* element the elements among its children, leaves p out.                    *)
Outside(p, c) ==
  LET now == kids
  IN  \E S \in SUBSET Elems :
        /\ p \notin S
        /\ c \in Elems => c \in S
        /\ \A q \in S : ToSet(now[q]) \cap Elems \subseteq S

Without(c) == LET now == kids IN [p \in Elems |-> RemoveFirst(now[p], c)]
Place(p, i, c) ==
  kids' = [Without(c) EXCEPT ![p] = InsertAt(@, i, c)]

AppendChild(p, c) ==
  /\ Outside(p, c)
  /\ Place(p, Len(Without(c)[p]) + 1, c)
PrependChild(p, c) ==
  /\ Outside(p, c)
  /\ Place(p, 1, c)
InsertBefore(p, s, c) ==
  /\ Outside(p, c) /\ s # c
  /\ LET rest == Without(c)[p]
     IN  \E i \in DOMAIN rest : rest[i] = s /\ Place(p, i, c)
InsertAfter(p, s, c) ==
  /\ Outside(p, c) /\ s # c
  /\ LET rest == Without(c)[p]
     IN  \E i \in DOMAIN rest : rest[i] = s /\ Place(p, i + 1, c)
TakeOut(c) == Attached(c) /\ kids' = Without(c)
Clear(p) == kids' = [kids EXCEPT ![p] = <<>>]

Init == kids = [p \in Elems |-> <<>>]
Next ==
  \/ \E p \in Elems, c \in Nodes : AppendChild(p, c) \/ PrependChild(p, c)
  \/ \E p \in Elems, s, c \in Nodes : InsertBefore(p, s, c) \/ InsertAfter(p, s, c)
  \/ \E c \in Nodes : TakeOut(c)
  \/ \E p \in Elems : Clear(p)
Spec == Init /\ [][Next]_kids
================================================================================
