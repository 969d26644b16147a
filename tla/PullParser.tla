----------------------------- MODULE PullParser -----------------------------
(* The pull interface (sax/pull.c): callbacks of the streaming parser put    *)
(* events in a ring, leptris_pull_next hands them out one by one, feeding     *)
(* the parser when the ring is empty, and leptris_pull_next_batch copies      *)
(* several of them into blocks that live until the next batch.  An event is   *)
(* named by its number in the document.  Not modelled: allocation failures,   *)
(* strings longer than a block, and which strings an event borrows.           *)
EXTENDS Integers, SequencesExt, FiniteSetsExt

CONSTANTS
  Documents,    \* the event sequences the streaming parser may produce
  RingCap,      \* slots of the ring at first (32 in the code)
  BlockStrings, \* strings that fit in a stage block (256 bytes in the code)
  MaxBatch,     \* bound: events asked for in one batch
  SliceEvents,  \* bound: events of one slice of a file
  Users         \* who calls: "pull" the program, "iter" the iterator

\* LeptrisPullEventType.
EventTypes == {"start", "end", "text", "cdata", "comment", "pi",
               "startPrefix", "endPrefix", "endDocument", "error"}

ASSUME PullAssumption ==
  /\ RingCap \in Nat \ {0, 1} /\ BlockStrings \in Nat \ {0}
  /\ MaxBatch \in Nat \ {0} /\ SliceEvents \in Nat \ {0}
  /\ Documents \subseteq Seq([type : EventTypes, strings : Seq(STRING),
                             attrs : Seq(STRING), prefix : STRING])
  /\ \A d \in Documents : d # <<>> /\ Last(d).type \in {"endDocument", "error"}

VARIABLES
  doc,          \* the events of the input; the last is its end or an error
  source,       \* "memory": one feed; "file": slices
  user,
  fed,          \* events put in the ring so far; all of them once finished or failed
  taken,        \* events handed out so far
  ring,         \* the ring: slots, head, tail
  current,      \* the event handed out last, or (staged) the START a batch left behind
  stage,        \* the stage: a sequence of blocks, each a sequence of strings
  mirror,       \* where the attributes of a batch's START are in the stage
  batch,        \* the batch being made, or the last one made
  releases      \* how often each event's strings were freed

pullVars == <<doc, source, user, fed, taken, ring, current, stage, mirror, batch, releases>>

NoCurrent == [ev |-> 0, staged |-> FALSE]
NoBatch == [on |-> FALSE, max |-> 0, out |-> <<>>, last |-> 0]

PullInit ==
  /\ doc \in Documents
  /\ source \in {"memory", "file"}
  /\ user \in Users
  /\ fed = 0
  /\ taken = 0
  /\ ring = [slots |-> [i \in 0..(RingCap - 1) |-> 0], head |-> 0, tail |-> 0]
  /\ current = NoCurrent
  /\ stage = <<>>
  /\ mirror = <<>>
  /\ batch = NoBatch
  /\ releases = [e \in DOMAIN doc |-> 0]

-----------------------------------------------------------------------------
(* The ring.                                                                *)

CapOf(r) == Cardinality(DOMAIN r.slots)
UsedOf(r) == (r.tail + CapOf(r) - r.head) % CapOf(r)
Queued(r) == [i \in 1..UsedOf(r) |-> r.slots[(r.head + i - 1) % CapOf(r)]]

\* Slip: a ring that has wrapped round is doubled without moving its events to the front.
PushedSlip(r, e) ==
  LET cap == CapOf(r)
      g == IF UsedOf(r) + 1 < cap THEN r
           ELSE [r EXCEPT !.slots = [i \in 0..(2 * cap - 1) |-> IF i < cap THEN r.slots[i] ELSE 0]]
  IN [g EXCEPT !.slots[g.tail] = e, !.tail = (@ + 1) % CapOf(g)]

\* queue_push: a full ring is doubled, its events moved to the front.
Pushed(r, e) ==
  LET used == UsedOf(r)
      g == IF used + 1 < CapOf(r) THEN r
           ELSE [slots |-> [i \in 0..(2 * CapOf(r) - 1) |-> IF i < used THEN Queued(r)[i + 1] ELSE 0],
                 head |-> 0, tail |-> used]
  IN [g EXCEPT !.slots[g.tail] = e, !.tail = (@ + 1) % CapOf(g)]

\* The next n events of the input are pushed.
PushedNext(r, n) ==
  LET g[k \in 0..n] == IF k = 0 THEN r ELSE Pushed(g[k - 1], fed + k)
  IN  g[n]

\* queue_reset_event on current: what it owns is freed, what it borrows from the stage is not.
Freeing(c, rel) == IF c.ev = 0 \/ c.staged THEN rel ELSE [rel EXCEPT ![c.ev] = @ + 1]

\* leptris_pull_next.  The loop feeds until there is an event or nothing more to
\* come; a memory source is fed whole.
Advance ==
  LET idle == UsedOf(ring) = 0 /\ fed < Len(doc)
      kept == IF current.staged THEN NoCurrent ELSE current
  IN \E n \in IF ~idle THEN {0} ELSE IF source = "memory" THEN {Len(doc)} ELSE 1..Min({SliceEvents, Len(doc) - fed}) :
       LET r == PushedNext(ring, n)
       IN /\ fed' = fed + n
          /\ IF UsedOf(r) = 0
             THEN /\ current' = kept
                  /\ UNCHANGED <<taken, ring, releases>>
             ELSE /\ releases' = Freeing(kept, releases)
                  /\ current' = [ev |-> r.slots[r.head], staged |-> FALSE]
                  /\ ring' = [r EXCEPT !.slots[r.head] = 0, !.head = (@ + 1) % CapOf(r)]
                  /\ taken' = taken + 1

PullNext ==
  /\ user = "pull" /\ ~batch.on
  /\ Advance
  /\ UNCHANGED <<doc, source, user, stage, mirror, batch>>

-----------------------------------------------------------------------------
(* Batches.                                                                 *)

\* Slip: a full block is written again from its start.
StagePutSlip(st, s) ==
  IF st = <<>> THEN <<<<s>>>>
  ELSE [st EXCEPT ![Len(st)] = IF Len(@) = BlockStrings THEN <<s>> ELSE Append(@, s)]

\* stage_put: into the tail block, or a new one when it does not fit.
StagePut(st, s) ==
  IF st = <<>> \/ Len(Last(st)) = BlockStrings THEN Append(st, <<s>>)
  ELSE [st EXCEPT ![Len(st)] = Append(@, s)]

\* Each string is put in the stage; ptrs says where.
StagedOne(a, s) ==
  LET t == StagePut(a.st, s)
  IN  [st |-> t, ptrs |-> Append(a.ptrs, <<Len(t), Len(Last(t))>>)]
Staged(st, strings) ==
  LET g[k \in 0..Len(strings)] ==
        IF k = 0 THEN [st |-> st, ptrs |-> <<>>] ELSE StagedOne(g[k - 1], strings[k])
  IN  g[Len(strings)]

\* stage_reset: every block is emptied, the tail stays the last one.
BatchStart(max) ==
  /\ user = "pull" /\ ~batch.on
  /\ batch' = [NoBatch EXCEPT !.on = TRUE, !.max = max]
  /\ stage' = [b \in DOMAIN stage |-> <<>>]
  /\ current' = IF current.staged THEN NoCurrent ELSE current
  /\ UNCHANGED <<doc, source, user, fed, taken, ring, mirror, releases>>

\* Slip: the mirror keeps the first START.
MirroredSlip(e) == doc[e].type = "start" /\ doc[e].attrs # <<>> /\ batch.last = 0

\* A START with attributes; one without leaves the mirror of an earlier one.
Mirrored(e) == doc[e].type = "start" /\ doc[e].attrs # <<>>

\* One round of the loop: the event is copied, and a START's attributes replace the mirror.
BatchStep ==
  /\ batch.on /\ Len(batch.out) < batch.max
  /\ Advance
  /\ taken' # taken
  /\ LET e == current'.ev
         s == Staged(stage, doc[e].strings)
         a == Staged(s.st, doc[e].attrs)
     IN /\ stage' = a.st
        /\ IF Mirrored(e)
           THEN /\ mirror' = a.ptrs
                /\ batch' = [batch EXCEPT !.out = Append(@, [ev |-> e, ptrs |-> s.ptrs]), !.last = e]
           ELSE /\ batch' = [batch EXCEPT !.out = Append(@, [ev |-> e, ptrs |-> s.ptrs])]
                /\ UNCHANGED mirror
  /\ UNCHANGED <<doc, source, user>>

\* Slip: the last event drained is not freed before the mirror takes its place.
RepointedSlip == releases

\* The last event drained makes room for the START of the mirror.
Repointed == Freeing(current, releases)

\* The batch is full, or the call of leptris_pull_next that found nothing was the last.
BatchEnd ==
  /\ batch.on
  /\ Len(batch.out) = batch.max \/ (UsedOf(ring) = 0 /\ fed = Len(doc))
  /\ batch' = [batch EXCEPT !.on = FALSE]
  /\ IF batch.last = 0 THEN UNCHANGED <<current, releases>>
     ELSE /\ current' = [ev |-> batch.last, staged |-> TRUE]
          /\ releases' = Repointed
  /\ UNCHANGED <<doc, source, user, fed, taken, ring, stage, mirror>>

\* leptris_pull_free; the program makes no call after it.
Freed ==
  /\ releases' = LET rel == Freeing(current, releases)
                 IN [e \in DOMAIN rel |-> rel[e] + IF e \in ToSet(Queued(ring)) THEN 1 ELSE 0]
  /\ current' = NoCurrent
  /\ stage' = <<>>
  /\ batch' = NoBatch
  /\ user' = "gone"
  /\ UNCHANGED <<doc, source, fed, taken, ring, mirror>>

PullFree == user = "pull" /\ ~batch.on /\ Freed

PullAction == \/ PullNext \/ \E max \in 1..MaxBatch : BatchStart(max)
              \/ BatchStep \/ BatchEnd \/ PullFree

-----------------------------------------------------------------------------
(* Properties.                                                              *)

\* Every event is in one place: still in the input, in the ring in its order, current,
\* or freed exactly once; after leptris_pull_free the ones that were produced are freed.
Accounted ==
  /\ user # "gone" => Queued(ring) = [i \in 1..(fed - taken) |-> taken + i]
  /\ \A e \in DOMAIN doc :
       releases[e] = IF e > fed \/ (user # "gone" /\ (e > taken \/ (e = current.ev /\ ~current.staged)))
                     THEN 0 ELSE 1

\* What a pointer into the stage reads.
Deref(p) == IF p[1] \in DOMAIN stage /\ p[2] \in DOMAIN stage[p[1]] THEN stage[p[1]][p[2]] ELSE "gone"
Read(ptrs) == [k \in DOMAIN ptrs |-> Deref(ptrs[k])]

\* The strings of a batch stay what they were until the next batch, while the batch
\* is made and after it, through single calls of leptris_pull_next (pull.c:311-317).
BatchReadable == \A k \in DOMAIN batch.out : Read(batch.out[k].ptrs) = doc[batch.out[k].ev].strings

\* What leptris_pull_attrs serves.
Served == IF current.ev = 0 \/ doc[current.ev].type # "start" THEN <<>>
          ELSE IF current.staged THEN Read(mirror) ELSE doc[current.ev].attrs

JustBatched == user = "pull" /\ ~batch.on /\ batch.out # <<>> /\ (current.staged \/ current.ev = Last(batch.out).ev)
Starts == {k \in DOMAIN batch.out : doc[batch.out[k].ev].type = "start"}
AttrsAt(k) == doc[batch.out[k].ev].attrs

Bearing == {k \in Starts : AttrsAt(k) # <<>>}

\* After a batch the attribute calls serve its last START when that has attributes,
\* whichever events follow it and whatever the calls before the batch left behind; they
\* never serve attributes of an earlier batch, or of a START that a later one of the batch
\* overwrote (pull.c:439-441, 465-466, 496-511).  When the last START has none, the code may
\* serve those of one before it, which pull.c:439-441 does not mean; that is left open.
AttrsServed ==
  JustBatched =>
    /\ \A k \in Starts : (\A j \in Starts : j <= k) /\ AttrsAt(k) # <<>> => Served = AttrsAt(k)
    /\ Served # <<>> => \E k \in Bearing : (\A j \in Bearing : j <= k) /\ Served = AttrsAt(k)
=============================================================================
