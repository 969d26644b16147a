----------------------------- MODULE RootDocMap -----------------------------
(* The process-wide map from root elements to documents                     *)
(* (dom/root_doc_map.c) under several threads: hash buckets, a chain of      *)
(* entries per document and spare entries under one lock; a generation       *)
(* bumped by every change; and, per thread, a memo of the last pair found,   *)
(* trusted while its generation is the current one.  The threads keep to the *)
(* contract of README.adoc:697-702: one thread changes or frees a document,  *)
(* and only while no other uses it; several may read it together.            *)
EXTENDS FiniteSets, SequencesExt, Chains

CONSTANTS
  Threads, Docs, Roots,   \* documents and elements are addresses: used again after a free
  Entries,                \* storage of the map's entries, enough for all (no allocation fails)
  Bucket,                 \* the hash bucket of each root
  None

ASSUME RootDocAssumption ==
  /\ Bucket \in [Roots -> Nat] /\ IsFiniteSet(Docs)
  /\ None \notin Threads \cup Docs \cup Roots \cup Entries

VARIABLES
  buckets,   \* per bucket, its chain of entries, newest first
  chains,    \* per document, doc->map_entries, newest first
  entry,     \* what each entry holds
  spare,     \* g_free_list and the rest of the chunk
  gen,       \* g_rootmap_generation
  memo,      \* per thread, g_memo_root, g_memo_doc and g_memo_generation
  pool,      \* per address, the document in whose pool an element lives there
  marked,    \* ROOTMAP_FLAG of the element living there
  users,     \* per document, the threads that may touch it; {}: no such document
  top,       \* doc->new_dom_root
  absorbed,  \* doc->absorbed_by
  call       \* per thread, the function it is in and its argument

map  == <<buckets, chains, entry, spare>>
docs == <<pool, marked, users, top, absorbed>>
vars == <<buckets, chains, entry, spare, gen, memo, pool, marked, users, top, absorbed, call>>

Idle == [op |-> "idle", arg |-> None]
NoMemo == [root |-> None, doc |-> None, gen |-> 0]

Init ==
  /\ buckets = [b \in {Bucket[r] : r \in Roots} |-> <<>>]
  /\ chains = [d \in Docs |-> <<>>]
  /\ entry = [e \in Entries |-> [root |-> None, doc |-> None]]
  /\ spare = Entries
  /\ gen = 0
  /\ memo = [t \in Threads |-> NoMemo]
  /\ pool = [r \in Roots |-> None]
  /\ marked = [r \in Roots |-> FALSE]
  /\ users = [d \in Docs |-> {}]
  /\ top = [d \in Docs |-> None]
  /\ absorbed = [d \in Docs |-> None]
  /\ call = [t \in Threads |-> Idle]

-----------------------------------------------------------------------------
\* rootmap_generation_bump, when the code reaches it.
Bumped(b) == gen' = IF b THEN gen + 1 ELSE gen

\* The entry a walk over the bucket of r finds, if any.
Found(r) == FirstOf(buckets[Bucket[r]], {e \in Entries : entry[e].root = r})

\* The document it names.
Find(r) == IF Found(r) = {} THEN None ELSE entry[CHOOSE e \in Found(r) : TRUE].doc

Holds(t, d) == users[d] = {t} /\ call[t] = Idle

\* A document and all it has absorbed, and those have absorbed, and so on.
Family(d) == Reached(d, [x \in Docs |-> {c \in Docs : absorbed[c] = x}])
Childless(d) == \A c \in Docs : absorbed[c] # d

\* The memo a thread keeps of root r is dropped.
MemoWithout(t, R) == IF memo[t].root \in R THEN [memo[t] EXCEPT !.root = None, !.doc = None] ELSE memo[t]

\* Slip: the entry is given its document and stays in the old one's chain.
RechainedSlip(r, d) ==
  \E e \in Found(r) :
    entry' = [entry EXCEPT ![e].doc = d] /\ UNCHANGED <<chains, buckets, spare>>

\* An entry found under its root moves to the chain of the new document.
Rechained(r, d) ==
  \E e \in Found(r) :
    LET old == entry[e].doc
    IN IF old = d THEN UNCHANGED map
       ELSE /\ entry' = [entry EXCEPT ![e].doc = d]
            /\ chains' = [chains EXCEPT ![old] = Without(@, {e}), ![d] = Push(@, e)]
            /\ UNCHANGED <<buckets, spare>>

\* Slip: the new entry goes to the end of its bucket.
PrependedSlip(r, d) ==
  \E e \in spare :
    /\ entry' = [entry EXCEPT ![e] = [root |-> r, doc |-> d]]
    /\ buckets' = [buckets EXCEPT ![Bucket[r]] = Append(@, e)]
    /\ chains' = [chains EXCEPT ![d] = Push(@, e)]
    /\ spare' = spare \ {e}

\* A new entry goes to the front of the bucket and of the document's chain.
Prepended(r, d) ==
  \E e \in spare :
    /\ entry' = [entry EXCEPT ![e] = [root |-> r, doc |-> d]]
    /\ buckets' = [buckets EXCEPT ![Bucket[r]] = Push(@, e)]
    /\ chains' = [chains EXCEPT ![d] = Push(@, e)]
    /\ spare' = spare \ {e}

\* leptris_root_doc_register: only a marked element can have an entry already.
Register(r, d, mark) ==
  /\ Bumped(TRUE)
  /\ IF mark /\ Found(r) # {} THEN Rechained(r, d) ELSE Prepended(r, d)
  /\ marked' = [marked EXCEPT ![r] = TRUE]

\* Slip: an entry taken out of its bucket stays in its document's chain.
DroppedSlip(E, d) ==
  /\ buckets' = [b \in DOMAIN buckets |-> Without(buckets[b], E)]
  /\ spare' = spare \cup E
  /\ UNCHANGED <<chains, entry>>

\* The entries E leave the map for the spare ones.
Dropped(E, d) ==
  /\ buckets' = [b \in DOMAIN buckets |-> Without(buckets[b], E)]
  /\ chains' = [chains EXCEPT ![d] = Without(@, E)]
  /\ spare' = spare \cup E
  /\ UNCHANGED entry

\* Slip: a sweep only clears the memo of the thread that sweeps.
UnregisterDocSlip(t, d) ==
  /\ Bumped(FALSE)
  /\ memo' = [memo EXCEPT ![t] = MemoWithout(t, {entry[e].root : e \in ToSet(chains[d])})]
  /\ Dropped(ToSet(chains[d]), d)

\* leptris_root_doc_unregister_doc(d), under the lock.
UnregisterDoc(t, d) ==
  /\ Bumped(TRUE)
  /\ memo' = [memo EXCEPT ![t] = MemoWithout(t, {entry[e].root : e \in ToSet(chains[d])})]
  /\ Dropped(ToSet(chains[d]), d)

-----------------------------------------------------------------------------
(* The program.                                                             *)

\* A parse, or a new document and its first element: the root is registered.
Parse(t, d, r) ==
  /\ call[t] = Idle /\ users[d] = {} /\ pool[r] = None
  /\ users' = [users EXCEPT ![d] = {t}]
  /\ pool' = [pool EXCEPT ![r] = d]
  /\ top' = [top EXCEPT ![d] = r]
  /\ Register(r, d, FALSE)
  /\ UNCHANGED <<memo, absorbed, call>>

\* Another element that is registered when it is made (a pool-named create, a copy).
Create(t, d, r) ==
  /\ Holds(t, d) /\ pool[r] = None
  /\ pool' = [pool EXCEPT ![r] = d]
  /\ Register(r, d, FALSE)
  /\ UNCHANGED <<memo, users, top, absorbed, call>>

\* An element of d's family becomes an orphan of d, or its root: one of d's own elements
\* then, since d's free reads it after it has freed the others (DocLifecycle).
Reregister(t, d, r, root) ==
  /\ Holds(t, d) /\ pool[r] \in Family(d)
  /\ root => pool[r] = d /\ absorbed[d] = None
  /\ Register(r, d, marked[r])
  /\ top' = IF root THEN [top EXCEPT ![d] = r] ELSE top
  /\ UNCHANGED <<memo, pool, users, absorbed, call>>

\* Slip: a document that has been absorbed is absorbed again.
AbsorbSlip(t, d, c) ==
  /\ Holds(t, d) /\ Holds(t, c) /\ c # d
  /\ absorbed[d] = None
  /\ absorbed' = [absorbed EXCEPT ![c] = d]
  /\ UNCHANGED <<map, gen, memo, pool, marked, users, top, call>>

\* leptris_document_absorb(d, c), whose handle the program gives up with it.
Absorb(t, d, c) ==
  /\ Holds(t, d) /\ Holds(t, c) /\ c # d
  /\ absorbed[d] = None /\ absorbed[c] = None
  /\ absorbed' = [absorbed EXCEPT ![c] = d]
  /\ UNCHANGED <<map, gen, memo, pool, marked, users, top, call>>

\* A document is handed to readers, and they leave it again; its family goes along.
Share(t, u, d) ==
  /\ t \in users[d] /\ u \notin users[d] /\ absorbed[d] = None
  /\ call[t] = Idle /\ call[u] = Idle
  /\ users' = [c \in Docs |-> IF c \in Family(d) THEN users[c] \cup {u} ELSE users[c]]
  /\ UNCHANGED <<map, gen, memo, pool, marked, top, absorbed, call>>

Leave(t, d) ==
  /\ t \in users[d] /\ users[d] # {t} /\ absorbed[d] = None /\ call[t] = Idle
  /\ users' = [c \in Docs |-> IF c \in Family(d) THEN users[c] \ {t} ELSE users[c]]
  /\ UNCHANGED <<map, gen, memo, pool, marked, top, absorbed, call>>

\* leptris_element_get_document on the root it climbed to, while the memo is not trusted.
GetDocumentMiss(t, r) ==
  /\ call[t] = Idle /\ pool[r] # None /\ t \in users[pool[r]]
  /\ ~(memo[t].root = r /\ memo[t].gen = gen)
  /\ call' = [call EXCEPT ![t] = [op |-> "walk", arg |-> r]]
  /\ UNCHANGED <<map, gen, memo, docs>>

\* The walk under the lock; the generation is read before the lock is given back.
GetDocumentWalk(t) ==
  /\ call[t].op = "walk"
  /\ LET r == call[t].arg
     IN memo' = IF Find(r) = None THEN memo
                ELSE [memo EXCEPT ![t] = [root |-> r, doc |-> Find(r), gen |-> gen]]
  /\ call' = [call EXCEPT ![t] = Idle]
  /\ UNCHANGED <<map, gen, docs>>

\* leptris_root_doc_memo_prime: the owner of d knows the pair (iterparse).
MemoPrime(t, d, r) ==
  /\ Holds(t, d) /\ pool[r] = d
  /\ Find(r) = d
  /\ memo' = [memo EXCEPT ![t] = [root |-> r, doc |-> d, gen |-> gen]]
  /\ UNCHANGED <<map, gen, docs, call>>

\* leptris_thread_cleanup of a thread between calls.
DrainThread(t) ==
  /\ call[t] = Idle /\ memo[t].root # None
  /\ memo' = [memo EXCEPT ![t] = [root |-> None, doc |-> None, gen |-> gen]]
  /\ UNCHANGED <<map, gen, docs, call>>

-----------------------------------------------------------------------------
(* leptris_document_free(d): the documents it absorbed first, each after     *)
(* those it absorbed itself, then the root it reads, the sweep, the storage. *)

\* leptris_root_doc_memo_invalidate
MemoInvalidate(t, d) ==
  /\ Bumped(memo[t].doc = d)
  /\ memo' = [memo EXCEPT ![t] = IF @.doc = d THEN [@ EXCEPT !.root = None, !.doc = None] ELSE @]

FreeDocument(t, d) ==
  /\ Holds(t, d) /\ absorbed[d] = None
  /\ MemoInvalidate(t, d)
  /\ call' = [call EXCEPT ![t] = [op |-> "free", arg |-> d]]
  /\ UNCHANGED <<map, docs>>

\* A child: its memo is of no use after its own sweep, which bumps as well.
FreeChild(t) ==
  /\ call[t].op = "free"
  /\ \E c \in Family(call[t].arg) \ {call[t].arg} :
       /\ Childless(c) /\ chains[c] # <<>>
       /\ top' = [top EXCEPT ![c] = None]
       /\ UnregisterDoc(t, c)
  /\ UNCHANGED <<pool, marked, users, absorbed, call>>

\* What lived in the pool of d is gone and its addresses can be used again.
PoolGone(d) ==
  /\ pool' = [r \in Roots |-> IF pool[r] = d THEN None ELSE pool[r]]
  /\ marked' = [r \in Roots |-> IF pool[r] = d THEN FALSE ELSE marked[r]]
  /\ users' = [users EXCEPT ![d] = {}]
  /\ top' = [top EXCEPT ![d] = None]
  /\ absorbed' = [absorbed EXCEPT ![d] = None]

ReleaseChild(t) ==
  /\ call[t].op = "free"
  /\ \E c \in Family(call[t].arg) \ {call[t].arg} :
       Childless(c) /\ chains[c] = <<>> /\ PoolGone(c)
  /\ UNCHANGED <<map, gen, memo, call>>

\* leptris_root_doc_unregister: flag, generation and own memo before the lock is taken.
UnregisterProbe(t) ==
  /\ call[t].op = "free" /\ Childless(call[t].arg)
  /\ LET r == top[call[t].arg]
         go == r # None /\ marked[r]
     IN /\ Bumped(go)
        /\ memo' = IF go THEN [memo EXCEPT ![t] = MemoWithout(t, {r})] ELSE memo
        /\ call' = [call EXCEPT ![t].op = IF go THEN "unregister" ELSE "sweep"]
  /\ UNCHANGED <<map, docs>>

\* ... and the first entry of the root under the lock.
UnregisterLocked(t) ==
  /\ call[t].op = "unregister"
  /\ LET r == top[call[t].arg]
     IN IF Found(r) = {} THEN UNCHANGED <<map, marked>>
        ELSE /\ Dropped(Found(r), Find(r))
             /\ marked' = [marked EXCEPT ![r] = FALSE]
  /\ call' = [call EXCEPT ![t].op = "sweep"]
  /\ UNCHANGED <<gen, memo, pool, users, top, absorbed>>

\* leptris_root_doc_unregister_doc
Sweep(t) ==
  /\ call[t].op = "sweep"
  /\ UnregisterDoc(t, call[t].arg)
  /\ call' = [call EXCEPT ![t].op = "release"]
  /\ UNCHANGED docs

Release(t) ==
  /\ call[t].op = "release"
  /\ PoolGone(call[t].arg)
  /\ call' = [call EXCEPT ![t] = Idle]
  /\ UNCHANGED <<map, gen, memo>>

Step(t) ==
  \/ \E d \in Docs, r \in Roots : Parse(t, d, r) \/ Create(t, d, r) \/ MemoPrime(t, d, r)
  \/ \E d \in Docs, r \in Roots, root \in BOOLEAN : Reregister(t, d, r, root)
  \/ \E d, c \in Docs : Absorb(t, d, c)
  \/ \E d \in Docs, u \in Threads : Share(t, u, d)
  \/ \E d \in Docs : Leave(t, d) \/ FreeDocument(t, d)
  \/ \E r \in Roots : GetDocumentMiss(t, r)
  \/ GetDocumentWalk(t) \/ DrainThread(t)
  \/ FreeChild(t) \/ ReleaseChild(t)
  \/ UnregisterProbe(t) \/ UnregisterLocked(t) \/ Sweep(t) \/ Release(t)

Next == \E t \in Threads : Step(t)

Spec == Init /\ [][Next]_vars

-----------------------------------------------------------------------------
(* Properties.                                                              *)

\* The types, and every frame of a thread is about something.
TypeOK ==
  /\ entry \in [Entries -> [root : Roots \cup {None}, doc : Docs \cup {None}]]
  /\ spare \subseteq Entries /\ gen \in Nat
  /\ memo \in [Threads -> [root : Roots \cup {None}, doc : Docs \cup {None}, gen : Nat]]
  /\ pool \in [Roots -> Docs \cup {None}] /\ marked \in [Roots -> BOOLEAN]
  /\ users \in [Docs -> SUBSET Threads]
  /\ top \in [Docs -> Roots \cup {None}] /\ absorbed \in [Docs -> Docs \cup {None}]
  /\ \A t \in Threads : call[t].op # "idle" => call[t].arg \in Docs \cup Roots

\* The pair a thread would trust without taking the lock is the pair the map
\* holds, whatever other threads registered, freed and put at the same addresses
\* since it was remembered (root_doc_map.c:8-19, 112-149).
MemoTrue ==
  \A t \in Threads :
    memo[t].root # None /\ memo[t].gen = gen => Find(memo[t].root) = memo[t].doc

\* Buckets, document chains and spare entries never disagree: an entry is spare, or it
\* is once in the bucket of its root and once in the chain of its document, which
\* exists (root_doc_map.c:66-70: a document's sweep recycles exactly its entries).
ChainsAgree ==
  \A e \in Entries :
    LET inBuckets == {b \in DOMAIN buckets : e \in ToSet(buckets[b])}
        inChains == {d \in Docs : e \in ToSet(chains[d])}
    IN /\ e \in spare => inBuckets = {} /\ inChains = {}
       /\ e \notin spare => /\ inBuckets = {Bucket[entry[e].root]}
                            /\ inChains = {entry[e].doc}
                            /\ users[entry[e].doc] # {}
       /\ \A b \in DOMAIN buckets : IsInjective(buckets[b])

\* An element the program may touch resolves to the document that stores it or to one
\* that owns that document, through any number of absorptions, also when its address
\* still has an entry of an earlier element (root_doc_map.c:286-302, the stale entries
\* of #1038).
ResolvesToOwner ==
  \A r \in Roots :
    LET d == pool[r]
    IN d # None /\ (\A t \in users[d] : call[t].op \in {"idle", "walk"})
         => Find(r) # None /\ d \in Family(Find(r))
=============================================================================
