------------------------------ MODULE SlabPool ------------------------------
(***************************************************************************)
(* The slab pool of the host snapshot cache (ds41rt-hostcache/src/pool.rs).*)
(* Pinned chunks of one size are carved for a slab class on demand.  A     *)
(* carved chunk keeps a LIFO of its free slabs and, while it has one, sits *)
(* on its class's doubly linked list; a chunk whose slabs are all free     *)
(* returns to the stack of uncarved chunks, from which any class may take  *)
(* it.  The callers' side of the contract is `held`: the slabs they have   *)
(* taken and not given back.                                               *)
(***************************************************************************)
EXTENDS Integers, Sequences, FiniteSets

LOCAL INSTANCE FiniteSetsExt

CONSTANTS
    Class,       \* slab classes: Page, Tail, Draft, Scores in the code
    NoClass,     \* the class of an uncarved chunk
    Size,        \* Size[k]: bytes of a slab of class k, 0 when k is disabled
    ChunkBytes,  \* bytes of a pinned chunk
    Quota        \* configured bytes

ASSUME SizesFitAChunk ==
    /\ NoClass \notin Class
    /\ ChunkBytes \in Nat \ {0}
    /\ Quota \in Nat
    /\ Size \in [Class -> 0..ChunkBytes]

NONE == -1                            \* u32::MAX in the code

NumChunks == Quota \div ChunkBytes

Chunk == 0..NumChunks - 1

PerChunkRoundedUp(k) == (ChunkBytes + Size[k]) \div Size[k]

\* Slabs a chunk is carved into for class k.
PerChunk(k) == ChunkBytes \div Size[k]

Slab == [class : Class, chunk : Chunk, index : 0..ChunkBytes - 1]

VARIABLES
    class,        \* class[c]: the class chunk c is carved for, or NoClass
    free_stack,   \* free_stack[c]: free slab indices of c, next to pop first
    slab_free,    \* slab_free[c]: the indices flagged free
    free_chunks,  \* stack of uncarved chunks, top last
    links,        \* the class lists: head per class, next and prev per chunk
    slabs_in_use, \* per class: slabs out,
    slabs_free,   \*            slabs carved and free,
    chunks_carved,\*            chunks carved for it
    bytes_used,
    held          \* slabs the callers hold

vars == <<class, free_stack, slab_free, free_chunks, links, slabs_in_use,
          slabs_free, chunks_carved, bytes_used, held>>

-----------------------------------------------------------------------------
(* The intrusive class lists. *)

LinkTable == [head : [Class -> Chunk \cup {NONE}],
              next : [Chunk -> Chunk \cup {NONE}],
              prev : [Chunk -> Chunk \cup {NONE}]]

Link(l, c, k) ==
    LET head == l.head[k] IN
    [head |-> [l.head EXCEPT ![k] = c],
     next |-> [l.next EXCEPT ![c] = head],
     prev |-> [d \in Chunk |-> IF d = c THEN NONE
                               ELSE IF d = head THEN c ELSE l.prev[d]]]

UnlinkKeepsPrev(l, c, k) ==
    LET p == l.prev[c]
        n == l.next[c]
    IN  [l EXCEPT !.head[k] = IF p = NONE THEN n ELSE @,
                  !.next = [d \in Chunk |-> IF d = c THEN NONE
                                            ELSE IF d = p THEN n ELSE @[d]]]

Unlink(l, c, k) ==
    LET p == l.prev[c]
        n == l.next[c]
    IN  [head |-> IF p = NONE THEN [l.head EXCEPT ![k] = n] ELSE l.head,
         next |-> [d \in Chunk |-> IF d = c THEN NONE
                                   ELSE IF d = p THEN n ELSE l.next[d]],
         prev |-> [d \in Chunk |-> IF d = c THEN NONE
                                   ELSE IF d = n THEN p ELSE l.prev[d]]]

-----------------------------------------------------------------------------
Init ==
    /\ class = [c \in Chunk |-> NoClass]
    /\ free_stack = [c \in Chunk |-> <<>>]
    /\ slab_free = [c \in Chunk |-> {}]
    /\ free_chunks = [i \in 1..NumChunks |-> i - 1]
    /\ links = [head |-> [k \in Class |-> NONE],
                next |-> [c \in Chunk |-> NONE],
                prev |-> [c \in Chunk |-> NONE]]
    /\ slabs_in_use = [k \in Class |-> 0]
    /\ slabs_free = [k \in Class |-> 0]
    /\ chunks_carved = [k \in Class |-> 0]
    /\ bytes_used = 0
    /\ held = {}

PoppedFromTheBottom(stack) == SubSeq(stack, 1, Len(stack) - 1)

\* pop_free: the slab handed out is Head(stack).
Popped(stack) == Tail(stack)

\* The new slab leaves with its caller.
HandOut(k, c, i) ==
    /\ held' = held \cup {[class |-> k, chunk |-> c, index |-> i]}
    /\ slabs_in_use' = [slabs_in_use EXCEPT ![k] = @ + 1]
    /\ bytes_used' = bytes_used + Size[k]

\* take, when the class has a chunk with a free slab.
TakeListed(k) ==
    /\ Size[k] # 0
    /\ links.head[k] # NONE
    /\ LET c == links.head[k]
           i == Head(free_stack[c])
           rest == Popped(free_stack[c])
       IN  /\ free_stack' = [free_stack EXCEPT ![c] = rest]
           /\ slab_free' = [slab_free EXCEPT ![c] = @ \ {i}]
           /\ links' = IF rest = <<>> THEN Unlink(links, c, k) ELSE links
           /\ slabs_free' = [slabs_free EXCEPT ![k] = @ - 1]
           /\ HandOut(k, c, i)
           /\ UNCHANGED <<class, free_chunks, chunks_carved>>

\* take, when an uncarved chunk has to be carved for the class.
TakeCarved(k) ==
    /\ Size[k] # 0
    /\ links.head[k] = NONE
    /\ free_chunks # <<>>
    /\ LET c == free_chunks[Len(free_chunks)]
           total == PerChunk(k)
           linked == Link(links, c, k)
       IN  /\ class' = [class EXCEPT ![c] = k]
           /\ free_chunks' = SubSeq(free_chunks, 1, Len(free_chunks) - 1)
           /\ free_stack' = [free_stack EXCEPT ![c] = [i \in 1..total - 1 |-> i]]
           /\ slab_free' = [slab_free EXCEPT ![c] = 1..total - 1]
           /\ links' = IF total = 1 THEN Unlink(linked, c, k) ELSE linked
           /\ slabs_free' = [slabs_free EXCEPT ![k] = @ + total - 1]
           /\ chunks_carved' = [chunks_carved EXCEPT ![k] = @ + 1]
           /\ HandOut(k, c, 0)

\* take's PoolExhausted: nothing changes and the caller is told so.
Exhausted(k) ==
    \/ Size[k] = 0
    \/ links.head[k] = NONE /\ free_chunks = <<>>

Take(k) == TakeListed(k) \/ TakeCarved(k)

LastHeldEarly(k, c) == Len(free_stack[c]) + 2 >= PerChunk(k)

\* The slab coming back is the only one of its chunk still held.
LastHeld(k, c) == Len(free_stack[c]) + 1 = PerChunk(k)

GiveBack(s) ==
    LET k == s.class
        c == s.chunk
        was == Len(free_stack[c])
    IN
    /\ held' = held \ {s}
    /\ slabs_in_use' = [slabs_in_use EXCEPT ![k] = @ - 1]
    /\ bytes_used' = bytes_used - Size[k]
    /\ IF LastHeld(k, c)
       THEN \* release_chunk
            /\ links' = IF was > 0 THEN Unlink(links, c, k) ELSE links
            /\ class' = [class EXCEPT ![c] = NoClass]
            /\ free_stack' = [free_stack EXCEPT ![c] = <<>>]
            /\ slab_free' = [slab_free EXCEPT ![c] = {}]
            /\ free_chunks' = Append(free_chunks, c)
            /\ slabs_free' = [slabs_free EXCEPT ![k] = @ + 1 - PerChunk(k)]
            /\ chunks_carved' = [chunks_carved EXCEPT ![k] = @ - 1]
       ELSE /\ links' = IF was = 0 THEN Link(links, c, k) ELSE links
            /\ free_stack' = [free_stack EXCEPT ![c] = <<s.index>> \o @]
            /\ slab_free' = [slab_free EXCEPT ![c] = @ \cup {s.index}]
            /\ slabs_free' = [slabs_free EXCEPT ![k] = @ + 1]
            /\ UNCHANGED <<class, free_chunks, chunks_carved>>

Next ==
    \/ \E k \in Class : Take(k)
    \/ \E s \in held : GiveBack(s)

Spec == Init /\ [][Next]_vars

\* Of one chunk, the slab indices callers hold; of one class, its chunks.
HeldIn(c) ==
    {i \in 0..ChunkBytes - 1 : \E s \in held : s.chunk = c /\ s.index = i}

Carved(k) == {c \in Chunk : class[c] = k}

-----------------------------------------------------------------------------
(* Properties. *)

TypeOK ==
    /\ class \in [Chunk -> Class \cup {NoClass}]
    /\ free_stack \in [Chunk -> Seq(Nat)]
    /\ slab_free \in [Chunk -> SUBSET Nat]
    /\ free_chunks \in Seq(Chunk)
    /\ links \in LinkTable
    /\ slabs_in_use \in [Class -> Int]
    /\ slabs_free \in [Class -> Int]
    /\ chunks_carved \in [Class -> Int]
    /\ bytes_used \in Int
    /\ held \subseteq Slab

\* The free stack of a chunk holds its free slabs, each once, and with the
\* slabs handed out they make up what the chunk was carved into.
SlabsAccounted(k, stack, free, out) ==
    /\ {stack[i] : i \in 1..Len(stack)} = free
    /\ \A i, j \in 1..Len(stack) : stack[i] = stack[j] => i = j
    /\ free \cap out = {}
    /\ free \cup out = IF k = NoClass THEN {} ELSE 0..PerChunk(k) - 1

\* A slab of a carved chunk is either on the chunk's free stack, once, or with
\* exactly one caller; an uncarved chunk has no slab at all (`take` hands out a
\* slab until its `give_back`, pool.rs:179).
EachSlabInOnePlace ==
    /\ \A c \in Chunk :
        SlabsAccounted(class[c], free_stack[c], slab_free[c], HeldIn(c))
    /\ \A s \in held : class[s.chunk] = s.class

\* The chunks met by walking a class list from its head, in order.
Walk(k) ==
    LET step[n \in 0..Cardinality(Chunk)] ==
            IF n = 0 THEN <<>>
            ELSE LET w == step[n - 1]
                     c == IF w = <<>> THEN links.head[k] ELSE links.next[w[Len(w)]]
                 IN  IF c = NONE THEN w ELSE Append(w, c)
    IN  step[Cardinality(Chunk)]

\* Whatever order slabs come back in, each class list holds exactly the chunks
\* of the class that have a free slab, each once, with prev the inverse of
\* next: an entry unlinked from the middle loses or duplicates no other chunk.
ListsHoldTheOpenChunks ==
    \A k \in Class :
        LET w == Walk(k) IN
        /\ {w[i] : i \in 1..Len(w)} = {c \in Carved(k) : free_stack[c] # <<>>}
        /\ \A i \in 1..Len(w) :
              links.prev[w[i]] = IF i = 1 THEN NONE ELSE w[i - 1]
        /\ w # <<>> => links.next[w[Len(w)]] = NONE

\* A chunk changes class only through the uncarved state and only while no
\* caller holds a slab of it, so no slab ever changes size under its holder.
RecarvedOnlyWhenEmpty ==
    [][\A c \in Chunk : class'[c] # class[c] =>
            \/ class[c] = NoClass /\ HeldIn(c) = {}
            \/ class'[c] = NoClass /\ HeldIn(c)' = {}]_vars

\* The byte range a held slab names (`location`).
Location(s) == [chunk |-> s.chunk, offset |-> s.index * Size[s.class],
                bytes |-> Size[s.class]]

Ranges == INSTANCE RangeStore
              WITH RangeBytes <- {Size[k] : k \in Class},
                   out <- {Location(s) : s \in held}

\* Every take and give_back is one of the range store: the ranges handed out
\* never share a byte and never leave their chunk.
ImplementsRangeStore == Ranges!Spec

=============================================================================
