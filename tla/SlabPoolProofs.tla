--------------------------- MODULE SlabPoolProofs ---------------------------
(***************************************************************************)
(* The slab pool keeps every slab in one place and implements RangeStore,  *)
(* for any set of classes, slab sizes, chunk size and quota.               *)
(***************************************************************************)
EXTENDS SlabPool, LibraryLemmas, SequenceTheorems, FiniteSetTheorems, TLAPS

(***************************************************************************)
(* w is the list of n chunks from a head to its end: next and prev follow  *)
(* it, and it holds each chunk of `mine` once.                             *)
(***************************************************************************)
Threads(w, n, head, next, prev, mine) ==
    /\ head = (IF n = 0 THEN NONE ELSE w[1])
    /\ \A i, j \in 1..n : w[i] = w[j] => i = j
    /\ \A i \in 1..n :
          /\ w[i] \in mine
          /\ next[w[i]] = (IF i = n THEN NONE ELSE w[i + 1])
          /\ prev[w[i]] = (IF i = 1 THEN NONE ELSE w[i - 1])
    /\ \A c \in mine : \E i \in 1..n : w[i] = c

Threaded(head, next, prev, mine) ==
    \E n \in Nat : \E w \in [1..n -> Chunk] : Threads(w, n, head, next, prev, mine)

(***************************************************************************)
(* The shape of the class lists: what take and give_back rely on when they *)
(* follow a head, next or prev, and a list through the chunks of each      *)
(* class.  `open` is the set of carved chunks with a free slab.            *)
(***************************************************************************)
Linked(head, next, prev, cls, open) ==
    /\ \A k \in Class : head[k] # NONE =>
          head[k] \in open /\ cls[head[k]] = k /\ prev[head[k]] = NONE
    /\ \A c \in Chunk : next[c] # NONE =>
          /\ c \in open /\ next[c] \in open
          /\ cls[next[c]] = cls[c] /\ prev[next[c]] = c
    /\ \A c \in Chunk : prev[c] # NONE =>
          /\ c \in open /\ prev[c] \in open
          /\ cls[prev[c]] = cls[c] /\ next[prev[c]] = c
    /\ \A c \in open : prev[c] = NONE => head[cls[c]] = c
    /\ \A k \in Class : Threaded(head[k], next, prev, {c \in open : cls[c] = k})

OpenChunks == {c \in Chunk : class[c] # NoClass /\ free_stack[c] # <<>>}

UncarvedOnce ==
    /\ \A i \in 1..Len(free_chunks) : class[free_chunks[i]] = NoClass
    /\ \A i, j \in 1..Len(free_chunks) : free_chunks[i] = free_chunks[j] => i = j

\* The inductive invariant.
IInv ==
    /\ TypeOK
    /\ EachSlabInOnePlace
    /\ \A c \in Chunk : class[c] # NoClass => Size[class[c]] # 0
    /\ Linked(links.head, links.next, links.prev, class, OpenChunks)
    /\ UncarvedOnce

-----------------------------------------------------------------------------
(* Arithmetic of carving. *)

\* A class has at least one slab per chunk, and its slabs fit into the chunk.
LEMMA PerChunkBounds ==
    ASSUME NEW k \in Class, Size[k] # 0
    PROVE  /\ PerChunk(k) \in 1..ChunkBytes
           /\ PerChunk(k) * Size[k] <= ChunkBytes
  BY SizesFitAChunk DEF PerChunk

\* A chunk is a number, never the NONE that ends a list.
LEMMA ChunkIsNat == Chunk \subseteq Nat /\ NONE \notin Chunk
  BY SizesFitAChunk DEF Chunk, NumChunks, NONE

\* The budget holds a whole number of chunks.
LEMMA NumChunksType == NumChunks \in Nat
  BY SizesFitAChunk DEF NumChunks

\* The sizes of the intervals the pool counts with.
LEMMA IntervalSizes ==
    ASSUME NEW n \in Nat
    PROVE  /\ IsFiniteSet(0..n - 1) /\ Cardinality(0..n - 1) = n
           /\ IsFiniteSet(1..n) /\ Cardinality(1..n) = n
<1>1. 0 \in Int /\ 1 \in Int /\ n \in Int /\ n - 1 \in Int
  OBVIOUS
<1>2. /\ IsFiniteSet(0..n - 1)
      /\ Cardinality(0..n - 1) = IF 0 > n - 1 THEN 0 ELSE n - 1 - 0 + 1
  BY <1>1, FS_Interval
<1>3. /\ IsFiniteSet(1..n)
      /\ Cardinality(1..n) = IF 1 > n THEN 0 ELSE n - 1 + 1
  BY <1>1, FS_Interval
<1> QED BY <1>2, <1>3

-----------------------------------------------------------------------------
(* The list operations keep the lists' shape. *)

\* A list of another class is not touched.
LEMMA ThreadKept ==
    ASSUME NEW head, NEW next, NEW prev, NEW mine, Threaded(head, next, prev, mine),
           NEW next2, NEW prev2,
           \A c \in mine : next2[c] = next[c] /\ prev2[c] = prev[c]
    PROVE  Threaded(head, next2, prev2, mine)
<1>0. PICK n \in Nat : \E w \in [1..n -> Chunk] : Threads(w, n, head, next, prev, mine)
  BY DEF Threaded
<1>1. PICK w \in [1..n -> Chunk] : Threads(w, n, head, next, prev, mine)
  BY <1>0
<1>2. Threads(w, n, head, next2, prev2, mine)
  BY <1>1 DEF Threads
<1> QED BY <1>2 DEF Threaded

\* Putting a chunk that is on no list in front of a list gives a list with one chunk more.
LEMMA ThreadPrepended ==
    ASSUME NEW head, NEW next, NEW prev, NEW mine, Threaded(head, next, prev, mine),
           NEW c \in Chunk, c \notin mine, NEW next2, NEW prev2,
           next2[c] = head, prev2[c] = NONE,
           \A d \in mine : next2[d] = next[d] /\ prev2[d] = IF d = head THEN c ELSE prev[d]
    PROVE  Threaded(c, next2, prev2, mine \cup {c})
<1>0. PICK n \in Nat : \E w \in [1..n -> Chunk] : Threads(w, n, head, next, prev, mine)
  BY DEF Threaded
<1>1. PICK w \in [1..n -> Chunk] : Threads(w, n, head, next, prev, mine)
  BY <1>0
<1> DEFINE v == [i \in 1..n + 1 |-> IF i = 1 THEN c ELSE w[i - 1]]
<1>2. v \in [1..n + 1 -> Chunk] /\ v[1] = c /\ \A i \in 1..n : v[i + 1] = w[i]
  BY <1>1
<1>3. \A i \in 1..n + 1 : i = 1 \/ (i - 1 \in 1..n /\ v[i] = w[i - 1])
  BY <1>1
<1> HIDE DEF v
<1>4. \A i, j \in 1..n + 1 : v[i] = v[j] => i = j
  <2> SUFFICES ASSUME NEW i \in 1..n + 1, NEW j \in 1..n + 1, v[i] = v[j] PROVE i = j
    OBVIOUS
  <2>1. CASE i = 1 \/ j = 1
    BY <1>1, <1>2, <1>3, <2>1 DEF Threads
  <2>2. CASE i # 1 /\ j # 1
    <3>1. i - 1 \in 1..n /\ j - 1 \in 1..n /\ w[i - 1] = w[j - 1]
      BY <1>3, <2>2
    <3>2. i - 1 = j - 1
      BY <1>1, <3>1 DEF Threads
    <3> QED BY <3>2
  <2> QED BY <2>1, <2>2
<1>5. ASSUME NEW i \in 1..n + 1
      PROVE  /\ v[i] \in mine \cup {c}
             /\ next2[v[i]] = (IF i = n + 1 THEN NONE ELSE v[i + 1])
             /\ prev2[v[i]] = (IF i = 1 THEN NONE ELSE v[i - 1])
  <2>1. CASE i = 1
    <3>1. v[i] = c /\ next2[c] = head /\ prev2[c] = NONE
      BY <1>2, <2>1
    <3>2. n = 0 => head = NONE
      BY <1>1 DEF Threads
    <3>3. n # 0 => head = w[1] /\ v[2] = w[1]
      BY <1>1, <1>2 DEF Threads
    <3> QED BY <2>1, <3>1, <3>2, <3>3
  <2>2. CASE i # 1
    <3>1. i - 1 \in 1..n /\ v[i] = w[i - 1] /\ n # 0
      BY <1>3, <2>2
    <3>2. /\ w[i - 1] \in mine
          /\ next[w[i - 1]] = (IF i - 1 = n THEN NONE ELSE w[i])
          /\ prev[w[i - 1]] = (IF i - 1 = 1 THEN NONE ELSE w[i - 2])
      BY <1>1, <3>1 DEF Threads
    <3>3. i # n + 1 => v[i + 1] = w[i]
      BY <1>2, <3>1
    <3>4. i # 2 => v[i - 1] = w[i - 2]
      BY <1>3, <3>1
    <3>5. w[i - 1] = head <=> i = 2
      BY <1>1, <3>1 DEF Threads
    <3>6. next2[v[i]] = (IF i = n + 1 THEN NONE ELSE v[i + 1])
      BY <3>1, <3>2, <3>3
    <3>7. prev2[v[i]] = v[i - 1]
      BY <1>2, <3>1, <3>2, <3>4, <3>5
    <3> QED BY <2>2, <3>1, <3>2, <3>6, <3>7
  <2> QED BY <2>1, <2>2
<1>6. \A d \in mine \cup {c} : \E i \in 1..n + 1 : v[i] = d
  <2>1. ASSUME NEW d \in mine PROVE \E i \in 1..n + 1 : v[i] = d
    <3>1. PICK i \in 1..n : w[i] = d
      BY <1>1 DEF Threads
    <3> QED BY <1>2, <3>1
  <2> QED BY <1>2, <2>1
<1>7. Threads(v, n + 1, c, next2, prev2, mine \cup {c})
  BY <1>2, <1>4, <1>5, <1>6 DEF Threads
<1> QED BY <1>2, <1>7 DEF Threaded

\* What unlink does to a list, seen from its other chunks.
CutOut(c, head, next, prev, head2, next2, prev2, mine) ==
    /\ head2 = IF prev[c] = NONE THEN next[c] ELSE head
    /\ \A d \in mine \ {c} : /\ next2[d] = IF d = prev[c] THEN next[c] ELSE next[d]
                             /\ prev2[d] = IF d = next[c] THEN prev[c] ELSE prev[d]

\* Cutting a chunk out of a list, wherever it stands, gives a list with one chunk less.
LEMMA ThreadCut ==
    ASSUME NEW head, NEW next, NEW prev, NEW mine, Threaded(head, next, prev, mine),
           NEW c \in mine, NEW head2, NEW next2, NEW prev2,
           CutOut(c, head, next, prev, head2, next2, prev2, mine)
    PROVE  Threaded(head2, next2, prev2, mine \ {c})
<1> USE DEF CutOut
<1>0. PICK n \in Nat : \E w \in [1..n -> Chunk] : Threads(w, n, head, next, prev, mine)
  BY DEF Threaded
<1>1. PICK w \in [1..n -> Chunk] : Threads(w, n, head, next, prev, mine)
  BY <1>0
<1>2. PICK m \in 1..n : w[m] = c
  BY <1>1 DEF Threads
<1>3. /\ next[c] = (IF m = n THEN NONE ELSE w[m + 1])
      /\ prev[c] = (IF m = 1 THEN NONE ELSE w[m - 1])
  BY <1>1, <1>2 DEF Threads
<1>4. \A i \in 1..n : w[i] # NONE /\ w[i] \in Chunk
  BY ChunkIsNat
<1> DEFINE v == [i \in 1..n - 1 |-> IF i < m THEN w[i] ELSE w[i + 1]]
<1>5. /\ v \in [1..n - 1 -> Chunk] /\ n - 1 \in Nat
      /\ \A i \in 1..n - 1 : v[i] = IF i < m THEN w[i] ELSE w[i + 1]
  BY <1>2, <1>4
<1> HIDE DEF v
<1> DEFINE at(i) == IF i < m THEN i ELSE i + 1
<1>6. /\ \A i \in 1..n - 1 : at(i) \in 1..n /\ at(i) # m /\ v[i] = w[at(i)]
      /\ \A i, j \in 1..n - 1 : at(i) = at(j) => i = j
      /\ \A j \in 1..n : j # m => \E i \in 1..n - 1 : at(i) = j
  <2>1. \A i \in 1..n - 1 : at(i) \in 1..n /\ at(i) # m /\ v[i] = w[at(i)]
    BY <1>5
  <2>2. \A i, j \in 1..n - 1 : at(i) = at(j) => i = j
    OBVIOUS
  <2>3. ASSUME NEW j \in 1..n, j # m PROVE \E i \in 1..n - 1 : at(i) = j
    <3>1. CASE j < m
      <4>1. j \in 1..n - 1 /\ at(j) = j
        BY <3>1
      <4> QED BY <4>1
    <3>2. CASE j > m
      <4>1. j - 1 \in 1..n - 1 /\ at(j - 1) = j
        BY <3>2
      <4> QED BY <4>1
    <3> QED BY <2>3, <3>1, <3>2
  <2> QED BY <2>1, <2>2, <2>3
<1>7. \A i, j \in 1..n - 1 : v[i] = v[j] => i = j
  <2> SUFFICES ASSUME NEW i \in 1..n - 1, NEW j \in 1..n - 1, v[i] = v[j] PROVE i = j
    OBVIOUS
  <2>1. at(i) \in 1..n /\ at(j) \in 1..n /\ w[at(i)] = w[at(j)]
    BY <1>6
  <2>2. at(i) = at(j)
    BY <1>1, <2>1 DEF Threads
  <2> QED BY <1>6, <2>2
<1>8. \A d \in mine \ {c} : \E i \in 1..n - 1 : v[i] = d
  <2> SUFFICES ASSUME NEW d \in mine, d # c PROVE \E i \in 1..n - 1 : v[i] = d
    OBVIOUS
  <2>1. PICK j \in 1..n : w[j] = d
    BY <1>1 DEF Threads
  <2>2. PICK i \in 1..n - 1 : at(i) = j
    BY <1>2, <1>6, <2>1
  <2> QED BY <1>6, <2>1, <2>2
<1>9. head2 = (IF n - 1 = 0 THEN NONE ELSE v[1])
  <2>1. head = w[1] /\ prev[c] = NONE <=> m = 1
    BY <1>1, <1>2, <1>3, <1>4 DEF Threads
  <2>2. CASE m = 1
    BY <1>3, <1>5, <2>1, <2>2
  <2>3. CASE m # 1
    BY <1>1, <1>2, <1>5, <2>1, <2>3 DEF Threads
  <2> QED BY <2>2, <2>3
<1>10. ASSUME NEW i \in 1..n - 1
       PROVE  /\ v[i] \in mine \ {c}
              /\ next2[v[i]] = (IF i = n - 1 THEN NONE ELSE v[i + 1])
              /\ prev2[v[i]] = (IF i = 1 THEN NONE ELSE v[i - 1])
  <2> DEFINE j == at(i)
  <2>1. /\ j \in 1..n /\ j # m /\ v[i] = w[j]
        /\ w[j] \in mine
        /\ next[w[j]] = (IF j = n THEN NONE ELSE w[j + 1])
        /\ prev[w[j]] = (IF j = 1 THEN NONE ELSE w[j - 1])
    BY <1>1, <1>6 DEF Threads
  <2>2. w[j] # c
    BY <1>1, <1>2, <2>1 DEF Threads
  <2>3. w[j] = prev[c] <=> j = m - 1
    BY <1>1, <1>3, <1>4, <2>1 DEF Threads
  <2>4. w[j] = next[c] <=> j = m + 1
    BY <1>1, <1>3, <1>4, <2>1 DEF Threads
  <2>5. /\ j = m - 1 <=> i = m - 1
        /\ j = m + 1 <=> i = m
        /\ i < m <=> j = i
        /\ i >= m <=> j = i + 1
    OBVIOUS
  <2>6. /\ i # n - 1 => v[i + 1] = IF i + 1 < m THEN w[i + 1] ELSE w[i + 2]
        /\ i # 1 => v[i - 1] = IF i - 1 < m THEN w[i - 1] ELSE w[i]
    <3>1. i # n - 1 => i + 1 \in 1..n - 1 /\ (i + 1) + 1 = i + 2
      OBVIOUS
    <3>2. i # 1 => i - 1 \in 1..n - 1 /\ (i - 1) + 1 = i
      OBVIOUS
    <3> QED BY <1>5, <3>1, <3>2
  <2>7. /\ next2[w[j]] = IF j = m - 1 THEN next[c] ELSE next[w[j]]
        /\ prev2[w[j]] = IF j = m + 1 THEN prev[c] ELSE prev[w[j]]
    BY <2>1, <2>2, <2>3, <2>4
  <2> HIDE DEF j, at
  <2>8. next2[w[j]] = (IF i = n - 1 THEN NONE ELSE v[i + 1])
    <3>1. CASE i < m - 1
      BY <2>1, <2>5, <2>6, <2>7, <3>1
    <3>2. CASE i = m - 1
      <4>1. next2[w[j]] = next[c]
        BY <2>5, <2>7, <3>2
      <4> QED BY <1>3, <2>6, <3>2, <4>1
    <3>3. CASE i >= m
      BY <2>1, <2>5, <2>6, <2>7, <3>3
    <3> QED BY <3>1, <3>2, <3>3
  <2>9. prev2[w[j]] = (IF i = 1 THEN NONE ELSE v[i - 1])
    <3>1. CASE i < m
      BY <2>1, <2>5, <2>6, <2>7, <3>1
    <3>2. CASE i = m
      <4>1. prev2[w[j]] = prev[c]
        BY <2>5, <2>7, <3>2
      <4> QED BY <1>3, <2>6, <3>2, <4>1
    <3>3. CASE i > m
      BY <2>1, <2>5, <2>6, <2>7, <3>3
    <3> QED BY <3>1, <3>2, <3>3
  <2> QED BY <2>1, <2>2, <2>8, <2>9
<1>11. Threads(v, n - 1, head2, next2, prev2, mine \ {c})
  BY <1>7, <1>8, <1>9, <1>10 DEF Threads
<1> QED BY <1>5, <1>11 DEF Threaded

\* Putting a chunk that is on no list at the head of its class's list.
LEMMA LinkKeepsShape ==
    ASSUME NEW l \in LinkTable, NEW cls, NEW cls2, NEW open \in SUBSET Chunk,
           Linked(l.head, l.next, l.prev, cls, open),
           \A d \in open : cls[d] \in Class,
           NEW c \in Chunk \ open, NEW k \in Class,
           cls2[c] = k, \A d \in open : cls2[d] = cls[d]
    PROVE  LET m == Link(l, c, k) IN
           /\ m \in LinkTable
           /\ Linked(m.head, m.next, m.prev, cls2, open \cup {c})
<1> DEFINE m == Link(l, c, k)
<1>1. m \in LinkTable
  BY ChunkIsNat DEF Link, LinkTable
<1>2. Linked(m.head, m.next, m.prev, cls2, open \cup {c})
  <2> DEFINE h == l.head  n == l.next  p == l.prev
  <2>a. /\ h \in [Class -> Chunk \cup {NONE}]
        /\ n \in [Chunk -> Chunk \cup {NONE}]
        /\ p \in [Chunk -> Chunk \cup {NONE}]
        /\ Linked(h, n, p, cls, open)
        /\ NONE \notin Chunk
        /\ m.head = [h EXCEPT ![k] = c]
        /\ m.next = [n EXCEPT ![c] = h[k]]
        /\ m.prev = [d \in Chunk |-> IF d = c THEN NONE
                                     ELSE IF d = h[k] THEN c ELSE p[d]]
    BY ChunkIsNat DEF LinkTable, Link
  <2> HIDE DEF h, n, p, m
  <2> USE DEF Linked
  <2>1. ASSUME NEW j \in Class, m.head[j] # NONE
        PROVE  m.head[j] \in open \cup {c} /\ cls2[m.head[j]] = j /\ m.prev[m.head[j]] = NONE
    BY <2>1, <2>a
  <2>2. ASSUME NEW d \in Chunk, m.next[d] # NONE
        PROVE  /\ d \in open \cup {c} /\ m.next[d] \in open \cup {c}
               /\ cls2[m.next[d]] = cls2[d] /\ m.prev[m.next[d]] = d
    BY <2>2, <2>a
  <2>3. ASSUME NEW d \in Chunk, m.prev[d] # NONE
        PROVE  /\ d \in open \cup {c} /\ m.prev[d] \in open \cup {c}
               /\ cls2[m.prev[d]] = cls2[d] /\ m.next[m.prev[d]] = d
    BY <2>3, <2>a
  <2>4. ASSUME NEW d \in open \cup {c}, m.prev[d] = NONE
        PROVE  m.head[cls2[d]] = d
    BY <2>4, <2>a
  <2>5. ASSUME NEW j \in Class
        PROVE  Threaded(m.head[j], m.next, m.prev, {d \in open \cup {c} : cls2[d] = j})
    <3> DEFINE mine == {d \in open : cls[d] = j}
    <3>1. Threaded(h[j], n, p, mine) /\ c \notin mine
      BY <2>a
    <3>2. CASE j = k
      <4>1. {d \in open \cup {c} : cls2[d] = j} = mine \cup {c}
        BY <3>2
      <4>2. /\ m.head[j] = c /\ m.next[c] = h[j] /\ m.prev[c] = NONE
            /\ \A d \in mine : m.next[d] = n[d] /\ m.prev[d] = IF d = h[j] THEN c ELSE p[d]
        BY <2>a, <3>2
      <4> HIDE DEF mine
      <4> QED BY <3>1, <4>1, <4>2, ThreadPrepended
    <3>3. CASE j # k
      <4>1. {d \in open \cup {c} : cls2[d] = j} = mine
        BY <3>3
      <4>2. h[k] \notin mine
        BY <2>a, <3>3
      <4>3. m.head[j] = h[j] /\ \A d \in mine : m.next[d] = n[d] /\ m.prev[d] = p[d]
        BY <2>a, <3>3, <4>2
      <4> HIDE DEF mine
      <4>4. Threaded(h[j], m.next, m.prev, mine)
        BY <3>1, <4>3, ThreadKept
      <4> QED BY <4>1, <4>3, <4>4
    <3> QED BY <3>2, <3>3
  <2> QED BY <2>1, <2>2, <2>3, <2>4, <2>5 DEF Linked
<1> QED BY <1>1, <1>2

\* Taking a listed chunk off its list, wherever in the list it stands.
LEMMA UnlinkKeepsShape ==
    ASSUME NEW l \in LinkTable, NEW cls, NEW cls2, NEW open \in SUBSET Chunk,
           Linked(l.head, l.next, l.prev, cls, open),
           \A d \in open : cls[d] \in Class,
           NEW c \in open, NEW k \in Class,
           cls[c] = k, \A d \in open \ {c} : cls2[d] = cls[d]
    PROVE  LET m == Unlink(l, c, k) IN
           /\ m \in LinkTable
           /\ Linked(m.head, m.next, m.prev, cls2, open \ {c})
<1> DEFINE m == Unlink(l, c, k)
<1>1. m \in LinkTable
  BY ChunkIsNat DEF Unlink, LinkTable
<1>2. Linked(m.head, m.next, m.prev, cls2, open \ {c})
  <2> DEFINE h == l.head  n == l.next  p == l.prev
  <2>a. /\ h \in [Class -> Chunk \cup {NONE}]
        /\ n \in [Chunk -> Chunk \cup {NONE}]
        /\ p \in [Chunk -> Chunk \cup {NONE}]
        /\ Linked(h, n, p, cls, open)
        /\ NONE \notin Chunk
        /\ m.head = IF p[c] = NONE THEN [h EXCEPT ![k] = n[c]] ELSE h
        /\ m.next = [d \in Chunk |-> IF d = c THEN NONE
                                     ELSE IF d = p[c] THEN n[c] ELSE n[d]]
        /\ m.prev = [d \in Chunk |-> IF d = c THEN NONE
                                     ELSE IF d = n[c] THEN p[c] ELSE p[d]]
    BY ChunkIsNat DEF LinkTable, Unlink
  <2> HIDE DEF h, n, p, m
  <2> USE DEF Linked
  <2>1. ASSUME NEW j \in Class, m.head[j] # NONE
        PROVE  m.head[j] \in open \ {c} /\ cls2[m.head[j]] = j /\ m.prev[m.head[j]] = NONE
    BY <2>1, <2>a
  <2>2. ASSUME NEW d \in Chunk, m.next[d] # NONE
        PROVE  /\ d \in open \ {c} /\ m.next[d] \in open \ {c}
               /\ cls2[m.next[d]] = cls2[d] /\ m.prev[m.next[d]] = d
    BY <2>2, <2>a
  <2>3. ASSUME NEW d \in Chunk, m.prev[d] # NONE
        PROVE  /\ d \in open \ {c} /\ m.prev[d] \in open \ {c}
               /\ cls2[m.prev[d]] = cls2[d] /\ m.next[m.prev[d]] = d
    BY <2>3, <2>a
  <2>4. ASSUME NEW d \in open \ {c}, m.prev[d] = NONE
        PROVE  m.head[cls2[d]] = d
    BY <2>4, <2>a
  <2>5. ASSUME NEW j \in Class
        PROVE  Threaded(m.head[j], m.next, m.prev, {d \in open \ {c} : cls2[d] = j})
    <3> DEFINE mine == {d \in open : cls[d] = j}
    <3>1. Threaded(h[j], n, p, mine)
      BY <2>a
    <3>2. CASE j = k
      <4>1. {d \in open \ {c} : cls2[d] = j} = mine \ {c} /\ c \in mine
        BY <3>2
      <4>2. /\ m.head[j] = IF p[c] = NONE THEN n[c] ELSE h[j]
            /\ \A d \in mine \ {c} : /\ m.next[d] = IF d = p[c] THEN n[c] ELSE n[d]
                                     /\ m.prev[d] = IF d = n[c] THEN p[c] ELSE p[d]
        BY <2>a, <3>2
      <4> HIDE DEF mine
      <4> DEFINE head2 == m.head[j]
                 next2 == m.next
                 prev2 == m.prev
                 head == h[j]
      <4>3. /\ Threaded(head, n, p, mine) /\ c \in mine
            /\ CutOut(c, head, n, p, head2, next2, prev2, mine)
        BY <3>1, <4>1, <4>2 DEF CutOut
      <4> HIDE DEF head2, next2, prev2, head
      <4>4. Threaded(head2, next2, prev2, mine \ {c})
        BY ONLY <4>3, ThreadCut
      <4> QED BY <4>1, <4>4 DEF head2, next2, prev2
    <3>3. CASE j # k
      <4>1. {d \in open \ {c} : cls2[d] = j} = mine /\ c \notin mine
        BY <3>3
      <4>2. p[c] \notin mine /\ n[c] \notin mine
        BY <2>a, <3>3
      <4>3. m.head[j] = h[j] /\ \A d \in mine : m.next[d] = n[d] /\ m.prev[d] = p[d]
        BY <2>a, <3>3, <4>1, <4>2
      <4> HIDE DEF mine
      <4>4. Threaded(h[j], m.next, m.prev, mine)
        BY <3>1, <4>3, ThreadKept
      <4> QED BY <4>1, <4>3, <4>4
    <3> QED BY <3>2, <3>3
  <2> QED BY <2>1, <2>2, <2>3, <2>4, <2>5 DEF Linked
<1> QED BY <1>1, <1>2

-----------------------------------------------------------------------------
(* What popping, pushing and carving do to one chunk's accounting. *)

\* Popping the free stack of a chunk moves one slab from the free to the taken.
LEMMA PopKeepsAccount ==
    ASSUME NEW k \in Class, Size[k] # 0, NEW stack \in Seq(Nat), NEW free, NEW out,
           SlabsAccounted(k, stack, free, out), stack # <<>>
    PROVE  LET i == Head(stack) IN
           /\ i \in 0..PerChunk(k) - 1
           /\ i \notin out
           /\ Tail(stack) \in Seq(Nat)
           /\ SlabsAccounted(k, Tail(stack), free \ {i}, out \cup {i})
<1> DEFINE i == Head(stack)
           rest == Tail(stack)
<1>1. /\ i = stack[1] /\ Len(stack) \in Nat \ {0}
      /\ rest \in Seq(Nat) /\ Len(rest) = Len(stack) - 1
      /\ \A j \in 1..Len(rest) : rest[j] = stack[j + 1]
  BY HeadTailProperties, EmptySeq
<1>2. i \in free
  BY <1>1 DEF SlabsAccounted
<1>3. {rest[j] : j \in 1..Len(rest)} = free \ {i}
  <2>1. ASSUME NEW j \in 1..Len(rest) PROVE rest[j] \in free \ {i}
    BY <1>1 DEF SlabsAccounted
  <2>2. ASSUME NEW x \in free \ {i} PROVE \E j \in 1..Len(rest) : rest[j] = x
    <3>1. PICK j \in 1..Len(stack) : stack[j] = x
      BY DEF SlabsAccounted
    <3>2. j # 1
      BY <3>1, <1>1
    <3>3. j - 1 \in 1..Len(rest) /\ rest[j - 1] = x
      BY <3>1, <3>2, <1>1
    <3> QED BY <3>3
  <2> QED BY <2>1, <2>2
<1>4. \A j, l \in 1..Len(rest) : rest[j] = rest[l] => j = l
  <2> SUFFICES ASSUME NEW j \in 1..Len(rest), NEW l \in 1..Len(rest), rest[j] = rest[l]
               PROVE  j = l
    OBVIOUS
  <2>1. /\ j + 1 \in 1..Len(stack) /\ l + 1 \in 1..Len(stack)
        /\ stack[j + 1] = stack[l + 1]
    BY <1>1
  <2> QED BY <2>1 DEF SlabsAccounted
<1>5. k # NoClass
  BY SizesFitAChunk
<1> HIDE DEF i, rest
<1>6. SlabsAccounted(k, rest, free \ {i}, out \cup {i})
  BY <1>2, <1>3, <1>4 DEF SlabsAccounted
<1>7. i \in 0..PerChunk(k) - 1 /\ i \notin out
  BY <1>2, <1>5 DEF SlabsAccounted
<1> QED BY <1>1, <1>6, <1>7 DEF i, rest

\* Pushing a returned slab moves it from the taken to the free.
LEMMA PushKeepsAccount ==
    ASSUME NEW k \in Class, NEW stack \in Seq(Nat), NEW free, NEW out,
           SlabsAccounted(k, stack, free, out), NEW i \in Nat, i \in out
    PROVE  /\ <<i>> \o stack \in Seq(Nat)
           /\ <<i>> \o stack # <<>>
           /\ SlabsAccounted(k, <<i>> \o stack, free \cup {i}, out \ {i})
<1> DEFINE more == <<i>> \o stack
<1>1. /\ more \in Seq(Nat) /\ Len(more) = Len(stack) + 1 /\ Len(stack) \in Nat
      /\ \A j \in 1..Len(more) : more[j] = IF j = 1 THEN i ELSE stack[j - 1]
  BY ConcatProperties, LenProperties
<1> HIDE DEF more
<1>2. more # <<>>
  BY <1>1, EmptySeq
<1>3. {more[j] : j \in 1..Len(more)} = free \cup {i}
  <2>1. ASSUME NEW j \in 1..Len(more) PROVE more[j] \in free \cup {i}
    BY <1>1 DEF SlabsAccounted
  <2>2. ASSUME NEW x \in free PROVE \E j \in 1..Len(more) : more[j] = x
    <3>1. PICK j \in 1..Len(stack) : stack[j] = x
      BY DEF SlabsAccounted
    <3>2. j + 1 \in 1..Len(more) /\ more[j + 1] = x
      BY <3>1, <1>1
    <3> QED BY <3>2
  <2>3. 1 \in 1..Len(more) /\ more[1] = i
    BY <1>1
  <2> QED BY <2>1, <2>2, <2>3
<1>4. \A j, l \in 1..Len(more) : more[j] = more[l] => j = l
  <2> SUFFICES ASSUME NEW j \in 1..Len(more), NEW l \in 1..Len(more), more[j] = more[l]
               PROVE  j = l
    OBVIOUS
  <2>1. \A x \in 1..Len(stack) : stack[x] \in free /\ stack[x] # i
    BY DEF SlabsAccounted
  <2>2. CASE j = 1 \/ l = 1
    <3>1. ASSUME NEW x \in 1..Len(more), x # 1 PROVE more[x] # i
      <4>1. x - 1 \in 1..Len(stack) /\ more[x] = stack[x - 1]
        BY <1>1, <3>1
      <4> QED BY <4>1, <2>1
    <3>2. more[1] = i
      BY <1>1
    <3> QED BY <3>1, <3>2, <2>2
  <2>3. CASE j # 1 /\ l # 1
    <3>a. \A x \in 1..Len(more) : x # 1 => x - 1 \in 1..Len(stack) /\ more[x] = stack[x - 1]
      BY <1>1
    <3>1. /\ j - 1 \in 1..Len(stack) /\ l - 1 \in 1..Len(stack)
          /\ stack[j - 1] = stack[l - 1]
      <4> HIDE DEF more
      <4> QED BY <2>3, <3>a
    <3>2. \A x, y \in 1..Len(stack) : stack[x] = stack[y] => x = y
      BY DEF SlabsAccounted
    <3>3. j - 1 = l - 1
      <4> HIDE DEF more
      <4> QED BY <3>1, <3>2
    <3>4. j \in Int /\ l \in Int
      OBVIOUS
    <3> QED BY <3>3, <3>4
  <2> QED BY <2>2, <2>3
<1>5. SlabsAccounted(k, more, free \cup {i}, out \ {i})
  BY <1>3, <1>4 DEF SlabsAccounted
<1> QED BY <1>1, <1>2, <1>5 DEF more

\* When all but one slab of a chunk are free, no caller holds another one.
LEMMA LastHeldIsAlone ==
    ASSUME NEW k \in Class, Size[k] # 0, NEW stack \in Seq(Nat), NEW free, NEW out,
           SlabsAccounted(k, stack, free, out), NEW i \in out,
           Len(stack) + 1 = PerChunk(k)
    PROVE  out = {i}
<1> DEFINE all == 0..PerChunk(k) - 1
<1>0. PerChunk(k) \in Nat \ {0} /\ Len(stack) \in Nat /\ k # NoClass
  BY PerChunkBounds, LenProperties, SizesFitAChunk
<1>1. IsFiniteSet(all) /\ Cardinality(all) = PerChunk(k)
  BY <1>0, IntervalSizes
<1>2. free \cup {i} \subseteq all /\ i \notin free
  <2>1. free \cap out = {} /\ free \cup out = all
    BY <1>0 DEF SlabsAccounted
  <2> HIDE DEF all
  <2> QED BY <2>1
<1>3. Cardinality(free) = Len(stack) /\ IsFiniteSet(free)
  <2> DEFINE f == [j \in 1..Len(stack) |-> stack[j]]
  <2>1. /\ f \in [1..Len(stack) -> free]
        /\ \A x, y \in 1..Len(stack) : f[x] = f[y] => x = y
        /\ \A x \in free : \E y \in 1..Len(stack) : f[y] = x
    BY DEF SlabsAccounted
  <2> HIDE DEF f
  <2>2. ExistsBijection(1..Len(stack), free)
    BY <2>1 DEF ExistsBijection, Bijection, Injection, Surjection, IsInjective
  <2>3. IsFiniteSet(1..Len(stack)) /\ Cardinality(1..Len(stack)) = Len(stack)
    BY <1>0, IntervalSizes
  <2> QED BY <2>2, <2>3, FS_Bijection
<1>4. Cardinality(free \cup {i}) = PerChunk(k)
  BY <1>0, <1>2, <1>3, FS_AddElement
<1>5. free \cup {i} = all
  BY <1>1, <1>2, <1>4, FS_Subset
<1> QED BY <1>0, <1>5 DEF SlabsAccounted

-----------------------------------------------------------------------------
(* The inductive invariant. *)

\* A new pool satisfies the inductive invariant.
LEMMA InitEstablishes == Init => IInv
<1> SUFFICES ASSUME Init PROVE IInv
  OBVIOUS
<1> USE DEF Init
<1>1. NumChunks \in Nat
  BY NumChunksType
<1>2. free_chunks \in Seq(Chunk) /\ Len(free_chunks) = NumChunks
  BY <1>1 DEF Chunk
<1>3. TypeOK
  BY <1>2 DEF TypeOK, LinkTable, Slab
<1>4. EachSlabInOnePlace
  BY DEF EachSlabInOnePlace, SlabsAccounted, HeldIn
<1>5. Linked(links.head, links.next, links.prev, class, OpenChunks)
  <2>1. OpenChunks = {}
    BY DEF OpenChunks
  <2>2. ASSUME NEW k \in Class
        PROVE  Threaded(links.head[k], links.next, links.prev, {c \in OpenChunks : class[c] = k})
    <3>1. Threads([i \in 1..0 |-> 0], 0, links.head[k], links.next, links.prev, {})
      BY DEF Threads
    <3>2. [i \in 1..0 |-> 0] \in [1..0 -> Chunk] /\ 0 \in Nat
      OBVIOUS
    <3>3. {c \in OpenChunks : class[c] = k} = {}
      BY <2>1
    <3> QED BY <3>1, <3>2, <3>3 DEF Threaded
  <2> QED BY <2>1, <2>2 DEF Linked
<1>6. UncarvedOnce
  BY <1>1, <1>2 DEF UncarvedOnce, Chunk
<1> QED BY <1>3, <1>4, <1>5, <1>6 DEF IInv

\* A slab is determined by its class, its chunk and its index.
LEMMA SlabFields ==
    ASSUME NEW s \in Slab, NEW t \in Slab,
           s.class = t.class, s.chunk = t.chunk, s.index = t.index
    PROVE  s = t
  BY DEF Slab

\* A slab handed out joins the held slabs of its own chunk only.
LEMMA HandOutHeld ==
    ASSUME TypeOK, NEW k \in Class, NEW c \in Chunk, NEW i \in 0..ChunkBytes - 1, HandOut(k, c, i)
    PROVE  \A d \in Chunk : HeldIn(d)' = IF d = c THEN HeldIn(d) \cup {i} ELSE HeldIn(d)
<1> DEFINE new == [class |-> k, chunk |-> c, index |-> i]
<1>1. held' = held \cup {new} /\ new.chunk = c /\ new.index = i
  BY DEF HandOut
<1> HIDE DEF new
<1>2. ASSUME NEW d \in Chunk, NEW j \in 0..ChunkBytes - 1
      PROVE  (\E s \in held' : s.chunk = d /\ s.index = j) <=>
                (\E s \in held : s.chunk = d /\ s.index = j) \/ (d = c /\ j = i)
  BY <1>1
<1> QED BY <1>2 DEF HeldIn

\* Taking a slab from the first open chunk keeps the invariant, whether or not it was the last
\* one there.
LEMMA TakeListedKeeps ==
    ASSUME IInv, NEW k \in Class, TakeListed(k)
    PROVE  IInv'
<1> DEFINE c == links.head[k]
           i == Head(free_stack[c])
           rest == Tail(free_stack[c])
<1> USE DEF IInv
<1>1. /\ c \in OpenChunks /\ c \in Chunk /\ class[c] = k
      /\ free_stack[c] # <<>> /\ free_stack[c] \in Seq(Nat) /\ Size[k] # 0
      /\ k # NoClass
  BY SizesFitAChunk DEF TakeListed, Linked, OpenChunks, TypeOK
<1>2. /\ free_stack' = [free_stack EXCEPT ![c] = rest]
      /\ slab_free' = [slab_free EXCEPT ![c] = @ \ {i}]
      /\ links' = IF rest = <<>> THEN Unlink(links, c, k) ELSE links
      /\ slabs_free' = [slabs_free EXCEPT ![k] = @ - 1]
      /\ HandOut(k, c, i)
      /\ UNCHANGED <<class, free_chunks, chunks_carved>>
  BY DEF TakeListed, Popped
<1>3. SlabsAccounted(k, free_stack[c], slab_free[c], HeldIn(c))
  BY <1>1 DEF EachSlabInOnePlace
<1>4. /\ i \in 0..PerChunk(k) - 1 /\ i \notin HeldIn(c)
      /\ rest \in Seq(Nat)
      /\ SlabsAccounted(k, rest, slab_free[c] \ {i}, HeldIn(c) \cup {i})
  BY <1>1, <1>3, PopKeepsAccount
<1>5. PerChunk(k) \in 1..ChunkBytes /\ i \in 0..ChunkBytes - 1
  BY <1>1, <1>4, PerChunkBounds, SizesFitAChunk
<1> HIDE DEF c, i, rest
<1>6. \A d \in Chunk : HeldIn(d)' = IF d = c THEN HeldIn(d) \cup {i} ELSE HeldIn(d)
  BY <1>1, <1>2, <1>4, <1>5, HandOutHeld
<1>7. links' \in LinkTable /\ Linked(links'.head, links'.next, links'.prev, class', OpenChunks')
  <2>1. links \in LinkTable /\ OpenChunks \subseteq Chunk
        /\ \A d \in OpenChunks : class[d] \in Class
    BY DEF TypeOK, OpenChunks
  <2>2. CASE rest = <<>>
    <3>1. OpenChunks' = OpenChunks \ {c}
      BY <2>2, <1>1, <1>2 DEF OpenChunks, TypeOK
    <3> QED BY <3>1, <2>1, <2>2, <1>1, <1>2, UnlinkKeepsShape
  <2>3. CASE rest # <<>>
    <3>1. OpenChunks' = OpenChunks
      BY <2>3, <1>1, <1>2 DEF OpenChunks, TypeOK
    <3> QED BY <3>1, <2>1, <2>3, <1>2
  <2> QED BY <2>2, <2>3
<1>8. TypeOK'
  <2>0. held \subseteq Slab /\ bytes_used \in Int /\ Size[k] \in Nat
    BY SizesFitAChunk DEF TypeOK
  <2>1. held' \subseteq Slab
    <3>1. [class |-> k, chunk |-> c, index |-> i] \in Slab
      BY <1>1, <1>5 DEF Slab
    <3> QED BY <2>0, <3>1, <1>2 DEF HandOut
  <2>2. bytes_used' \in Int
    BY <2>0, <1>2 DEF HandOut
  <2>3. /\ slabs_in_use' \in [Class -> Int]
        /\ slabs_free' \in [Class -> Int]
        /\ chunks_carved' \in [Class -> Int]
    BY <1>2 DEF HandOut, TypeOK
  <2> QED BY <2>1, <2>2, <2>3, <1>1, <1>2, <1>4, <1>7 DEF TypeOK
<1>9. EachSlabInOnePlace'
  <2>1. ASSUME NEW d \in Chunk
        PROVE  SlabsAccounted(class'[d], free_stack'[d], slab_free'[d], HeldIn(d)')
    <3>1. CASE d = c
      <4>1. /\ class'[d] = k /\ free_stack'[d] = rest
            /\ slab_free'[d] = slab_free[c] \ {i} /\ HeldIn(d)' = HeldIn(c) \cup {i}
        BY <3>1, <1>1, <1>2, <1>6 DEF TypeOK
      <4> QED BY <4>1, <1>4
    <3>2. CASE d # c
      <4>1. /\ class'[d] = class[d] /\ free_stack'[d] = free_stack[d]
            /\ slab_free'[d] = slab_free[d] /\ HeldIn(d)' = HeldIn(d)
        BY <3>2, <1>1, <1>2, <1>6 DEF TypeOK
      <4> QED BY <4>1 DEF EachSlabInOnePlace
    <3> QED BY <3>1, <3>2
  <2>2. \A s \in held' : class'[s.chunk] = s.class
    BY <1>1, <1>2 DEF HandOut, EachSlabInOnePlace
  <2> QED BY <2>1, <2>2 DEF EachSlabInOnePlace, SlabsAccounted, PerChunk
<1>10. UncarvedOnce' /\ \A d \in Chunk : class'[d] # NoClass => Size[class'[d]] # 0
  BY <1>2 DEF UncarvedOnce
<1> QED BY <1>7, <1>8, <1>9, <1>10

\* Taking a slab from a chunk carved for it keeps the invariant.
LEMMA TakeCarvedKeeps ==
    ASSUME IInv, NEW k \in Class, TakeCarved(k)
    PROVE  IInv'
<1> DEFINE c == free_chunks[Len(free_chunks)]
           total == PerChunk(k)
           stack == [i \in 1..total - 1 |-> i]
           linked == Link(links, c, k)
<1> USE DEF IInv
<1>1. Len(free_chunks) \in Nat \ {0} /\ Size[k] # 0 /\ k # NoClass
  BY EmptySeq, SizesFitAChunk DEF TakeCarved, TypeOK
<1>2. /\ c \in Chunk /\ class[c] = NoClass
      /\ total \in 1..ChunkBytes /\ total \in Nat
  <2>1. /\ Len(free_chunks) \in 1..Len(free_chunks) /\ free_chunks \in Seq(Chunk)
        /\ \A i \in 1..Len(free_chunks) : class[free_chunks[i]] = NoClass
    BY <1>1 DEF TypeOK, UncarvedOnce
  <2>2. c \in Chunk /\ class[c] = NoClass
    BY <2>1
  <2>3. total \in 1..ChunkBytes /\ total \in Nat
    BY <1>1, PerChunkBounds, SizesFitAChunk
  <2> QED BY <2>2, <2>3
<1>3. /\ class' = [class EXCEPT ![c] = k]
      /\ free_chunks' = SubSeq(free_chunks, 1, Len(free_chunks) - 1)
      /\ free_stack' = [free_stack EXCEPT ![c] = stack]
      /\ slab_free' = [slab_free EXCEPT ![c] = 1..total - 1]
      /\ links' = IF total = 1 THEN Unlink(linked, c, k) ELSE linked
      /\ slabs_free' = [slabs_free EXCEPT ![k] = @ + total - 1]
      /\ chunks_carved' = [chunks_carved EXCEPT ![k] = @ + 1]
      /\ HandOut(k, c, 0)
  BY DEF TakeCarved
<1>4. stack \in Seq(Nat) /\ Len(stack) = total - 1 /\ (stack = <<>> <=> total = 1)
  BY <1>2
<1>5. HeldIn(c) = {}
  BY <1>2 DEF EachSlabInOnePlace, SlabsAccounted
<1>6. SlabsAccounted(k, stack, 1..total - 1, {0})
  <2>1. (1..total - 1) \cup {0} = 0..total - 1
    BY <1>2
  <2>2. {stack[i] : i \in 1..Len(stack)} = 1..total - 1
    BY <1>2, <1>4
  <2>3. \A i, j \in 1..Len(stack) : stack[i] = stack[j] => i = j
    BY <1>2, <1>4
  <2>4. (1..total - 1) \cap {0} = {}
    BY <1>2
  <2> QED BY <2>1, <2>2, <2>3, <2>4, <1>1 DEF SlabsAccounted
<1> HIDE DEF c, stack, total
<1>7. \A d \in Chunk : HeldIn(d)' = IF d = c THEN {0} ELSE HeldIn(d)
  <2>1. 0 \in 0..ChunkBytes - 1
    BY SizesFitAChunk
  <2> QED BY <2>1, <1>2, <1>3, <1>5, HandOutHeld
<1>8. links' \in LinkTable /\ Linked(links'.head, links'.next, links'.prev, class', OpenChunks')
  <2>1. /\ links \in LinkTable /\ OpenChunks \subseteq Chunk
        /\ c \in Chunk \ OpenChunks
        /\ \A d \in OpenChunks : class[d] \in Class /\ class'[d] = class[d]
        /\ class'[c] = k
    BY <1>2, <1>3 DEF TypeOK, OpenChunks
  <2>2. linked \in LinkTable
        /\ Linked(linked.head, linked.next, linked.prev, class', OpenChunks \cup {c})
    <3>1. Linked(links.head, links.next, links.prev, class, OpenChunks)
      OBVIOUS
    <3>2. k \in Class /\ \A d \in OpenChunks : class[d] \in Class
      BY <2>1
    <3> QED BY ONLY <2>1, <3>1, <3>2, LinkKeepsShape DEF linked
  <2> HIDE DEF linked
  <2>3. CASE total = 1
    <3>1. OpenChunks' = (OpenChunks \cup {c}) \ {c}
      BY <2>3, <1>1, <1>2, <1>3, <1>4 DEF OpenChunks, TypeOK
    <3>2. \A d \in OpenChunks \cup {c} : class'[d] \in Class
      BY <2>1
    <3>3. OpenChunks \cup {c} \in SUBSET Chunk
      BY <2>1
    <3> QED BY <3>1, <3>2, <3>3, <2>1, <2>2, <2>3, <1>3, UnlinkKeepsShape
  <2>4. CASE total # 1
    <3>1. OpenChunks' = OpenChunks \cup {c}
      BY <2>4, <1>1, <1>2, <1>3, <1>4 DEF OpenChunks, TypeOK
    <3> QED BY <3>1, <2>2, <2>4, <1>3
  <2> QED BY <2>3, <2>4
<1>9. free_chunks' \in Seq(Chunk) /\ Len(free_chunks') = Len(free_chunks) - 1
      /\ \A i \in 1..Len(free_chunks') : free_chunks'[i] = free_chunks[i]
  <2> DEFINE n == Len(free_chunks)
  <2>1. free_chunks \in Seq(Chunk) /\ \A i \in 1..n - 1 : free_chunks[i] \in Chunk
    BY ElementOfSeq, <1>1 DEF TypeOK
  <2>2. 1 \in Int /\ n - 1 \in Int /\ free_chunks' = SubSeq(free_chunks, 1, n - 1)
    BY <1>1, <1>3
  <2> HIDE DEF n
  <2>3. /\ free_chunks' \in Seq(Chunk)
        /\ Len(free_chunks') = IF 1 <= n - 1 THEN n - 1 - 1 + 1 ELSE 0
        /\ \A i \in 1..(n - 1) - 1 + 1 : free_chunks'[i] = free_chunks[1 + i - 1]
    BY <2>1, <2>2, SubSeqProperties
  <2>4. n \in Nat \ {0}
    BY <1>1 DEF n
  <2>5. Len(free_chunks') = n - 1
    BY <2>3, <2>4
  <2>6. ASSUME NEW i \in 1..Len(free_chunks') PROVE free_chunks'[i] = free_chunks[i]
    <3>1. i \in 1..(n - 1) - 1 + 1 /\ 1 + i - 1 = i
      BY <2>4, <2>5
    <3> QED BY <3>1, <2>3
  <2> QED BY <2>3, <2>5, <2>6 DEF n
<1>10. TypeOK'
  <2>0. held \subseteq Slab /\ bytes_used \in Int /\ Size[k] \in Nat /\ 0 \in 0..ChunkBytes - 1
    BY SizesFitAChunk DEF TypeOK
  <2>1. held' \subseteq Slab
    <3>1. [class |-> k, chunk |-> c, index |-> 0] \in Slab
      BY <1>2, <2>0 DEF Slab
    <3> QED BY <2>0, <3>1, <1>3 DEF HandOut
  <2>2. bytes_used' \in Int
    BY <2>0, <1>3 DEF HandOut
  <2>3. /\ slabs_in_use' \in [Class -> Int]
        /\ slabs_free' \in [Class -> Int]
        /\ chunks_carved' \in [Class -> Int]
    BY <1>2, <1>3 DEF HandOut, TypeOK
  <2>4. /\ class' \in [Chunk -> Class \cup {NoClass}]
        /\ free_stack' \in [Chunk -> Seq(Nat)]
        /\ slab_free' \in [Chunk -> SUBSET Nat]
    BY <1>2, <1>3, <1>4 DEF TypeOK
  <2> QED BY <2>1, <2>2, <2>3, <2>4, <1>8, <1>9 DEF TypeOK
<1>11. EachSlabInOnePlace'
  <2>1. ASSUME NEW d \in Chunk
        PROVE  SlabsAccounted(class'[d], free_stack'[d], slab_free'[d], HeldIn(d)')
    <3>1. CASE d = c
      <4>1. /\ class'[d] = k /\ free_stack'[d] = stack
            /\ slab_free'[d] = 1..total - 1 /\ HeldIn(d)' = {0}
        BY <3>1, <1>2, <1>3, <1>7 DEF TypeOK
      <4> QED BY <4>1, <1>6
    <3>2. CASE d # c
      <4>1. /\ class'[d] = class[d] /\ free_stack'[d] = free_stack[d]
            /\ slab_free'[d] = slab_free[d] /\ HeldIn(d)' = HeldIn(d)
        BY <3>2, <1>2, <1>3, <1>7 DEF TypeOK
      <4> QED BY <4>1 DEF EachSlabInOnePlace
    <3> QED BY <3>1, <3>2
  <2>2. ASSUME NEW s \in held' PROVE class'[s.chunk] = s.class
    <3>1. CASE s \in held
      <4>1. s \in Slab /\ class[s.chunk] = s.class /\ s.chunk \in Chunk
            /\ s.class \in Class
        BY <3>1 DEF TypeOK, EachSlabInOnePlace, Slab
      <4>2. s.chunk # c
        BY <4>1, <1>2, SizesFitAChunk
      <4> QED BY <4>1, <4>2, <1>3
    <3>2. CASE s = [class |-> k, chunk |-> c, index |-> 0]
      BY <3>2, <1>2, <1>3 DEF TypeOK
    <3> QED BY <3>1, <3>2, <1>3 DEF HandOut
  <2> QED BY <2>1, <2>2 DEF EachSlabInOnePlace, SlabsAccounted, PerChunk
<1>12. \A d \in Chunk : class'[d] # NoClass => Size[class'[d]] # 0
  BY <1>1, <1>2, <1>3 DEF TypeOK
<1>13. UncarvedOnce'
  <2>1. ASSUME NEW i \in 1..Len(free_chunks') PROVE class'[free_chunks'[i]] = NoClass
    <3>1. /\ i \in 1..Len(free_chunks) /\ i # Len(free_chunks)
          /\ Len(free_chunks) \in 1..Len(free_chunks)
          /\ free_chunks'[i] = free_chunks[i]
      BY <1>1, <1>9
    <3>2. free_chunks[i] # c /\ free_chunks[i] \in Chunk
      BY <3>1, ElementOfSeq DEF UncarvedOnce, TypeOK, c
    <3> QED BY <3>1, <3>2, <1>3 DEF UncarvedOnce, TypeOK
  <2>2. \A i, j \in 1..Len(free_chunks') : free_chunks'[i] = free_chunks'[j] => i = j
    BY <1>1, <1>9 DEF UncarvedOnce
  <2> QED BY <2>1, <2>2 DEF UncarvedOnce
<1> QED BY <1>8, <1>10, <1>11, <1>12, <1>13

\* Giving a slab back keeps the invariant in its three cases: the chunk was full, is empty now,
\* or neither.
LEMMA GiveBackKeeps ==
    ASSUME IInv, NEW s \in held, GiveBack(s)
    PROVE  IInv'
<1> DEFINE k == s.class
           c == s.chunk
           i == s.index
           stack == free_stack[c]
           more == <<i>> \o stack
<1> USE DEF IInv
<1>1. /\ s \in Slab /\ k \in Class /\ c \in Chunk /\ i \in 0..ChunkBytes - 1
      /\ class[c] = k /\ k # NoClass /\ Size[k] # 0
      /\ stack \in Seq(Nat) /\ Len(stack) \in Nat
  BY SizesFitAChunk, LenProperties DEF TypeOK, Slab, EachSlabInOnePlace
<1>2. /\ held' = held \ {s}
      /\ slabs_in_use' = [slabs_in_use EXCEPT ![k] = @ - 1]
      /\ bytes_used' = bytes_used - Size[k]
  BY DEF GiveBack
<1>3. SlabsAccounted(k, stack, slab_free[c], HeldIn(c)) /\ i \in HeldIn(c)
  BY <1>1 DEF EachSlabInOnePlace, HeldIn
<1>4. /\ more \in Seq(Nat) /\ more # <<>>
      /\ SlabsAccounted(k, more, slab_free[c] \cup {i}, HeldIn(c) \ {i})
  BY <1>1, <1>3, PushKeepsAccount, SizesFitAChunk
<1>5. PerChunk(k) \in 1..ChunkBytes
  BY <1>1, PerChunkBounds
<1>6. \A t \in held : t.chunk = c /\ t.index = i => t = s
  <2> SUFFICES ASSUME NEW t \in held, t.chunk = s.chunk, t.index = s.index
               PROVE  t = s
    OBVIOUS
  <2>1. t \in Slab /\ t.class = s.class
    BY DEF TypeOK, EachSlabInOnePlace
  <2> QED BY <1>1, <2>1, SlabFields
<1> HIDE DEF k, c, i, more
<1>7. \A d \in Chunk : HeldIn(d)' = IF d = c THEN HeldIn(d) \ {i} ELSE HeldIn(d)
  <2>1. ASSUME NEW d \in Chunk, NEW j \in 0..ChunkBytes - 1
        PROVE  (\E t \in held' : t.chunk = d /\ t.index = j) <=>
                  (\E t \in held : t.chunk = d /\ t.index = j) /\ ~(d = c /\ j = i)
    BY <1>2, <1>6 DEF c, i
  <2> QED BY <2>1 DEF HeldIn
<1>8. /\ links \in LinkTable /\ OpenChunks \subseteq Chunk
      /\ \A d \in OpenChunks : class[d] \in Class
      /\ Len(stack) > 0 <=> c \in OpenChunks
  BY <1>1, EmptySeq DEF TypeOK, OpenChunks
<1>9. held' \subseteq Slab /\ bytes_used' \in Int /\ slabs_in_use' \in [Class -> Int]
      /\ \A t \in held' : t \in held
  <2>1. held \subseteq Slab /\ bytes_used \in Int /\ Size[k] \in Nat
    BY <1>1, SizesFitAChunk DEF TypeOK
  <2>2. slabs_in_use' \in [Class -> Int]
    BY <1>1, <1>2 DEF TypeOK
  <2>3. bytes_used' \in Int
    BY <2>1, <1>2
  <2>4. held' \subseteq held
    BY <1>2
  <2> QED BY <2>1, <2>2, <2>3, <2>4
<1>a. CASE LastHeld(k, c)
  <2>1. /\ links' = IF Len(stack) > 0 THEN Unlink(links, c, k) ELSE links
        /\ class' = [class EXCEPT ![c] = NoClass]
        /\ free_stack' = [free_stack EXCEPT ![c] = <<>>]
        /\ slab_free' = [slab_free EXCEPT ![c] = {}]
        /\ free_chunks' = Append(free_chunks, c)
        /\ slabs_free' = [slabs_free EXCEPT ![k] = @ + 1 - PerChunk(k)]
        /\ chunks_carved' = [chunks_carved EXCEPT ![k] = @ - 1]
    BY <1>a DEF GiveBack, k, c
  <2>2. HeldIn(c) = {i}
    BY <1>a, <1>1, <1>3, LastHeldIsAlone DEF LastHeld
  <2>3. links' \in LinkTable /\ Linked(links'.head, links'.next, links'.prev, class', OpenChunks')
    <3>1. OpenChunks' = OpenChunks \ {c}
      BY <1>1, <2>1 DEF OpenChunks, TypeOK
    <3>2. \A d \in OpenChunks \ {c} : class'[d] = class[d]
      BY <1>8, <2>1 DEF TypeOK
    <3>3. CASE Len(stack) > 0
      <4>1. c \in OpenChunks /\ links' = Unlink(links, c, k)
        BY <3>3, <1>8, <2>1
      <4> QED BY <3>1, <3>2, <4>1, <1>1, <1>8, UnlinkKeepsShape
    <3>4. CASE ~(Len(stack) > 0)
      <4>1. OpenChunks' = OpenChunks /\ links' = links
        BY <3>1, <3>4, <1>8, <2>1
      <4>2. \A d \in OpenChunks : class'[d] = class[d]
        BY <3>2, <3>4, <1>8
      <4>3. \A j \in Class : {d \in OpenChunks : class'[d] = j} = {d \in OpenChunks : class[d] = j}
        BY <4>2
      <4>4. Linked(links.head, links.next, links.prev, class', OpenChunks)
        BY <4>2, <4>3, <1>8 DEF Linked
      <4> QED BY <4>1, <4>4, <1>8
    <3> QED BY <3>3, <3>4
  <2>4. /\ free_chunks' \in Seq(Chunk) /\ Len(free_chunks') = Len(free_chunks) + 1
        /\ Len(free_chunks) \in Nat
        /\ \A j \in 1..Len(free_chunks) : free_chunks'[j] = free_chunks[j]
        /\ free_chunks'[Len(free_chunks) + 1] = c
    BY <1>1, <2>1, AppendProperties, LenProperties DEF TypeOK
  <2>5. TypeOK'
    <3>1. /\ class' \in [Chunk -> Class \cup {NoClass}]
          /\ free_stack' \in [Chunk -> Seq(Nat)]
          /\ slab_free' \in [Chunk -> SUBSET Nat]
      BY <1>1, <2>1, EmptySeq DEF TypeOK
    <3>2. slabs_free' \in [Class -> Int] /\ chunks_carved' \in [Class -> Int]
      BY <1>1, <1>5, <2>1, SizesFitAChunk DEF TypeOK
    <3> QED BY <3>1, <3>2, <1>9, <2>3, <2>4 DEF TypeOK
  <2>6. EachSlabInOnePlace'
    <3>1. ASSUME NEW d \in Chunk
          PROVE  SlabsAccounted(class'[d], free_stack'[d], slab_free'[d], HeldIn(d)')
      <4>1. CASE d = c
        <5>1. /\ class'[d] = NoClass /\ free_stack'[d] = <<>>
              /\ slab_free'[d] = {} /\ HeldIn(d)' = {}
          BY <4>1, <1>1, <1>7, <2>1, <2>2 DEF TypeOK
        <5> QED BY <5>1 DEF SlabsAccounted
      <4>2. CASE d # c
        <5>1. /\ class'[d] = class[d] /\ free_stack'[d] = free_stack[d]
              /\ slab_free'[d] = slab_free[d] /\ HeldIn(d)' = HeldIn(d)
          BY <4>2, <1>1, <1>7, <2>1 DEF TypeOK
        <5> QED BY <5>1 DEF EachSlabInOnePlace
      <4> QED BY <4>1, <4>2
    <3>2. ASSUME NEW t \in held' PROVE class'[t.chunk] = t.class
      <4>1. /\ t \in held /\ t # s /\ t.chunk \in Chunk /\ t.index \in 0..ChunkBytes - 1
            /\ class[t.chunk] = t.class
        BY <1>2 DEF TypeOK, Slab, EachSlabInOnePlace
      <4>2. t.chunk # c
        <5>1. SUFFICES ASSUME t.chunk = c PROVE FALSE
          OBVIOUS
        <5>2. t.index \in HeldIn(c)
          BY <4>1, <5>1 DEF HeldIn
        <5> QED BY <5>1, <5>2, <4>1, <2>2, <1>6
      <4> QED BY <4>1, <4>2, <2>1 DEF TypeOK
    <3> QED BY <3>1, <3>2 DEF EachSlabInOnePlace, SlabsAccounted, PerChunk
  <2>7. \A d \in Chunk : class'[d] # NoClass => Size[class'[d]] # 0
    BY <1>1, <2>1 DEF TypeOK
  <2>8. UncarvedOnce'
    <3>1. \A j \in 1..Len(free_chunks) :
             free_chunks[j] \in Chunk /\ class[free_chunks[j]] = NoClass
      BY ElementOfSeq DEF TypeOK, UncarvedOnce
    <3>2. \A j \in 1..Len(free_chunks) : free_chunks[j] # c
      BY <3>1, <1>1
    <3>3. \A j \in 1..Len(free_chunks') : j \in 1..Len(free_chunks) \/ j = Len(free_chunks) + 1
      BY <2>4
    <3>4. \A j \in 1..Len(free_chunks') : class'[free_chunks'[j]] = NoClass
      BY <3>1, <3>2, <3>3, <1>1, <2>1, <2>4 DEF TypeOK
    <3>5. \A j, l \in 1..Len(free_chunks') : free_chunks'[j] = free_chunks'[l] => j = l
      BY <3>2, <3>3, <2>4 DEF UncarvedOnce
    <3> QED BY <3>4, <3>5 DEF UncarvedOnce
  <2> QED BY <2>3, <2>5, <2>6, <2>7, <2>8
<1>b. CASE ~LastHeld(k, c)
  <2>1. /\ links' = IF Len(stack) = 0 THEN Link(links, c, k) ELSE links
        /\ free_stack' = [free_stack EXCEPT ![c] = more]
        /\ slab_free' = [slab_free EXCEPT ![c] = @ \cup {i}]
        /\ slabs_free' = [slabs_free EXCEPT ![k] = @ + 1]
        /\ UNCHANGED <<class, free_chunks, chunks_carved>>
    BY <1>b DEF GiveBack, k, c, i, more
  <2>2. links' \in LinkTable /\ Linked(links'.head, links'.next, links'.prev, class', OpenChunks')
    <3>1. OpenChunks' = OpenChunks \cup {c}
      BY <1>1, <1>4, <2>1 DEF OpenChunks, TypeOK
    <3>2. CASE Len(stack) = 0
      <4>1. c \in Chunk \ OpenChunks /\ links' = Link(links, c, k)
        BY <3>2, <1>1, <1>8, <2>1
      <4> QED BY <3>1, <4>1, <1>1, <1>8, <2>1, LinkKeepsShape
    <3>3. CASE Len(stack) # 0
      <4>1. c \in OpenChunks /\ links' = links
        BY <3>3, <1>1, <1>8, <2>1
      <4>2. OpenChunks' = OpenChunks /\ class' = class
        BY <3>1, <4>1, <2>1
      <4> QED BY <4>1, <4>2, <1>8
    <3> QED BY <3>2, <3>3
  <2>3. TypeOK'
    <3>1. free_stack' \in [Chunk -> Seq(Nat)]
      BY <1>1, <1>4, <2>1 DEF TypeOK
    <3>2. slab_free' \in [Chunk -> SUBSET Nat]
      BY <1>1, <2>1 DEF TypeOK
    <3>3. slabs_free' \in [Class -> Int]
      BY <1>1, <2>1 DEF TypeOK
    <3> QED BY <3>1, <3>2, <3>3, <1>9, <2>1, <2>2 DEF TypeOK
  <2>4. EachSlabInOnePlace'
    <3>1. ASSUME NEW d \in Chunk
          PROVE  SlabsAccounted(class'[d], free_stack'[d], slab_free'[d], HeldIn(d)')
      <4>1. CASE d = c
        <5>1. /\ class'[d] = k /\ free_stack'[d] = more
              /\ slab_free'[d] = slab_free[c] \cup {i} /\ HeldIn(d)' = HeldIn(c) \ {i}
          BY <4>1, <1>1, <1>7, <2>1 DEF TypeOK
        <5> QED BY <5>1, <1>4
      <4>2. CASE d # c
        <5>1. /\ class'[d] = class[d] /\ free_stack'[d] = free_stack[d]
              /\ slab_free'[d] = slab_free[d] /\ HeldIn(d)' = HeldIn(d)
          BY <4>2, <1>1, <1>7, <2>1 DEF TypeOK
        <5> QED BY <5>1 DEF EachSlabInOnePlace
      <4> QED BY <4>1, <4>2
    <3>2. \A t \in held' : class'[t.chunk] = t.class
      BY <1>9, <2>1 DEF EachSlabInOnePlace
    <3> QED BY <3>1, <3>2 DEF EachSlabInOnePlace, SlabsAccounted, PerChunk
  <2>5. UncarvedOnce' /\ \A d \in Chunk : class'[d] # NoClass => Size[class'[d]] # 0
    BY <2>1 DEF UncarvedOnce
  <2> QED BY <2>2, <2>3, <2>4, <2>5
<1> QED BY <1>a, <1>b

\* Every step of the pool keeps the inductive invariant.
LEMMA StepKeepsInvariant == IInv /\ [Next]_vars => IInv'
<1> SUFFICES ASSUME IInv, [Next]_vars PROVE IInv'
  OBVIOUS
<1>1. ASSUME NEW k \in Class, Take(k) PROVE IInv'
  BY <1>1, TakeListedKeeps, TakeCarvedKeeps DEF Take
<1>2. ASSUME NEW s \in held, GiveBack(s) PROVE IInv'
  BY <1>2, GiveBackKeeps
<1>3. CASE UNCHANGED vars
  <2>1. OpenChunks' = OpenChunks /\ links' = links /\ class' = class
    BY <1>3 DEF vars, OpenChunks
  <2>2. Linked(links'.head, links'.next, links'.prev, class', OpenChunks')
    BY <2>1 DEF IInv
  <2> QED BY <1>3, <2>2 DEF vars, IInv, TypeOK, EachSlabInOnePlace, SlabsAccounted, HeldIn,
                            UncarvedOnce, PerChunk
<1> QED BY <1>1, <1>2, <1>3 DEF Next

\* The inductive invariant holds in every state the pool reaches.
LEMMA InvariantHolds == Spec => []IInv
  BY InitEstablishes, StepKeepsInvariant, PTL DEF Spec

-----------------------------------------------------------------------------
(* The theorems. *)

\* Every variable of the pool keeps its type (pool.rs:180-194); in particular
\* `give_back` only ever sees slabs of chunks that exist.
THEOREM PoolTypeCorrect == Spec => []TypeOK
<1>1. IInv => TypeOK
  BY DEF IInv
<1> QED BY <1>1, InvariantHolds, PTL

\* A slab is on its chunk's free stack or with one caller, never both and never
\* twice: `take` cannot hand out a slab that is already held (pool.rs:179).
THEOREM SlabsExclusive == Spec => []EachSlabInOnePlace
<1>1. IInv => EachSlabInOnePlace
  BY DEF IInv
<1> QED BY <1>1, InvariantHolds, PTL

\* A chunk changes class only when no slab of it is out, so no slab changes size
\* under its holder (`give_back` and `release_chunk`, pool.rs:288, 425).
THEOREM SizesNeverChangeUnderAHolder == Spec => RecarvedOnlyWhenEmpty
<1>1. ASSUME IInv, IInv', [Next]_vars
      PROVE  [\A c \in Chunk : class'[c] # class[c] =>
                 \/ class[c] = NoClass /\ HeldIn(c) = {}
                 \/ class'[c] = NoClass /\ HeldIn(c)' = {}]_vars
  <2> SUFFICES ASSUME Next, NEW c \in Chunk, class'[c] # class[c]
               PROVE  \/ class[c] = NoClass /\ HeldIn(c) = {}
                      \/ class'[c] = NoClass /\ HeldIn(c)' = {}
    BY <1>1
  <2>1. class[c] = NoClass => HeldIn(c) = {}
    BY <1>1 DEF IInv, EachSlabInOnePlace, SlabsAccounted
  <2>2. class'[c] = NoClass => HeldIn(c)' = {}
    BY <1>1 DEF IInv, EachSlabInOnePlace, SlabsAccounted
  <2>3. ASSUME NEW k \in Class, Take(k) PROVE class[c] = NoClass
    <3>1. TakeCarved(k)
      BY <2>3 DEF Take, TakeListed
    <3>2. class[free_chunks[Len(free_chunks)]] = NoClass
      <4>1. /\ free_chunks \in Seq(Chunk) /\ free_chunks # <<>>
            /\ \A i \in 1..Len(free_chunks) : class[free_chunks[i]] = NoClass
        BY <3>1, <1>1 DEF IInv, UncarvedOnce, TakeCarved, TypeOK
      <4>2. Len(free_chunks) \in 1..Len(free_chunks)
        BY <4>1, EmptySeq
      <4> QED BY <4>1, <4>2
    <3> QED BY <3>1, <3>2, <1>1 DEF TakeCarved, IInv, TypeOK
  <2>4. ASSUME NEW s \in held, GiveBack(s) PROVE class'[c] = NoClass
    BY <2>4, <1>1 DEF GiveBack, IInv, TypeOK
  <2> QED BY <2>1, <2>2, <2>3, <2>4 DEF Next
<1> QED BY <1>1, InvariantHolds, PTL DEF Spec, RecarvedOnlyWhenEmpty

-----------------------------------------------------------------------------
(* Refinement: the pool implements RangeStore. *)

\* Two different slabs of one chunk carved the same way share no byte.
LEMMA IndexedRangesApart ==
    ASSUME NEW z \in Nat \ {0}, NEW i \in Nat, NEW j \in Nat, i # j
    PROVE  i * z + z <= j * z \/ j * z + z <= i * z
<1>1. ASSUME NEW a \in Nat, NEW b \in Nat, a < b PROVE a * z + z <= b * z
  <2>1. PICK d \in Nat : b = a + 1 + d
    <3>1. b - a - 1 \in Nat /\ b = a + 1 + (b - a - 1)
      BY <1>1
    <3> QED BY <3>1
  <2>2. b * z = a * z + z + d * z /\ d * z \in Nat /\ a * z \in Nat
    BY <2>1
  <2> QED BY <2>2
<1>2. i < j \/ j < i
  OBVIOUS
<1> QED BY <1>1, <1>2

\* The range of a slab the pool may hold lies inside its chunk.
LEMMA LocationInChunk ==
    ASSUME NEW s \in Slab, Size[s.class] # 0, s.index \in 0..PerChunk(s.class) - 1
    PROVE  Location(s) \in Ranges!HostRange /\ Ranges!InChunk(Location(s))
<1> DEFINE z == Size[s.class]
           n == PerChunk(s.class)
           i == s.index
<1>1. s.class \in Class /\ s.chunk \in Chunk /\ z \in Nat \ {0} /\ ChunkBytes \in Nat
  BY SizesFitAChunk DEF Slab
<1>2. n \in Nat /\ n * z <= ChunkBytes
  BY <1>1, PerChunkBounds
<1>3. i \in Nat /\ i + 1 <= n
  BY <1>2
<1> HIDE DEF z, n, i
<1>4. PICK d \in Nat : n = i + 1 + d
  <2>1. n - i - 1 \in Nat /\ n = i + 1 + (n - i - 1)
    BY <1>2, <1>3
  <2> QED BY <2>1
<1>5. i * z \in Nat /\ i * z + z <= ChunkBytes
  <2>1. n * z = i * z + z + d * z /\ d * z \in Nat /\ i * z \in Nat
    BY <1>1, <1>3, <1>4
  <2> QED BY <2>1, <1>1, <1>2
<1>6. Location(s) = [chunk |-> s.chunk, offset |-> i * z, bytes |-> z]
  BY DEF Location, i, z
<1>7. z \in {Size[k] : k \in Class} /\ i * z \in 0..ChunkBytes
  BY <1>1, <1>5 DEF z
<1> QED BY <1>1, <1>5, <1>6, <1>7 DEF Ranges!HostRange, Ranges!InChunk

\* In a state of the invariant, held slabs name ranges that share no byte.
LEMMA HeldRangesApart ==
    ASSUME IInv, NEW s \in held, NEW t \in held, s # t
    PROVE  /\ Ranges!Disjoint(Location(s), Location(t))
           /\ Location(s) # Location(t)
<1>1. /\ s \in Slab /\ t \in Slab
      /\ class[s.chunk] = s.class /\ class[t.chunk] = t.class
      /\ s.class \in Class /\ s.chunk \in Chunk
      /\ s.index \in Nat /\ t.index \in Nat
  BY DEF IInv, TypeOK, EachSlabInOnePlace, Slab
<1>2. Size[s.class] \in Nat \ {0}
  BY <1>1, SizesFitAChunk DEF IInv
<1>3. /\ Location(s) = [chunk |-> s.chunk, offset |-> s.index * Size[s.class],
                       bytes |-> Size[s.class]]
      /\ Location(t) = [chunk |-> t.chunk, offset |-> t.index * Size[t.class],
                       bytes |-> Size[t.class]]
  BY DEF Location
<1>4. CASE s.chunk # t.chunk
  BY <1>3, <1>4 DEF Ranges!Disjoint
<1>5. CASE s.chunk = t.chunk
  <2>1. s.class = t.class /\ s.index # t.index
    BY <1>1, <1>5, SlabFields
  <2> DEFINE z == Size[s.class]
             x == s.index * z
             y == t.index * z
  <2>2. x + z <= y \/ y + z <= x
    BY <2>1, <1>1, <1>2, IndexedRangesApart
  <2>3. x \in Nat /\ y \in Nat /\ z \in Nat \ {0}
    BY <1>1, <1>2
  <2>4. /\ Location(s) = [chunk |-> s.chunk, offset |-> x, bytes |-> z]
        /\ Location(t) = [chunk |-> t.chunk, offset |-> y, bytes |-> z]
    BY <1>3, <2>1
  <2> HIDE DEF x, y, z
  <2>5. x # y
    BY <2>2, <2>3
  <2>6. Location(s).offset = x /\ Location(t).offset = y
        /\ Location(s).bytes = z /\ Location(t).bytes = z
    BY <2>4
  <2> QED BY <2>2, <2>5, <2>6 DEF Ranges!Disjoint
<1> QED BY <1>4, <1>5

\* A slab in use has a range a RangeStore may hand out.
LEMMA HeldInChunk ==
    ASSUME IInv, NEW s \in held
    PROVE  Location(s) \in Ranges!HostRange /\ Ranges!InChunk(Location(s))
<1>1. /\ s \in Slab /\ class[s.chunk] = s.class /\ s.chunk \in Chunk
      /\ s.class \in Class /\ s.index \in 0..ChunkBytes - 1
  BY DEF IInv, TypeOK, EachSlabInOnePlace, Slab
<1>2. Size[s.class] # 0 /\ s.class # NoClass
  BY <1>1, SizesFitAChunk DEF IInv
<1>3. s.index \in HeldIn(s.chunk)
  BY <1>1 DEF HeldIn
<1>4. SlabsAccounted(s.class, free_stack[s.chunk], slab_free[s.chunk], HeldIn(s.chunk))
  BY <1>1 DEF IInv, EachSlabInOnePlace
<1>5. s.index \in 0..PerChunk(s.class) - 1
  BY <1>2, <1>3, <1>4 DEF SlabsAccounted
<1> QED BY <1>1, <1>2, <1>5, LocationInChunk

RangesApart ==
    /\ \A s \in held : Location(s) \in Ranges!HostRange /\ Ranges!InChunk(Location(s))
    /\ \A s, t \in held : s # t => /\ Ranges!Disjoint(Location(s), Location(t))
                                  /\ Location(s) # Location(t)

\* The inductive invariant keeps the byte ranges of two slabs apart.
LEMMA InvariantKeepsRangesApart == IInv => RangesApart
  BY HeldInChunk, HeldRangesApart DEF RangesApart

\* The same, in the next state.
LEMMA RangesApartNext == IInv' => RangesApart'
  BY InvariantKeepsRangesApart, PTL

\* Every take hands out a slab no caller holds.
LEMMA TakeHandsOutNew ==
    ASSUME IInv, NEW k \in Class, Take(k)
    PROVE  \E new : new \notin held /\ held' = held \cup {new}
<1>1. CASE TakeListed(k)
  <2> DEFINE c == links.head[k]
             i == Head(free_stack[c])
  <2>1. /\ c \in Chunk /\ class[c] = k /\ free_stack[c] # <<>>
        /\ free_stack[c] \in Seq(Nat) /\ Size[k] # 0 /\ k # NoClass
    BY <1>1, SizesFitAChunk DEF IInv, TakeListed, Linked, OpenChunks, TypeOK
  <2>2. SlabsAccounted(k, free_stack[c], slab_free[c], HeldIn(c))
    BY <2>1 DEF IInv, EachSlabInOnePlace
  <2>3. i \notin HeldIn(c) /\ i \in 0..PerChunk(k) - 1 /\ PerChunk(k) \in 1..ChunkBytes
    BY <2>1, <2>2, PopKeepsAccount, PerChunkBounds
  <2>4. held' = held \cup {[class |-> k, chunk |-> c, index |-> i]}
    BY <1>1 DEF TakeListed, HandOut, Popped
  <2> HIDE DEF c, i
  <2>5. i \in 0..ChunkBytes - 1
    BY <2>3, SizesFitAChunk
  <2>6. [class |-> k, chunk |-> c, index |-> i] \notin held
    BY <2>3, <2>5 DEF HeldIn
  <2> QED BY <2>4, <2>6
<1>2. CASE TakeCarved(k)
  <2> DEFINE c == free_chunks[Len(free_chunks)]
  <2>1. Len(free_chunks) \in Nat \ {0} /\ k # NoClass
    BY <1>2, EmptySeq, SizesFitAChunk DEF IInv, TakeCarved, TypeOK
  <2>2. class[c] = NoClass
    BY <2>1 DEF IInv, UncarvedOnce
  <2>3. held' = held \cup {[class |-> k, chunk |-> c, index |-> 0]}
    BY <1>2 DEF TakeCarved, HandOut
  <2>4. [class |-> k, chunk |-> c, index |-> 0] \notin held
    BY <2>1, <2>2 DEF IInv, EachSlabInOnePlace
  <2> QED BY <2>3, <2>4
<1> QED BY <1>1, <1>2 DEF Take

\* The pool is a range store: a take hands out a range of one chunk that shares
\* no byte with any range still out, a give-back frees exactly its own range
\* (pool.rs:178-180).
THEOREM PoolImplementsRangeStore == Spec => ImplementsRangeStore
<1> DEFINE out == {Location(s) : s \in held}
<1>1. Init => Ranges!Init
  BY DEF Init, Ranges!Init
<1>2. IInv /\ IInv' /\ [Next]_vars => [Ranges!Next]_out
  <2> SUFFICES ASSUME IInv, IInv', [Next]_vars PROVE [Ranges!Next]_out
    OBVIOUS
  <2>1. RangesApart /\ RangesApart'
    BY InvariantKeepsRangesApart, RangesApartNext
  <2>2. ASSUME NEW k \in Class, Take(k) PROVE Ranges!Take
    <3>1. PICK new : new \notin held /\ held' = held \cup {new}
      BY <2>2, TakeHandsOutNew
    <3>2. out' = out \cup {Location(new)}
      BY <3>1 DEF Location
    <3>3. Location(new) \in Ranges!HostRange /\ Ranges!InChunk(Location(new))
      BY <2>1, <3>1 DEF RangesApart, Location
    <3>4. \A t \in held : Ranges!Disjoint(Location(new), Location(t))
                         /\ Location(new) # Location(t)
      BY <2>1, <3>1 DEF RangesApart, Location
    <3> QED BY <3>2, <3>3, <3>4 DEF Ranges!Take
  <2>3. ASSUME NEW s \in held, GiveBack(s) PROVE Ranges!GiveBack
    <3>1. held' = held \ {s}
      BY <2>3 DEF GiveBack
    <3>2. \A t \in held : t # s => Location(t) # Location(s)
      BY <2>1 DEF RangesApart
    <3>3. out' = out \ {Location(s)} /\ Location(s) \in out
      BY <3>1, <3>2 DEF Location
    <3> QED BY <3>3 DEF Ranges!GiveBack
  <2>4. CASE UNCHANGED vars
    BY <2>4 DEF vars, Location
  <2> QED BY <2>2, <2>3, <2>4 DEF Next, Ranges!Next
<1> QED BY <1>1, <1>2, InvariantHolds, PTL DEF Spec, ImplementsRangeStore, Ranges!Spec
-----------------------------------------------------------------------------
(* Walking a class list.                                                     *)

\* The list of a class cannot be longer than there are chunks.
LEMMA ThreadFits ==
    ASSUME NEW n \in Nat, NEW w \in [1..n -> Chunk],
           \A i, j \in 1..n : w[i] = w[j] => i = j
    PROVE  n <= Cardinality(Chunk) /\ Cardinality(Chunk) \in Nat
<1>1. IsFiniteSet(Chunk) /\ Cardinality(Chunk) \in Nat
  BY NumChunksType, IntervalSizes, FS_CardinalityType DEF Chunk
<1>2. IsFiniteSet(1..n) /\ Cardinality(1..n) = n
  BY IntervalSizes
<1>3. w \in Injection(1..n, Chunk)
  BY DEF Injection, IsInjective
<1> QED BY <1>1, <1>2, <1>3, FS_Injection

\* The first m chunks of a list of n.
First(w, n, m) == [i \in 1..(IF m < n THEN m ELSE n) |-> w[i]]

\* The first m chunks of a list of n.
LEMMA FirstFacts ==
    ASSUME NEW n \in Nat, NEW w \in [1..n -> Chunk], NEW m \in Nat
    PROVE  LET f == First(w, n, m) IN
           /\ f \in Seq(Chunk)
           /\ Len(f) = IF m < n THEN m ELSE n
           /\ \A i \in 1..Len(f) : f[i] = w[i]
<1> DEFINE f == First(w, n, m)
           l == IF m < n THEN m ELSE n
<1>1. l \in Nat /\ l <= n
  OBVIOUS
<1>2. f = [i \in 1..l |-> w[i]]
  BY DEF First
<1> HIDE DEF f, l
<1>3. f \in [1..l -> Chunk] /\ \A i \in 1..l : f[i] = w[i]
  BY <1>1, <1>2
<1>4. f \in Seq(Chunk) /\ Len(f) = l
  BY <1>1, <1>3
<1> QED BY <1>3, <1>4 DEF f, l

\* One step of the walk.
Longer(head, next, v) ==
    LET c == IF v = <<>> THEN head ELSE next[v[Len(v)]]
    IN  IF c = NONE THEN v ELSE Append(v, c)

\* Walking a list one chunk further is following the next-pointer of the last one.
LEMMA WalkOn ==
    ASSUME NEW n \in Nat, NEW w \in [1..n -> Chunk], NEW m \in Nat \ {0},
           NEW head, NEW next, NEW prev, NEW mine, Threads(w, n, head, next, prev, mine)
    PROVE  First(w, n, m) = Longer(head, next, First(w, n, m - 1))
<1> DEFINE f == First(w, n, m - 1)
           g == First(w, n, m)
           c == IF f = <<>> THEN head ELSE next[f[Len(f)]]
<1>1. /\ f \in Seq(Chunk) /\ Len(f) = (IF m - 1 < n THEN m - 1 ELSE n)
      /\ \A i \in 1..Len(f) : f[i] = w[i]
  <2>1. m - 1 \in Nat
    OBVIOUS
  <2> QED BY <2>1, FirstFacts
<1>2. /\ g \in Seq(Chunk) /\ Len(g) = (IF m < n THEN m ELSE n)
      /\ \A i \in 1..Len(g) : g[i] = w[i]
  BY FirstFacts
<1>3. /\ head = (IF n = 0 THEN NONE ELSE w[1])
      /\ \A i \in 1..n : next[w[i]] = (IF i = n THEN NONE ELSE w[i + 1])
      /\ \A i \in 1..n : w[i] # NONE
  BY ChunkIsNat DEF Threads
<1> HIDE DEF f, g
<1>4. CASE m <= n
  <2>1. c = w[m] /\ m \in 1..n
    <3>1. CASE m = 1
      <4>1. f = <<>>
        BY <1>1, <3>1
      <4> QED BY <1>3, <1>4, <3>1, <4>1
    <3>2. CASE m # 1
      <4>1. Len(f) = m - 1 /\ m - 1 \in 1..n /\ f # <<>> /\ f[Len(f)] = w[m - 1]
        BY <1>1, <1>4, <3>2
      <4> QED BY <1>3, <1>4, <3>2, <4>1
    <3> QED BY <3>1, <3>2
  <2> HIDE DEF c
  <2>2. c # NONE /\ c \in Chunk
    BY <1>3, <2>1
  <2>3. /\ Append(f, c) \in Seq(Chunk) /\ Len(Append(f, c)) = Len(f) + 1
        /\ Append(f, c)[Len(f) + 1] = c
        /\ \A i \in 1..Len(f) : Append(f, c)[i] = f[i]
    BY <1>1, <2>2, AppendProperties
  <2>4. Len(f) = m - 1 /\ Len(g) = m
    <3>1. m - 1 < n /\ (m < n \/ m = n)
      BY <1>4
    <3> QED BY <1>1, <1>2, <3>1
  <2>5. ASSUME NEW i \in 1..Len(g) PROVE g[i] = Append(f, c)[i]
    <3>1. CASE i = m
      BY <1>2, <2>1, <2>3, <2>4, <3>1
    <3>2. CASE i # m
      <4>1. i \in 1..Len(f)
        BY <2>4, <3>2
      <4> QED BY <1>1, <1>2, <2>3, <4>1
    <3> QED BY <3>1, <3>2
  <2>6. g = Append(f, c)
    <3>1. Len(g) = Len(Append(f, c))
      BY <2>3, <2>4
    <3> QED BY <1>2, <2>3, <2>5, <3>1, SeqEqual
  <2> QED BY <2>2, <2>6 DEF c, f, g, Longer
<1>5. CASE m > n
  <2>1. Len(f) = n /\ Len(g) = n
    BY <1>1, <1>2, <1>5
  <2>2. g = f
    <3>1. \A i \in 1..Len(g) : g[i] = f[i]
      BY <1>1, <1>2, <2>1
    <3> QED BY <1>1, <1>2, <2>1, <3>1, SeqEqual
  <2>3. c = NONE
    <3>1. CASE n = 0
      <4>1. f = <<>>
        BY <1>1, <2>1, <3>1
      <4> QED BY <1>3, <3>1, <4>1
    <3>2. CASE n # 0
      <4>1. f # <<>> /\ f[Len(f)] = w[n] /\ n \in 1..n
        BY <1>1, <2>1, <3>2
      <4> QED BY <1>3, <3>2, <4>1
    <3> QED BY <3>1, <3>2
  <2> QED BY <2>2, <2>3 DEF f, g, Longer
<1> QED BY <1>4, <1>5 DEF f, g

Steps(k, N, step) ==
    step = [n \in 0..N |->
               IF n = 0 THEN <<>> ELSE Longer(links.head[k], links.next, step[n - 1])]

\* The walk meets the chunks of the list, in its order.
LEMMA WalkIsThread ==
    ASSUME NEW k \in Class, NEW n \in Nat, NEW w \in [1..n -> Chunk], NEW mine,
           Threads(w, n, links.head[k], links.next, links.prev, mine)
    PROVE  Walk(k) \in Seq(Chunk) /\ Len(Walk(k)) = n /\ \A i \in 1..n : Walk(k)[i] = w[i]
<1> DEFINE N == Cardinality(Chunk)
           g == [m \in 0..N |-> First(w, n, m)]
           step == CHOOSE f : Steps(k, N, f)
<1>1. n <= N /\ N \in Nat
  BY ThreadFits DEF Threads
<1>2. First(w, n, 0) = <<>>
  BY FirstFacts, EmptySeq
<1>3. \A m \in 1..N : First(w, n, m) = Longer(links.head[k], links.next, First(w, n, m - 1))
  BY <1>1, WalkOn
<1>4. Walk(k) = step[N]
  BY DEF Walk, Steps, Longer
<1> HIDE DEF N
<1>5. Steps(k, N, g)
  <2>1. \A m \in 0..N : g[m] = First(w, n, m)
    OBVIOUS
  <2>2. \A m \in 0..N : m # 0 => m - 1 \in 0..N /\ m \in 1..N
    BY <1>1
  <2>3. \A m \in 0..N : g[m] = IF m = 0 THEN <<>>
                                ELSE Longer(links.head[k], links.next, g[m - 1])
    <3> HIDE DEF g
    <3> QED BY <1>2, <1>3, <2>1, <2>2
  <2>4. g = [m \in 0..N |-> g[m]]
    OBVIOUS
  <2> HIDE DEF g
  <2> QED BY <2>3, <2>4 DEF Steps
<1>6. Steps(k, N, step)
  BY <1>5
<1> HIDE DEF step, g
<1>7. /\ step[0] = <<>>
      /\ \A m \in 1..N : step[m] = Longer(links.head[k], links.next, step[m - 1])
  BY <1>1, <1>6 DEF Steps
<1> DEFINE T == {m \in Nat : m <= N => step[m] = First(w, n, m)}
<1>8. 0 \in T
  BY <1>2, <1>7
<1>9. ASSUME NEW m \in Nat, m \in T PROVE m + 1 \in T
  <2> SUFFICES ASSUME m + 1 <= N PROVE step[m + 1] = First(w, n, m + 1)
    OBVIOUS
  <2>1. m + 1 \in 1..N /\ (m + 1) - 1 = m /\ step[m] = First(w, n, m)
    BY <1>1, <1>9
  <2> HIDE DEF T
  <2> QED BY <1>3, <1>7, <2>1
<1> HIDE DEF T
<1>10. N \in T
  BY <1>1, <1>8, <1>9, SetInduction
<1>11. Walk(k) = First(w, n, N)
  BY <1>1, <1>4, <1>10 DEF T
<1> QED BY <1>1, <1>11, FirstFacts

\* Walking a class list meets exactly the chunks of the class that have a free
\* slab, each once and with the right prev, in whatever order slabs were taken
\* and given back: an entry unlinked from the middle of a list loses or
\* duplicates no other chunk (`link_chunk` and `unlink_chunk`, pool.rs).
THEOREM ListsAreExact == Spec => []ListsHoldTheOpenChunks
<1>1. ASSUME IInv PROVE ListsHoldTheOpenChunks
  <2> SUFFICES ASSUME NEW k \in Class
               PROVE  /\ {Walk(k)[i] : i \in 1..Len(Walk(k))} = {c \in Carved(k) : free_stack[c] # <<>>}
                      /\ \A i \in 1..Len(Walk(k)) :
                            links.prev[Walk(k)[i]] = IF i = 1 THEN NONE ELSE Walk(k)[i - 1]
                      /\ Walk(k) # <<>> => links.next[Walk(k)[Len(Walk(k))]] = NONE
    BY DEF ListsHoldTheOpenChunks
  <2> DEFINE mine == {c \in OpenChunks : class[c] = k}
             v == Walk(k)
  <2>1. mine = {c \in Carved(k) : free_stack[c] # <<>>}
    BY SizesFitAChunk DEF OpenChunks, Carved
  <2>2. Threaded(links.head[k], links.next, links.prev, mine)
    BY <1>1 DEF IInv, Linked
  <2> HIDE DEF mine
  <2>3. PICK n \in Nat : \E w \in [1..n -> Chunk] :
            Threads(w, n, links.head[k], links.next, links.prev, mine)
    BY <2>2 DEF Threaded
  <2>4. PICK w \in [1..n -> Chunk] : Threads(w, n, links.head[k], links.next, links.prev, mine)
    BY <2>3
  <2>5. v \in Seq(Chunk) /\ Len(v) = n /\ \A i \in 1..n : v[i] = w[i]
    BY <2>4, WalkIsThread
  <2> HIDE DEF v
  <2>0. /\ \A i \in 1..n : w[i] \in mine
        /\ \A c \in mine : \E i \in 1..n : w[i] = c
        /\ \A i \in 1..n : links.prev[w[i]] = (IF i = 1 THEN NONE ELSE w[i - 1])
        /\ \A i \in 1..n : links.next[w[i]] = (IF i = n THEN NONE ELSE w[i + 1])
    BY <2>4 DEF Threads
  <2>6. /\ \A i \in 1..n : v[i] \in mine
        /\ \A c \in mine : \E i \in 1..n : v[i] = c
        /\ \A i \in 1..n : links.prev[v[i]] = (IF i = 1 THEN NONE ELSE w[i - 1])
        /\ \A i \in 1..n : links.next[v[i]] = (IF i = n THEN NONE ELSE w[i + 1])
    <3>1. \A i \in 1..n : v[i] = w[i]
      BY <2>5
    <3> QED BY <2>0, <3>1
  <2>7. \A i \in 1..n : i # 1 => w[i - 1] = v[i - 1]
    BY <2>5
  <2>8. {v[i] : i \in 1..Len(v)} = mine
    <3>1. {v[i] : i \in 1..n} \subseteq mine
      BY <2>6
    <3>2. mine \subseteq {v[i] : i \in 1..n}
      BY <2>6
    <3>3. Len(v) = n
      BY <2>5
    <3> QED BY <3>1, <3>2, <3>3
  <2>9. v # <<>> => links.next[v[Len(v)]] = NONE
    <3> SUFFICES ASSUME v # <<>> PROVE links.next[v[n]] = NONE
      BY <2>5
    <3>1. n \in 1..n
      BY <2>5
    <3> QED BY <2>6, <3>1
  <2> QED BY <2>1, <2>5, <2>6, <2>7, <2>8, <2>9 DEF v
<1> QED BY <1>1, InvariantHolds, PTL
=============================================================================
