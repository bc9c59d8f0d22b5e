-------------------------- MODULE SourceCacheProofs --------------------------
(***************************************************************************)
(* The page pool and the rows of a source cache: counts match owners, and  *)
(* prefixes and idle requests keep their rows whatever transactions of     *)
(* other lanes reserve, copy, write, publish or abort, for any number of   *)
(* pages, slots, lanes and prefixes and any page size.                     *)
(***************************************************************************)
EXTENDS SourceCache, LibraryLemmas

-----------------------------------------------------------------------------
(* Rows and pages. *)

\* A row number is its page's first row plus its place in the page.
LEMMA RowParts ==
    ASSUME NEW r \in Nat
    PROVE  /\ r \div PAGE_ROWS \in Nat
           /\ r % PAGE_ROWS \in 0..PAGE_ROWS - 1
           /\ r = (r \div PAGE_ROWS) * PAGE_ROWS + (r % PAGE_ROWS)
  BY PageShape, Z3

\* The rows of different pages do not meet.
LEMMA Apart ==
    ASSUME NEW x \in Nat, NEW y \in Nat, x < y
    PROVE  x * PAGE_ROWS + PAGE_ROWS <= y * PAGE_ROWS
  BY PageShape, Z3

\* The page and the place of a row are determined by it.
LEMMA PartsUnique ==
    ASSUME NEW q \in Int, NEW k \in 0..PAGE_ROWS - 1
    PROVE  (q * PAGE_ROWS + k) \div PAGE_ROWS = q /\ (q * PAGE_ROWS + k) % PAGE_ROWS = k
  BY PageShape, Z3

\* A table of n rows has a page for each, and its last page is partly filled
\* when n is not a multiple of the page size.
LEMMA PagesOfRows ==
    ASSUME NEW n \in Nat
    PROVE  /\ PagesFor(n) \in Nat
           /\ n % PAGE_ROWS = 0 => PagesFor(n) = n \div PAGE_ROWS
           /\ n % PAGE_ROWS # 0 => PagesFor(n) = n \div PAGE_ROWS + 1
<1> DEFINE q == n \div PAGE_ROWS
           k == n % PAGE_ROWS
<1>1. q \in Nat /\ k \in 0..PAGE_ROWS - 1 /\ n = q * PAGE_ROWS + k
  BY RowParts
<1> HIDE DEF q, k
<1>2. CASE k = 0
  <2>1. n + PAGE_ROWS - 1 = q * PAGE_ROWS + (PAGE_ROWS - 1) /\ PAGE_ROWS - 1 \in 0..PAGE_ROWS - 1
    BY <1>1, <1>2, PageShape, Z3
  <2>2. PagesFor(n) = q
    BY <1>1, <2>1, PartsUnique DEF PagesFor
  <2> QED BY <1>1, <1>2, <2>2 DEF q, k
<1>3. CASE k # 0
  <2>1. n + PAGE_ROWS - 1 = (q + 1) * PAGE_ROWS + (k - 1) /\ k - 1 \in 0..PAGE_ROWS - 1
    BY <1>1, <1>3, PageShape, Z3
  <2>2. PagesFor(n) = q + 1
    BY <1>1, <2>1, PartsUnique DEF PagesFor
  <2> QED BY <1>1, <1>3, <2>2 DEF q, k
<1> QED BY <1>2, <1>3

\* Where the rows below n, and n itself, stand in the pages for n rows.
LEMMA RowsHavePages ==
    ASSUME NEW n \in Nat, NEW r \in Nat
    PROVE  /\ r < n => r \div PAGE_ROWS + 1 \in 1..PagesFor(n)
           /\ r <= n /\ r \div PAGE_ROWS = n \div PAGE_ROWS => r % PAGE_ROWS <= n % PAGE_ROWS
           /\ r < n /\ r \div PAGE_ROWS = n \div PAGE_ROWS => r % PAGE_ROWS < n % PAGE_ROWS
           /\ r <= n => r \div PAGE_ROWS <= n \div PAGE_ROWS /\ PagesFor(r) <= PagesFor(n)
<1> DEFINE q == n \div PAGE_ROWS
           k == n % PAGE_ROWS
           x == r \div PAGE_ROWS
           y == r % PAGE_ROWS
<1>1. q \in Nat /\ k \in 0..PAGE_ROWS - 1 /\ n = q * PAGE_ROWS + k
  BY RowParts
<1>2. x \in Nat /\ y \in 0..PAGE_ROWS - 1 /\ r = x * PAGE_ROWS + y
  BY RowParts
<1>3. /\ PagesFor(n) \in Nat
      /\ k = 0 => PagesFor(n) = q
      /\ k # 0 => PagesFor(n) = q + 1
  BY PagesOfRows
<1>4. /\ PagesFor(r) \in Nat
      /\ y = 0 => PagesFor(r) = x
      /\ y # 0 => PagesFor(r) = x + 1
  BY PagesOfRows
<1> HIDE DEF q, k, x, y
<1>5. q < x => n < r
  <2>1. q < x => q * PAGE_ROWS + PAGE_ROWS <= x * PAGE_ROWS
    BY <1>1, <1>2, Apart
  <2>2. q * PAGE_ROWS \in Int /\ x * PAGE_ROWS \in Int
    BY <1>1, <1>2, PageShape
  <2> QED BY <1>1, <1>2, <2>1, <2>2, PageShape
<1>6. x = q => (r < n <=> y < k)
  BY <1>1, <1>2, PageShape
<1>7. r <= n => x <= q
  BY <1>1, <1>2, <1>5
<1>8. r < n => x + 1 \in 1..PagesFor(n)
  BY <1>1, <1>2, <1>3, <1>6, <1>7
<1>9. r <= n => PagesFor(r) <= PagesFor(n)
  BY <1>1, <1>2, <1>3, <1>4, <1>6, <1>7
<1> QED BY <1>1, <1>2, <1>6, <1>7, <1>8, <1>9 DEF q, k, x, y

\* Two rows at the same place of the same page are one row.
LEMMA SameRow ==
    ASSUME NEW n \in Nat, NEW r \in Nat,
           n \div PAGE_ROWS = r \div PAGE_ROWS, n % PAGE_ROWS = r % PAGE_ROWS
    PROVE  n = r
  BY RowParts
-----------------------------------------------------------------------------
(* A set of positions in order. *)

UpTo(N, i) == {j \in N : j <= i}

\* Counting the members of a set of numbers up to i.
LEMMA UpToFacts ==
    ASSUME NEW N, IsFiniteSet(N), \A j \in N : j \in Nat, NEW i \in Nat
    PROVE  /\ IsFiniteSet(UpTo(N, i)) /\ Cardinality(UpTo(N, i)) \in Nat
           /\ i + 1 \in N => Cardinality(UpTo(N, i + 1)) = Cardinality(UpTo(N, i)) + 1
           /\ i + 1 \notin N => UpTo(N, i + 1) = UpTo(N, i)
<1>1. IsFiniteSet(UpTo(N, i)) /\ Cardinality(UpTo(N, i)) \in Nat
  <2>1. UpTo(N, i) \subseteq N
    BY DEF UpTo
  <2> QED BY <2>1, FS_Subset, FS_CardinalityType
<1>2. \A j \in N : j <= i + 1 <=> j <= i \/ j = i + 1
  OBVIOUS
<1>3. ~(i + 1 <= i) /\ i + 1 <= i + 1
  OBVIOUS
<1>4. ASSUME i + 1 \in N
      PROVE  Cardinality(UpTo(N, i + 1)) = Cardinality(UpTo(N, i)) + 1
  <2>1. UpTo(N, i + 1) = UpTo(N, i) \cup {i + 1} /\ i + 1 \notin UpTo(N, i)
    BY <1>2, <1>3, <1>4 DEF UpTo
  <2> QED BY <1>1, <2>1, FS_AddElement
<1>5. i + 1 \notin N => UpTo(N, i + 1) = UpTo(N, i)
  BY <1>2 DEF UpTo
<1> QED BY <1>1, <1>4, <1>5

\* Every count up to the size of the set is that of one position.
LEMMA RanksReached ==
    ASSUME NEW L \in Nat, NEW N \in SUBSET (1..L), NEW n \in 1..Cardinality(N)
    PROVE  \E i \in N : Cardinality(UpTo(N, i)) = n
<1> DEFINE Reached(m) == \A k \in 1..Cardinality(UpTo(N, m)) :
                            \E i \in N : Cardinality(UpTo(N, i)) = k
           T == {m \in Nat : Reached(m)}
<1>1. IsFiniteSet(N) /\ \A j \in N : j \in Nat /\ 1 <= j /\ j <= L
  <2>1. \A j \in N : j \in Nat /\ 1 <= j /\ j <= L
    OBVIOUS
  <2>2. IsFiniteSet(1..L) /\ N \subseteq 1..L
    BY FS_Interval
  <2> QED BY <2>1, <2>2, FS_Subset
<1>2. 0 \in T
  <2>1. UpTo(N, 0) = {}
    <3>1. \A j \in N : ~(j <= 0)
      BY <1>1
    <3> QED BY <3>1 DEF UpTo
  <2>2. Cardinality(UpTo(N, 0)) = 0
    BY <2>1, FS_EmptySet
  <2> QED BY <2>2
<1>3. ASSUME NEW m \in Nat, m \in T PROVE m + 1 \in T
  <2>1. CASE m + 1 \in N
    <3>1. /\ Cardinality(UpTo(N, m + 1)) = Cardinality(UpTo(N, m)) + 1
          /\ Cardinality(UpTo(N, m)) \in Nat
      BY <1>1, <2>1, UpToFacts
    <3>2. ASSUME NEW k \in 1..Cardinality(UpTo(N, m + 1))
          PROVE  \E i \in N : Cardinality(UpTo(N, i)) = k
      <4>1. CASE k = Cardinality(UpTo(N, m + 1))
        BY <2>1, <4>1
      <4>2. CASE k # Cardinality(UpTo(N, m + 1))
        <5>1. k \in 1..Cardinality(UpTo(N, m))
          BY <3>1, <4>2
        <5> QED BY <1>3, <5>1
      <4> QED BY <4>1, <4>2
    <3> QED BY <3>2
  <2>2. CASE m + 1 \notin N
    <3>1. UpTo(N, m + 1) = UpTo(N, m)
      BY <1>1, <2>2, UpToFacts
    <3> QED BY <1>3, <3>1
  <2> QED BY <2>1, <2>2
<1> HIDE DEF T
<1>4. L \in T
  BY <1>2, <1>3, SetInduction
<1>5. UpTo(N, L) = N
  BY <1>1 DEF UpTo
<1> QED BY <1>4, <1>5 DEF T

\* InOrder lists the members of a set of numbers, each once.
LEMMA InOrderFacts ==
    ASSUME NEW L \in Nat, NEW N \in SUBSET (1..L)
    PROVE  LET o == InOrder(N) IN
           /\ IsFiniteSet(N) /\ Cardinality(N) \in Nat
           /\ o \in Seq(N) /\ Len(o) = Cardinality(N)
           /\ Injective(o) /\ ToSet(o) = N
<1> DEFINE o == InOrder(N)
           C == Cardinality(N)
<1>0. \A j \in N : j \in Nat
  OBVIOUS
<1>1. IsFiniteSet(N) /\ C \in Nat
  <2>1. IsFiniteSet(1..L)
    BY FS_Interval
  <2> QED BY <2>1, FS_Subset, FS_CardinalityType
<1>2. o = [n \in 1..C |-> CHOOSE i \in N : Cardinality(UpTo(N, i)) = n]
  BY DEF InOrder, UpTo
<1> HIDE DEF o
<1>3. \A n \in 1..C : o[n] \in N /\ Cardinality(UpTo(N, o[n])) = n
  <2> SUFFICES ASSUME NEW n \in 1..C PROVE o[n] \in N /\ Cardinality(UpTo(N, o[n])) = n
    OBVIOUS
  <2>1. \E i \in N : Cardinality(UpTo(N, i)) = n
    BY RanksReached
  <2>2. o[n] = CHOOSE i \in N : Cardinality(UpTo(N, i)) = n
    BY <1>2
  <2> QED BY <2>1, <2>2
<1>4. o \in Seq(N) /\ Len(o) = C /\ DOMAIN o = 1..C
  <2>1. o \in [1..C -> N]
    BY <1>2, <1>3
  <2> QED BY <1>1, <2>1
<1>5. Injective(o)
  BY <1>3, <1>4 DEF Injective
<1>6. ToSet(o) = N
  <2>1. ToSet(o) \subseteq N
    BY <1>3, <1>4 DEF ToSet
  <2>2. ASSUME NEW i \in N PROVE i \in ToSet(o)
    <3> DEFINE n == Cardinality(UpTo(N, i))
    <3>1. n \in 1..C
      <4>1. UpTo(N, i) \subseteq N /\ i \in UpTo(N, i) /\ i \in Nat
        BY DEF UpTo
      <4>2. n \in Nat /\ n <= C /\ IsFiniteSet(UpTo(N, i))
        BY <1>1, <4>1, FS_Subset, FS_CardinalityType
      <4>3. n # 0
        BY <4>1, <4>2, FS_EmptySet
      <4> QED BY <1>1, <4>2, <4>3
    <3>2. o[n] = i
      <4>1. o[n] \in N /\ Cardinality(UpTo(N, o[n])) = Cardinality(UpTo(N, i))
        BY <1>3, <3>1
      <4>2. ASSUME NEW x \in N, NEW y \in N, x < y
            PROVE  Cardinality(UpTo(N, x)) < Cardinality(UpTo(N, y))
        <5>0. \A j \in N : j \in Nat
          OBVIOUS
        <5>3. \A j \in N : (j <= x => j <= y) /\ y <= y /\ ~(y <= x)
          BY <4>2, <5>0
        <5>1. /\ UpTo(N, x) \subseteq UpTo(N, y) /\ UpTo(N, x) # UpTo(N, y)
          BY <5>3 DEF UpTo
        <5>2. IsFiniteSet(UpTo(N, y))
          BY <1>0, <1>1, UpToFacts
        <5> QED BY <5>1, <5>2, FS_Subset, FS_CardinalityType
      <4>3. o[n] \in Int /\ i \in Int
        <5>1. \A j \in N : j \in Int
          OBVIOUS
        <5> QED BY <4>1, <5>1
      <4>4. UpTo(N, i) = UpTo(N, i) /\ Cardinality(UpTo(N, i)) \in Nat
        BY <1>0, <1>1, UpToFacts
      <4> QED BY <4>1, <4>2, <4>3, <4>4
    <3> QED BY <1>4, <3>1, <3>2 DEF ToSet
  <2> QED BY <2>1, <2>2
<1>7. Seq(N) = Seq(N) /\ Len(o) = Cardinality(N)
  BY <1>4
<1> QED BY <1>1, <1>4, <1>5, <1>6, <1>7 DEF o

-----------------------------------------------------------------------------
(* The page pool's lists. *)

\* How often a list mentions a page: a number, zero when it does not, one when its pages
\* differ.
LEMMA MentionsFacts ==
    ASSUME NEW S, NEW list \in Seq(S), NEW p
    PROVE  /\ Mentions(list, p) \in Nat
           /\ p \notin ToSet(list) <=> Mentions(list, p) = 0
           /\ Injective(list) /\ p \in ToSet(list) => Mentions(list, p) = 1
<1> DEFINE N == {i \in DOMAIN list : list[i] = p}
<1>1. IsFiniteSet(N) /\ Mentions(list, p) = Cardinality(N)
  <2>1. IsFiniteSet(DOMAIN list) /\ N \subseteq DOMAIN list
    BY SequenceFacts
  <2> QED BY <2>1, FS_Subset DEF Mentions
<1>2. p \notin ToSet(list) <=> N = {}
  BY DEF ToSet
<1>3. ASSUME Injective(list), p \in ToSet(list) PROVE \E i : N = {i}
  <2>1. PICK i \in DOMAIN list : list[i] = p
    BY <1>3 DEF ToSet
  <2>2. \A j \in DOMAIN list : list[j] = p => j = i
    BY <1>3, <2>1 DEF Injective
  <2> QED BY <2>1, <2>2
<1> HIDE DEF N
<1> QED BY <1>1, <1>2, <1>3, CountOne, FS_CardinalityType

\* What `release` leaves of the counts and gives back to the free list.
LEMMA ReleaseFacts ==
    ASSUME NEW refs \in [Page -> Nat], NEW list \in Seq(Page),
           \A p \in Page : Mentions(list, p) <= refs[p]
    PROVE  /\ Released(refs, list) \in [Page -> Nat]
           /\ \A p \in Page : Released(refs, list)[p] = refs[p] - Mentions(list, p)
           /\ Freed(refs, list) \in Seq(Page) /\ Injective(Freed(refs, list))
           /\ ToSet(Freed(refs, list)) =
                 {p \in ToSet(list) : Released(refs, list)[p] = 0}
<1> DEFINE left == Released(refs, list)
           last == {i \in DOMAIN list : \A j \in i + 1..Len(list) : list[j] # list[i]}
           N == {i \in last : left[list[i]] = 0}
           o == InOrder(N)
           f == Freed(refs, list)
<1>1. left \in [Page -> Nat] /\ \A p \in Page : left[p] = refs[p] - Mentions(list, p)
  <2>1. \A p \in Page : refs[p] - Mentions(list, p) \in Nat
    <3>1. \A p \in Page : refs[p] \in Nat /\ Mentions(list, p) \in Nat
      BY MentionsFacts
    <3> QED BY <3>1
  <2> QED BY <2>1 DEF Released
<1>2. /\ DOMAIN list = 1..Len(list) /\ Len(list) \in Nat
      /\ \A i \in 1..Len(list) : list[i] \in Page
  BY SequenceFacts
<1>3. f = [n \in DOMAIN o |-> list[o[n]]]
  BY DEF Freed
<1> HIDE DEF left, o, f
<1>4. N \in SUBSET (1..Len(list))
  BY <1>2
<1>5. /\ IsFiniteSet(N) /\ Cardinality(N) \in Nat
      /\ o \in Seq(N) /\ Len(o) = Cardinality(N)
      /\ Injective(o) /\ ToSet(o) = N
  <2> HIDE DEF N
  <2> QED BY <1>2, <1>4, InOrderFacts DEF o
<1>6. DOMAIN o = 1..Len(o) /\ Len(o) \in Nat /\ \A n \in 1..Len(o) : o[n] \in N
  <2> HIDE DEF N
  <2> QED BY <1>5, SequenceFacts
<1>7. \A x, y \in N : list[x] = list[y] => x = y
  <2> SUFFICES ASSUME NEW x \in N, NEW y \in N, list[x] = list[y], x < y PROVE FALSE
    BY <1>2
  <2>1. y \in x + 1..Len(list)
    BY <1>2
  <2> QED BY <2>1
<1>8. \A p \in ToSet(list) : \E i \in last : list[i] = p
  <2> SUFFICES ASSUME NEW p \in ToSet(list) PROVE \E i \in last : list[i] = p
    OBVIOUS
  <2> DEFINE at == {i \in 1..Len(list) : list[i] = p}
  <2>1. at \in SUBSET Nat /\ at # {} /\ \A i \in at : i <= Len(list)
    BY <1>2 DEF ToSet
  <2>2. Max(at) \in at /\ \A i \in at : Max(at) >= i
    <3> HIDE DEF at
    <3> QED BY <1>2, <2>1, MaxProperties
  <2>3. \A j \in Max(at) + 1..Len(list) : list[j] # p
    <3> SUFFICES ASSUME NEW j \in Max(at) + 1..Len(list), list[j] = p PROVE FALSE
      OBVIOUS
    <3>0. Max(at) \in Nat
      BY <2>1, <2>2
    <3>1. j \in 1..Len(list) /\ ~(Max(at) >= j)
      BY <1>2, <3>0
    <3> QED BY <2>2, <3>1
  <2>4. Max(at) \in 1..Len(list) /\ list[Max(at)] = p
    BY <2>2
  <2>5. Max(at) \in last
    <3> HIDE DEF at
    <3> QED BY <1>2, <2>3, <2>4
  <2> QED BY <2>4, <2>5
<1>9. f \in Seq(Page) /\ DOMAIN f = 1..Len(o)
  <2>1. \A n \in 1..Len(o) : list[o[n]] \in Page
    BY <1>2, <1>4, <1>6
  <2>2. f \in [1..Len(o) -> Page]
    BY <1>3, <1>6, <2>1
  <2> QED
    <3> HIDE DEF N
    <3> QED BY <1>6, <2>2
<1>10. Injective(f)
  <2>1. \A n \in 1..Len(o) : f[n] = list[o[n]]
    BY <1>3, <1>6
  <2>2. \A n, m \in 1..Len(o) : list[o[n]] = list[o[m]] => o[n] = o[m]
    <3> HIDE DEF N
    <3> QED BY <1>6, <1>7
  <2>3. \A n, m \in 1..Len(o) : o[n] = o[m] => n = m
    <3> HIDE DEF N
    <3> QED BY <1>5, <1>6 DEF Injective
  <2> HIDE DEF N, last
  <2>4. Len(f) = Len(o)
    BY <1>5, <1>9, SequenceFacts
  <2>5. \A n, m \in 1..Len(o) : f[n] = f[m] => n = m
    BY <2>1, <2>2, <2>3
  <2> QED BY <2>4, <2>5 DEF Injective
<1>11. ToSet(f) = {p \in ToSet(list) : left[p] = 0}
  <2>1. ASSUME NEW p \in ToSet(f) PROVE p \in ToSet(list) /\ left[p] = 0
    <3>1. PICK n \in 1..Len(o) : p = list[o[n]]
      BY <1>3, <1>6, <1>9 DEF ToSet
    <3>2. o[n] \in N
      BY <1>6, <3>1
    <3> QED BY <3>1, <3>2 DEF ToSet
  <2>2. ASSUME NEW p \in ToSet(list), left[p] = 0 PROVE p \in ToSet(f)
    <3>1. PICK i \in last : list[i] = p
      BY <1>8
    <3>2. i \in N
      BY <2>2, <3>1
    <3>3. PICK n \in 1..Len(o) : o[n] = i
      <4> HIDE DEF N
      <4> QED BY <1>5, <1>6, <3>2 DEF ToSet
    <3> QED BY <1>3, <1>6, <1>9, <3>1, <3>3 DEF ToSet
  <2> QED BY <2>1, <2>2
<1> QED BY <1>1, <1>9, <1>10, <1>11 DEF left, f

-----------------------------------------------------------------------------
(* The invariant. *)

\* No page appears twice, and there is a page for each row.
Table(list, n) ==
    /\ list \in Seq(Page) /\ Injective(list)
    /\ n \in Rows /\ Len(list) = PagesFor(n)

TablesInv ==
    /\ pages \in [Slot -> Seq(Page)] /\ rows \in [Slot -> Rows]
    /\ \A s \in Slot : Table(pages[s], rows[s])
    /\ \A h \in Handle :
          /\ prefixes[h].live \in BOOLEAN
          /\ prefixes[h].live => Table(prefixes[h].pages, prefixes[h].rows)
    /\ DOMAIN prefixes = Handle

SlotsWith(pg, p) == {s \in Slot : p \in ToSet(pg[s])}
PrefixesWith(px, p) == {h \in Handle : px[h].live /\ p \in ToSet(px[h].pages)}

\* References count owners.
Counted(refs, pg, px) ==
    \A p \in Page :
        refs[p] = Cardinality(SlotsWith(pg, p)) + Cardinality(PrefixesWith(px, p))

Claimed(plan) == IF plan.stage = "none" THEN {} ELSE ToSet(plan.claimed)

\* A page without an owner is free or claimed by one transaction.
Pool(fr, refs, pl) ==
    /\ fr \in Seq(Page) /\ Injective(fr)
    /\ refs \in [Page -> Nat]
    /\ \A l \in Lane : Claimed(pl[l]) \subseteq Page
    /\ \A l \in Lane : ToSet(fr) \intersect Claimed(pl[l]) = {}
    /\ \A l, k \in Lane : l # k => Claimed(pl[l]) \intersect Claimed(pl[k]) = {}
    /\ \A p \in Page :
          refs[p] = 0 <=> p \in ToSet(fr) \/ \E l \in Lane : p \in Claimed(pl[l])

SlotsIn(plan) == IF plan.stage = "none" THEN {} ELSE SlotsOf(plan.appends)

WritingInv ==
    /\ writing \subseteq Slot
    /\ \A s \in Slot : s \in writing <=> \E l \in Lane : s \in SlotsIn(plans[l])
    /\ \A l, k \in Lane : l # k => SlotsIn(plans[l]) \intersect SlotsIn(plans[k]) = {}

-----------------------------------------------------------------------------
(* A transaction: T and E are the tables and the ends of its slots. *)

AppendOf(plan, s) ==
    CHOOSE a \in {plan.appends[n] : n \in DOMAIN plan.appends} : a.slot = s

Moves(plan, s) == \E m \in plan.replacements : m.slot = s
Move(plan, s) == CHOOSE m \in plan.replacements : m.slot = s

\* Page k of the table slot s is to have, and whether it is one it gains.
IsNew(plan, s, list, k) ==
    \/ Moves(plan, s) /\ Move(plan, s).logical = k
    \/ k > Len(list)

NewPage(plan, s, list, k) ==
    IF Moves(plan, s) /\ Move(plan, s).logical = k THEN Move(plan, s).destination
    ELSE IF k <= Len(list) THEN list[k]
    ELSE plan.additions[s][k - Len(list)]

NewTable(plan, s, list) ==
    [k \in 1..PagesFor(AppendOf(plan, s).new) |-> NewPage(plan, s, list, k)]

PlanType(plan) ==
    /\ DOMAIN plan = {"stage", "appends", "replacements", "additions", "claimed"}
    /\ plan.stage \in {"reserved", "copied", "written"}
    /\ plan.appends \in Seq([slot : Slot, new : Rows, value : Value])
    /\ \A i, j \in DOMAIN plan.appends :
          plan.appends[i].slot = plan.appends[j].slot => i = j
    /\ plan.claimed \in Seq(Page) /\ Injective(plan.claimed)
    /\ plan.replacements \subseteq
          [slot : SlotsOf(plan.appends), logical : Nat, source : Page, destination : Page]
    /\ \A m, x \in plan.replacements : m.slot = x.slot => m = x
    /\ plan.additions \in [SlotsOf(plan.appends) -> Seq(Page)]

PlanFits(plan, T, E) ==
    /\ \A s \in SlotsOf(plan.appends) :
          /\ AppendOf(plan, s).new >= E[s]
          /\ Len(plan.additions[s]) = PagesFor(AppendOf(plan, s).new) - Len(T[s])
    /\ \A m \in plan.replacements :
          /\ E[m.slot] % PAGE_ROWS # 0
          /\ AppendOf(plan, m.slot).new > E[m.slot]
          /\ m.logical = E[m.slot] \div PAGE_ROWS + 1
          /\ m.source = T[m.slot][m.logical]

Places(plan, s) == 1..PagesFor(AppendOf(plan, s).new)

\* The claimed pages are exactly the new pages, each in one place.
PlanClaims(plan, T) ==
    /\ \A s \in SlotsOf(plan.appends) : \A k \in Places(plan, s) :
          IsNew(plan, s, T[s], k) => NewPage(plan, s, T[s], k) \in ToSet(plan.claimed)
    /\ \A s, u \in SlotsOf(plan.appends) : \A k \in Places(plan, s), j \in Places(plan, u) :
          (/\ IsNew(plan, s, T[s], k) /\ IsNew(plan, u, T[u], j)
           /\ NewPage(plan, s, T[s], k) = NewPage(plan, u, T[u], j)) => s = u /\ k = j
    /\ \A p \in ToSet(plan.claimed) : \E s \in SlotsOf(plan.appends) :
          \E k \in Places(plan, s) :
              IsNew(plan, s, T[s], k) /\ NewPage(plan, s, T[s], k) = p

\* An append that writes into a partly filled page without copying it does so
\* alone: no prefix shows the page, and the other tables with it are those of
\* slots that copy it here.
PlanAlone(plan, pg, rw, px) ==
    \A s \in SlotsOf(plan.appends) :
        (AppendOf(plan, s).new > rw[s] /\ rw[s] % PAGE_ROWS # 0 /\ ~Moves(plan, s)) =>
            LET p == pg[s][rw[s] \div PAGE_ROWS + 1] IN
            /\ PrefixesWith(px, p) = {}
            /\ \A u \in SlotsWith(pg, p) :
                  u = s \/ (Moves(plan, u) /\ Move(plan, u).source = p)

PlansInv ==
    /\ DOMAIN plans = Lane
    /\ \A l \in Lane : plans[l].stage # "none" =>
          /\ PlanType(plans[l])
          /\ PlanFits(plans[l], pages, rows)
          /\ PlanClaims(plans[l], pages)
          /\ PlanAlone(plans[l], pages, rows, prefixes)
    /\ \A l \in Lane : plans[l].stage = "none" => plans[l] = NoPlan

-----------------------------------------------------------------------------
Shows(c, list, n, content) ==
    content = [r \in 1..n |-> c[list[(r - 1) \div PAGE_ROWS + 1]][(r - 1) % PAGE_ROWS]]

\* The rows of slot s with the ones the transaction appends.
Grown(plan, s, content, n) ==
    content \o [i \in 1..AppendOf(plan, s).new - n |-> AppendOf(plan, s).value]

\* Once the tails are copied the tables to be read like the old ones, once the
\* rows are stored like the ones to be published.
PlanRows(plan, c, hs, pg, rw) ==
    \A s \in SlotsIn(plan) :
        /\ plan.stage = "copied" => Shows(c, NewTable(plan, s, pg[s]), rw[s], hs[s])
        /\ plan.stage = "written" => Shows(c, NewTable(plan, s, pg[s]), AppendOf(plan, s).new,
                                           Grown(plan, s, hs[s], rw[s]))

Unwritten(s) == \A l \in Lane : plans[l].stage = "written" => s \notin SlotsIn(plans[l])

RowsInv ==
    /\ cells \in [Page -> [0..PAGE_ROWS - 1 -> Value]]
    /\ hist \in [Slot -> Seq(Value)]
    /\ \A h \in Handle : prefixes[h].live =>
          Shows(cells, prefixes[h].pages, prefixes[h].rows, prefixes[h].hist)
    /\ \A s \in Slot : Unwritten(s) => Shows(cells, pages[s], rows[s], hist[s])
    /\ \A l \in Lane : PlanRows(plans[l], cells, hist, pages, rows)

CacheInv ==
    /\ TablesInv
    /\ Counted(references, pages, prefixes)
    /\ Pool(free, references, plans)
    /\ WritingInv
    /\ PlansInv
    /\ RowsInv

-----------------------------------------------------------------------------
(* Counting owners. *)

\* Adding a list's references adds to each page's count what the list mentions.
LEMMA AddFacts ==
    ASSUME NEW refs \in [Page -> Nat], NEW list \in Seq(Page)
    PROVE  /\ AddTo(refs, list) \in [Page -> Nat]
           /\ \A p \in Page : AddTo(refs, list)[p] = refs[p] + Mentions(list, p)
<1>1. \A p \in Page : refs[p] \in Nat /\ Mentions(list, p) \in Nat
  BY MentionsFacts
<1> QED BY <1>1 DEF AddTo

\* Finitely many slots and prefixes hold a page.
LEMMA OwnersFinite ==
    ASSUME NEW pg, NEW px, NEW p
    PROVE  /\ IsFiniteSet(SlotsWith(pg, p)) /\ Cardinality(SlotsWith(pg, p)) \in Nat
           /\ IsFiniteSet(PrefixesWith(px, p)) /\ Cardinality(PrefixesWith(px, p)) \in Nat
  BY PageShape, FS_Subset, FS_CardinalityType DEF SlotsWith, PrefixesWith

\* An empty table that gets pages.
LEMMA TableGained ==
    ASSUME NEW refs \in [Page -> Nat], NEW pg, NEW px, Counted(refs, pg, px),
           NEW s \in Slot, DOMAIN pg = Slot, ToSet(pg[s]) = {},
           NEW list \in Seq(Page), Injective(list)
    PROVE  Counted(AddTo(refs, list), [pg EXCEPT ![s] = list], px)
<1> SUFFICES ASSUME NEW p \in Page
             PROVE  AddTo(refs, list)[p] =
                        Cardinality(SlotsWith([pg EXCEPT ![s] = list], p))
                        + Cardinality(PrefixesWith(px, p))
  BY DEF Counted
<1> DEFINE old == SlotsWith(pg, p)
           new == SlotsWith([pg EXCEPT ![s] = list], p)
<1>1. AddTo(refs, list)[p] = refs[p] + Mentions(list, p)
  BY AddFacts
<1>2. refs[p] = Cardinality(old) + Cardinality(PrefixesWith(px, p))
  BY DEF Counted
<1>3. /\ IsFiniteSet(old) /\ Cardinality(old) \in Nat
      /\ Cardinality(PrefixesWith(px, p)) \in Nat
  BY OwnersFinite
<1>4. CASE p \in ToSet(list)
  <2>1. new = old \cup {s} /\ s \notin old
    BY <1>4 DEF SlotsWith
  <2>2. Cardinality(new) = Cardinality(old) + 1
    <3> HIDE DEF old, new
    <3> QED BY <1>3, <2>1, FS_AddElement
  <2>3. Mentions(list, p) = 1
    BY <1>4, MentionsFacts
  <2> HIDE DEF old, new
  <2> QED BY <1>1, <1>2, <1>3, <2>2, <2>3 DEF new
<1>5. CASE p \notin ToSet(list)
  <2>1. new = old
    BY <1>5 DEF SlotsWith
  <2>2. Mentions(list, p) = 0
    BY <1>5, MentionsFacts
  <2> HIDE DEF old, new
  <2> QED BY <1>1, <1>2, <1>3, <2>1, <2>2 DEF new
<1> QED BY <1>4, <1>5

\* Releasing a slot's table gives back as many references as the table mentions.
LEMMA TableLost ==
    ASSUME NEW refs \in [Page -> Nat], NEW pg, NEW px, Counted(refs, pg, px),
           NEW s \in Slot, DOMAIN pg = Slot, pg[s] \in Seq(Page), Injective(pg[s])
    PROVE  /\ \A p \in Page : Mentions(pg[s], p) <= refs[p]
           /\ Counted(Released(refs, pg[s]), [pg EXCEPT ![s] = <<>>], px)
<1> DEFINE new(p) == SlotsWith([pg EXCEPT ![s] = <<>>], p)
<1>1. ASSUME NEW p \in Page
      PROVE  /\ Mentions(pg[s], p) <= refs[p]
             /\ refs[p] - Mentions(pg[s], p) =
                    Cardinality(new(p)) + Cardinality(PrefixesWith(px, p))
  <2> DEFINE old == SlotsWith(pg, p)
  <2>1. refs[p] = Cardinality(old) + Cardinality(PrefixesWith(px, p))
    BY DEF Counted
  <2>2. /\ IsFiniteSet(old) /\ Cardinality(old) \in Nat
        /\ Cardinality(PrefixesWith(px, p)) \in Nat
    BY OwnersFinite
  <2>3. ToSet(<<>>) = {}
    BY DEF ToSet
  <2>4. IsFiniteSet(new(p)) /\ Cardinality(new(p)) \in Nat
    BY OwnersFinite
  <2>5. CASE p \in ToSet(pg[s])
    <3>1. new(p) = old \ {s} /\ s \in old
      BY <2>3, <2>5 DEF SlotsWith
    <3>2. Cardinality(new(p)) = Cardinality(old) - 1
      <4> HIDE DEF old, new
      <4> QED BY <2>2, <3>1, FS_RemoveElement
    <3>3. Mentions(pg[s], p) = 1
      BY <2>5, MentionsFacts
    <3> HIDE DEF old, new
    <3> QED BY <2>1, <2>2, <2>4, <3>2, <3>3
  <2>6. CASE p \notin ToSet(pg[s])
    <3>1. new(p) = old
      BY <2>3, <2>6 DEF SlotsWith
    <3>2. Mentions(pg[s], p) = 0
      BY <2>6, MentionsFacts
    <3> HIDE DEF old, new
    <3> QED BY <2>1, <2>2, <3>1, <3>2
  <2> QED BY <2>5, <2>6
<1>2. \A p \in Page : Released(refs, pg[s])[p] = refs[p] - Mentions(pg[s], p)
  BY DEF Released
<1> QED BY <1>1, <1>2 DEF Counted

\* A retained prefix accounts for the references it adds.
LEMMA PrefixGained ==
    ASSUME NEW refs \in [Page -> Nat], NEW pg, NEW px, Counted(refs, pg, px),
           NEW h \in Handle, DOMAIN px = Handle, ~px[h].live,
           NEW e, e.live, e.pages \in Seq(Page), Injective(e.pages)
    PROVE  Counted(AddTo(refs, e.pages), pg, [px EXCEPT ![h] = e])
<1> SUFFICES ASSUME NEW p \in Page
             PROVE  AddTo(refs, e.pages)[p] =
                        Cardinality(SlotsWith(pg, p))
                        + Cardinality(PrefixesWith([px EXCEPT ![h] = e], p))
  BY DEF Counted
<1> DEFINE old == PrefixesWith(px, p)
           new == PrefixesWith([px EXCEPT ![h] = e], p)
<1>1. AddTo(refs, e.pages)[p] = refs[p] + Mentions(e.pages, p)
  BY AddFacts
<1>2. refs[p] = Cardinality(SlotsWith(pg, p)) + Cardinality(old)
  BY DEF Counted
<1>3. /\ IsFiniteSet(old) /\ Cardinality(old) \in Nat
      /\ Cardinality(SlotsWith(pg, p)) \in Nat
  BY OwnersFinite
<1>4. CASE p \in ToSet(e.pages)
  <2>1. new = old \cup {h} /\ h \notin old
    BY <1>4 DEF PrefixesWith
  <2>2. Cardinality(new) = Cardinality(old) + 1
    <3> HIDE DEF old, new
    <3> QED BY <1>3, <2>1, FS_AddElement
  <2>3. Mentions(e.pages, p) = 1
    BY <1>4, MentionsFacts
  <2> HIDE DEF old, new
  <2> QED BY <1>1, <1>2, <1>3, <2>2, <2>3 DEF new
<1>5. CASE p \notin ToSet(e.pages)
  <2>1. new = old
    BY <1>5 DEF PrefixesWith
  <2>2. Mentions(e.pages, p) = 0
    BY <1>5, MentionsFacts
  <2> HIDE DEF old, new
  <2> QED BY <1>1, <1>2, <1>3, <2>1, <2>2 DEF new
<1> QED BY <1>4, <1>5

\* Dropping a prefix gives back as many references as the prefix mentions.
LEMMA PrefixLost ==
    ASSUME NEW refs \in [Page -> Nat], NEW pg, NEW px, Counted(refs, pg, px),
           NEW h \in Handle, DOMAIN px = Handle, px[h].live,
           px[h].pages \in Seq(Page), Injective(px[h].pages)
    PROVE  /\ \A p \in Page : Mentions(px[h].pages, p) <= refs[p]
           /\ Counted(Released(refs, px[h].pages), pg, [px EXCEPT ![h] = NoPrefix])
<1> DEFINE new(p) == PrefixesWith([px EXCEPT ![h] = NoPrefix], p)
<1>1. ASSUME NEW p \in Page
      PROVE  /\ Mentions(px[h].pages, p) <= refs[p]
             /\ refs[p] - Mentions(px[h].pages, p) =
                    Cardinality(SlotsWith(pg, p)) + Cardinality(new(p))
  <2> DEFINE old == PrefixesWith(px, p)
  <2>1. refs[p] = Cardinality(SlotsWith(pg, p)) + Cardinality(old)
    BY DEF Counted
  <2>2. /\ IsFiniteSet(old) /\ Cardinality(old) \in Nat
        /\ Cardinality(SlotsWith(pg, p)) \in Nat
    BY OwnersFinite
  <2>3. ~NoPrefix.live
    BY DEF NoPrefix
  <2>4. IsFiniteSet(new(p)) /\ Cardinality(new(p)) \in Nat
    BY OwnersFinite
  <2>5. CASE p \in ToSet(px[h].pages)
    <3>1. new(p) = old \ {h} /\ h \in old
      BY <2>3, <2>5 DEF PrefixesWith
    <3>2. Cardinality(new(p)) = Cardinality(old) - 1
      <4> HIDE DEF old, new
      <4> QED BY <2>2, <3>1, FS_RemoveElement
    <3>3. Mentions(px[h].pages, p) = 1
      BY <2>5, MentionsFacts
    <3> HIDE DEF old, new
    <3> QED BY <2>1, <2>2, <2>4, <3>2, <3>3
  <2>6. CASE p \notin ToSet(px[h].pages)
    <3>1. new(p) = old
      BY <2>3, <2>6 DEF PrefixesWith
    <3>2. Mentions(px[h].pages, p) = 0
      BY <2>6, MentionsFacts
    <3> HIDE DEF old, new
    <3> QED BY <2>1, <2>2, <3>1, <3>2
  <2> QED BY <2>5, <2>6
<1>2. \A p \in Page : Released(refs, px[h].pages)[p] = refs[p] - Mentions(px[h].pages, p)
  BY DEF Released
<1> QED BY <1>1, <1>2 DEF Counted

-----------------------------------------------------------------------------
(* What each operation does to the pool. *)

\* The pool's account reads of the plans only what they claim.
LEMMA PoolSameClaims ==
    ASSUME NEW fr, NEW refs, NEW pl, Pool(fr, refs, pl),
           NEW new, \A l \in Lane : Claimed(new[l]) = Claimed(pl[l])
    PROVE  Pool(fr, refs, new)
  BY DEF Pool

\* Releasing a list of pages frees those nobody refers to any more, and each of them once.
LEMMA PoolRelease ==
    ASSUME NEW fr, NEW refs, NEW pl, Pool(fr, refs, pl), NEW list \in Seq(Page),
           \A p \in Page : Mentions(list, p) <= refs[p]
    PROVE  Pool(fr \o Freed(refs, list), Released(refs, list), pl)
<1> DEFINE left == Released(refs, list)
           back == Freed(refs, list)
<1>1. /\ refs \in [Page -> Nat] /\ fr \in Seq(Page) /\ Injective(fr)
      /\ \A p \in Page : refs[p] = 0 <=> p \in ToSet(fr) \/ \E l \in Lane : p \in Claimed(pl[l])
  BY DEF Pool
<1>2. /\ left \in [Page -> Nat] /\ \A p \in Page : left[p] = refs[p] - Mentions(list, p)
      /\ back \in Seq(Page) /\ Injective(back)
      /\ ToSet(back) = {p \in ToSet(list) : left[p] = 0}
  BY <1>1, ReleaseFacts
<1>3. \A p \in Page : /\ Mentions(list, p) \in Nat /\ refs[p] \in Nat
                      /\ p \notin ToSet(list) <=> Mentions(list, p) = 0
  BY <1>1, MentionsFacts
<1>4. ToSet(back) \subseteq Page /\ ToSet(list) \subseteq Page
  BY <1>2, SeqSet
<1> HIDE DEF left, back
<1>5. \A p \in ToSet(back) : refs[p] # 0
  <2> SUFFICES ASSUME NEW p \in ToSet(back) PROVE refs[p] # 0
    OBVIOUS
  <2>1. p \in Page /\ Mentions(list, p) # 0
    BY <1>2, <1>3, <1>4
  <2> QED BY <1>3, <2>1
<1>6. ToSet(fr) \cap ToSet(back) = {}
  BY <1>1, <1>4, <1>5
<1>7. /\ fr \o back \in Seq(Page) /\ Injective(fr \o back)
      /\ ToSet(fr \o back) = ToSet(fr) \cup ToSet(back)
  BY <1>1, <1>2, <1>6, ConcatFacts
<1>8. \A p \in Page : left[p] = 0 <=>
          p \in ToSet(fr \o back) \/ \E l \in Lane : p \in Claimed(pl[l])
  <2> SUFFICES ASSUME NEW p \in Page
               PROVE  left[p] = 0 <=>
                          p \in ToSet(fr \o back) \/ \E l \in Lane : p \in Claimed(pl[l])
    OBVIOUS
  <2>1. CASE p \in ToSet(list)
    <3>1. refs[p] # 0
      BY <1>3, <2>1
    <3> QED BY <1>1, <1>2, <1>7, <2>1, <3>1
  <2>2. CASE p \notin ToSet(list)
    <3>1. left[p] = refs[p]
      BY <1>2, <1>3, <2>2
    <3> QED BY <1>1, <1>2, <1>7, <2>2, <3>1
  <2> QED BY <2>1, <2>2
<1>9. \A l \in Lane : ToSet(fr \o back) \cap Claimed(pl[l]) = {}
  BY <1>1, <1>4, <1>5, <1>7 DEF Pool
<1> QED BY <1>2, <1>7, <1>8, <1>9 DEF Pool, left, back

\* Owned pages get another owner.
LEMMA PoolShare ==
    ASSUME NEW fr, NEW refs, NEW pl, Pool(fr, refs, pl), NEW list \in Seq(Page),
           \A p \in ToSet(list) : refs[p] # 0
    PROVE  Pool(fr, AddTo(refs, list), pl)
<1>1. /\ refs \in [Page -> Nat]
      /\ \A p \in Page : refs[p] = 0 <=> p \in ToSet(fr) \/ \E l \in Lane : p \in Claimed(pl[l])
  BY DEF Pool
<1>2. /\ AddTo(refs, list) \in [Page -> Nat]
      /\ \A p \in Page : AddTo(refs, list)[p] = refs[p] + Mentions(list, p)
  BY <1>1, AddFacts
<1>3. \A p \in Page : /\ Mentions(list, p) \in Nat /\ refs[p] \in Nat
                      /\ p \notin ToSet(list) <=> Mentions(list, p) = 0
  BY <1>1, MentionsFacts
<1>4. \A p \in Page : AddTo(refs, list)[p] = 0 <=> refs[p] = 0
  BY <1>2, <1>3
<1> QED BY <1>1, <1>2, <1>4 DEF Pool

\* The pages claimed by one lane and by the others.
LEMMA OtherClaims ==
    ASSUME NEW pl, NEW l \in Lane
    PROVE  \A p : (\E m \in Lane : p \in Claimed(pl[m])) <=>
                  p \in Claimed(pl[l]) \/ \E m \in Lane \ {l} : p \in Claimed(pl[m])
  OBVIOUS

\* The end of the free list moves to a transaction.
LEMMA PoolTake ==
    ASSUME NEW fr, NEW refs, NEW pl, Pool(fr, refs, pl), DOMAIN pl = Lane,
           NEW k \in 0..Len(fr), NEW l \in Lane, Claimed(pl[l]) = {},
           NEW q, Claimed(q) = ToSet(SubSeq(fr, k + 1, Len(fr)))
    PROVE  Pool(SubSeq(fr, 1, k), refs, [pl EXCEPT ![l] = q])
<1> DEFINE a == SubSeq(fr, 1, k)
           b == SubSeq(fr, k + 1, Len(fr))
           new == [pl EXCEPT ![l] = q]
<1>1. /\ fr \in Seq(Page) /\ Injective(fr) /\ refs \in [Page -> Nat]
      /\ \A m \in Lane : ToSet(fr) \cap Claimed(pl[m]) = {}
      /\ \A m \in Lane : Claimed(pl[m]) \subseteq Page
      /\ \A m, n \in Lane : m # n => Claimed(pl[m]) \cap Claimed(pl[n]) = {}
      /\ \A p \in Page : refs[p] = 0 <=> p \in ToSet(fr) \/ \E m \in Lane : p \in Claimed(pl[m])
  BY DEF Pool
<1>2. /\ a \in Seq(Page) /\ b \in Seq(Page)
      /\ ToSet(fr) = ToSet(a) \cup ToSet(b)
      /\ Injective(a) /\ ToSet(a) \cap ToSet(b) = {}
  BY <1>1, CutFacts
<1>3. ToSet(b) \subseteq Page
  BY <1>2, SeqSet
<1>4. /\ Claimed(new[l]) = ToSet(b)
      /\ \A m \in Lane : m # l => Claimed(new[m]) = Claimed(pl[m])
  OBVIOUS
<1> HIDE DEF a, b, new
<1>8. \A p : /\ (\E m \in Lane : p \in Claimed(pl[m])) <=>
                   \E m \in Lane \ {l} : p \in Claimed(pl[m])
             /\ (\E m \in Lane : p \in Claimed(new[m])) <=>
                   p \in ToSet(b) \/ \E m \in Lane \ {l} : p \in Claimed(pl[m])
  BY <1>4, OtherClaims
<1>5. \A p \in Page : refs[p] = 0 <=> p \in ToSet(a) \/ \E m \in Lane : p \in Claimed(new[m])
  BY <1>1, <1>2, <1>8
<1>6. \A m \in Lane : ToSet(a) \cap Claimed(new[m]) = {} /\ Claimed(new[m]) \subseteq Page
  BY <1>1, <1>2, <1>3, <1>4
<1>7. \A m, n \in Lane : m # n => Claimed(new[m]) \cap Claimed(new[n]) = {}
  <2> SUFFICES ASSUME NEW m \in Lane, NEW n \in Lane, m # n
               PROVE  Claimed(new[m]) \cap Claimed(new[n]) = {}
    OBVIOUS
  <2>1. CASE m = l
    BY <1>1, <1>2, <1>4, <2>1
  <2>2. CASE n = l
    BY <1>1, <1>2, <1>4, <2>2
  <2>3. CASE m # l /\ n # l
    BY <1>1, <1>4, <2>3
  <2> QED BY <2>1, <2>2, <2>3
<1> QED BY <1>1, <1>2, <1>5, <1>6, <1>7 DEF Pool, a, new

\* The end of the free list gets owners.
LEMMA PoolAllocate ==
    ASSUME NEW fr, NEW refs, NEW pl, Pool(fr, refs, pl), NEW k \in 0..Len(fr)
    PROVE  Pool(SubSeq(fr, 1, k), AddTo(refs, SubSeq(fr, k + 1, Len(fr))), pl)
<1> DEFINE a == SubSeq(fr, 1, k)
           b == SubSeq(fr, k + 1, Len(fr))
           more == AddTo(refs, b)
<1>1. /\ fr \in Seq(Page) /\ Injective(fr) /\ refs \in [Page -> Nat]
      /\ \A m \in Lane : ToSet(fr) \cap Claimed(pl[m]) = {}
      /\ \A p \in Page : refs[p] = 0 <=> p \in ToSet(fr) \/ \E m \in Lane : p \in Claimed(pl[m])
  BY DEF Pool
<1>2. /\ a \in Seq(Page) /\ b \in Seq(Page)
      /\ ToSet(fr) = ToSet(a) \cup ToSet(b)
      /\ Injective(a) /\ ToSet(a) \cap ToSet(b) = {}
  BY <1>1, CutFacts
<1>3. /\ more \in [Page -> Nat]
      /\ \A p \in Page : more[p] = refs[p] + Mentions(b, p)
  <2> HIDE DEF b
  <2> QED BY <1>1, <1>2, AddFacts
<1>4. \A p \in Page : /\ Mentions(b, p) \in Nat /\ refs[p] \in Nat
                      /\ p \notin ToSet(b) <=> Mentions(b, p) = 0
  BY <1>1, <1>2, MentionsFacts
<1> HIDE DEF a, b, more
<1>5. \A p \in Page : more[p] = 0 <=> refs[p] = 0 /\ p \notin ToSet(b)
  BY <1>3, <1>4
<1>6. \A p \in Page : more[p] = 0 <=> p \in ToSet(a) \/ \E m \in Lane : p \in Claimed(pl[m])
  BY <1>1, <1>2, <1>5
<1>7. \A m \in Lane : ToSet(a) \cap Claimed(pl[m]) = {}
  BY <1>1, <1>2
<1> QED BY <1>2, <1>3, <1>6, <1>7 DEF Pool, a, b, more

\* A transaction's pages get an owner each.
LEMMA PoolPublish ==
    ASSUME NEW fr, NEW refs, NEW pl, Pool(fr, refs, pl), DOMAIN pl = Lane,
           NEW l \in Lane, NEW list \in Seq(Page), Claimed(pl[l]) = ToSet(list)
    PROVE  Pool(fr, AddTo(refs, list), [pl EXCEPT ![l] = NoPlan])
<1> DEFINE new == [pl EXCEPT ![l] = NoPlan]
           more == AddTo(refs, list)
<1>1. /\ fr \in Seq(Page) /\ Injective(fr) /\ refs \in [Page -> Nat]
      /\ \A m \in Lane : ToSet(fr) \cap Claimed(pl[m]) = {}
      /\ \A m, n \in Lane : m # n => Claimed(pl[m]) \cap Claimed(pl[n]) = {}
      /\ \A p \in Page : refs[p] = 0 <=> p \in ToSet(fr) \/ \E m \in Lane : p \in Claimed(pl[m])
      /\ \A m \in Lane : Claimed(pl[m]) \subseteq Page
  BY DEF Pool
<1>2. /\ more \in [Page -> Nat]
      /\ \A p \in Page : more[p] = refs[p] + Mentions(list, p)
  <2>1. refs \in [Page -> Nat]
    BY <1>1
  <2> QED BY ONLY <2>1, list \in Seq(Page), AddFacts DEF more
<1>3. \A p \in Page : /\ Mentions(list, p) \in Nat /\ refs[p] \in Nat
                      /\ p \notin ToSet(list) <=> Mentions(list, p) = 0
  BY <1>1, MentionsFacts
<1>4. Claimed(new[l]) = {} /\ \A m \in Lane : m # l => Claimed(new[m]) = Claimed(pl[m])
  BY DEF Claimed, NoPlan
<1> HIDE DEF new, more
<1>9. \A p : /\ (\E m \in Lane : p \in Claimed(pl[m])) <=>
                   p \in ToSet(list) \/ \E m \in Lane \ {l} : p \in Claimed(pl[m])
             /\ (\E m \in Lane : p \in Claimed(new[m])) <=>
                   \E m \in Lane \ {l} : p \in Claimed(pl[m])
  BY <1>4, OtherClaims
<1>5. \A p \in Page : more[p] = 0 <=> refs[p] = 0 /\ p \notin ToSet(list)
  BY <1>2, <1>3
<1>6. \A p \in Page : more[p] = 0 <=> p \in ToSet(fr) \/ \E m \in Lane : p \in Claimed(new[m])
  <2> SUFFICES ASSUME NEW p \in Page
               PROVE  more[p] = 0 <=> p \in ToSet(fr) \/ \E m \in Lane : p \in Claimed(new[m])
    OBVIOUS
  <2>1. p \in ToSet(list) => ~ \E m \in Lane \ {l} : p \in Claimed(pl[m])
    BY <1>1
  <2>2. p \in ToSet(list) => p \notin ToSet(fr)
    BY <1>1
  <2> QED BY <1>1, <1>5, <1>9, <2>1, <2>2
<1>7. \A m \in Lane : ToSet(fr) \cap Claimed(new[m]) = {} /\ Claimed(new[m]) \subseteq Page
  BY <1>1, <1>4
<1>8. \A m, n \in Lane : m # n => Claimed(new[m]) \cap Claimed(new[n]) = {}
  BY <1>1, <1>4
<1> QED BY <1>1, <1>2, <1>6, <1>7, <1>8 DEF Pool, new, more

\* A transaction's pages go back to the free list.
LEMMA PoolReturn ==
    ASSUME NEW fr, NEW refs, NEW pl, Pool(fr, refs, pl), DOMAIN pl = Lane,
           NEW l \in Lane, NEW list \in Seq(Page), Claimed(pl[l]) = ToSet(list), Injective(list)
    PROVE  Pool(fr \o list, refs, [pl EXCEPT ![l] = NoPlan])
<1> DEFINE new == [pl EXCEPT ![l] = NoPlan]
<1>1. /\ fr \in Seq(Page) /\ Injective(fr) /\ refs \in [Page -> Nat]
      /\ \A m \in Lane : ToSet(fr) \cap Claimed(pl[m]) = {}
      /\ \A m, n \in Lane : m # n => Claimed(pl[m]) \cap Claimed(pl[n]) = {}
      /\ \A p \in Page : refs[p] = 0 <=> p \in ToSet(fr) \/ \E m \in Lane : p \in Claimed(pl[m])
      /\ \A m \in Lane : Claimed(pl[m]) \subseteq Page
  BY DEF Pool
<1>2. /\ fr \o list \in Seq(Page) /\ Injective(fr \o list)
      /\ ToSet(fr \o list) = ToSet(fr) \cup ToSet(list)
  BY <1>1, ConcatFacts
<1>4. Claimed(new[l]) = {} /\ \A m \in Lane : m # l => Claimed(new[m]) = Claimed(pl[m])
  BY DEF Claimed, NoPlan
<1> HIDE DEF new
<1>9. \A p : /\ (\E m \in Lane : p \in Claimed(pl[m])) <=>
                   p \in ToSet(list) \/ \E m \in Lane \ {l} : p \in Claimed(pl[m])
             /\ (\E m \in Lane : p \in Claimed(new[m])) <=>
                   \E m \in Lane \ {l} : p \in Claimed(pl[m])
  BY <1>4, OtherClaims
<1>6. \A p \in Page :
          refs[p] = 0 <=> p \in ToSet(fr \o list) \/ \E m \in Lane : p \in Claimed(new[m])
  BY <1>1, <1>2, <1>9
<1>7. \A m \in Lane : ToSet(fr \o list) \cap Claimed(new[m]) = {} /\ Claimed(new[m]) \subseteq Page
  <2> SUFFICES ASSUME NEW m \in Lane
               PROVE  ToSet(fr \o list) \cap Claimed(new[m]) = {} /\ Claimed(new[m]) \subseteq Page
    OBVIOUS
  <2>1. CASE m = l
    BY <1>4, <2>1
  <2>2. CASE m # l
    BY <1>1, <1>2, <1>4, <2>2
  <2> QED BY <2>1, <2>2
<1>8. \A m, n \in Lane : m # n => Claimed(new[m]) \cap Claimed(new[n]) = {}
  BY <1>1, <1>4
<1> QED BY <1>1, <1>2, <1>6, <1>7, <1>8 DEF Pool, new

-----------------------------------------------------------------------------
(* The parts of a transaction. *)

\* The append a plan holds for a slot is unique and has the slot's type.
LEMMA AppendOfFacts ==
    ASSUME NEW plan, PlanType(plan), NEW s \in SlotsOf(plan.appends)
    PROVE  /\ AppendOf(plan, s) \in [slot : Slot, new : Rows, value : Value]
           /\ AppendOf(plan, s).slot = s
           /\ s \in Slot
           /\ \A i \in DOMAIN plan.appends :
                 plan.appends[i].slot = s => plan.appends[i] = AppendOf(plan, s)
           /\ \E i \in DOMAIN plan.appends : plan.appends[i] = AppendOf(plan, s)
<1> DEFINE works == {plan.appends[n] : n \in DOMAIN plan.appends}
<1>1. /\ \A i \in DOMAIN plan.appends :
            plan.appends[i] \in [slot : Slot, new : Rows, value : Value]
      /\ \A i, j \in DOMAIN plan.appends :
            plan.appends[i].slot = plan.appends[j].slot => i = j
  <2>1. plan.appends \in Seq([slot : Slot, new : Rows, value : Value])
    BY DEF PlanType
  <2>2. \A i \in DOMAIN plan.appends :
            plan.appends[i] \in [slot : Slot, new : Rows, value : Value]
    BY <2>1, SequenceFacts
  <2>3. \A i, j \in DOMAIN plan.appends :
            plan.appends[i].slot = plan.appends[j].slot => i = j
    BY DEF PlanType
  <2> QED BY <2>2, <2>3
<1>2. PICK i \in DOMAIN plan.appends : plan.appends[i].slot = s
  BY DEF SlotsOf
<1>3. plan.appends[i] \in works
  OBVIOUS
<1>4. AppendOf(plan, s) \in works /\ AppendOf(plan, s).slot = s
  <2>1. AppendOf(plan, s) = CHOOSE a \in works : a.slot = s
    BY DEF AppendOf
  <2> HIDE DEF works
  <2> QED BY <1>2, <1>3, <2>1
<1>5. PICK j \in DOMAIN plan.appends : AppendOf(plan, s) = plan.appends[j]
  BY <1>4
<1>6. \A n \in DOMAIN plan.appends :
          plan.appends[n].slot = s => plan.appends[n] = AppendOf(plan, s)
  BY <1>1, <1>4, <1>5
<1> QED BY <1>1, <1>4, <1>5, <1>6

\* The page a plan replaces for a slot is unique, and is the slot's last one.
LEMMA MoveFacts ==
    ASSUME NEW plan, PlanType(plan), NEW s, Moves(plan, s)
    PROVE  /\ Move(plan, s) \in plan.replacements
           /\ Move(plan, s).slot = s
           /\ s \in SlotsOf(plan.appends)
           /\ Move(plan, s).logical \in Nat
           /\ Move(plan, s).source \in Page /\ Move(plan, s).destination \in Page
           /\ \A m \in plan.replacements : m.slot = s => m = Move(plan, s)
<1>1. Move(plan, s) \in plan.replacements /\ Move(plan, s).slot = s
  BY DEF Moves, Move
<1>2. plan.replacements \subseteq
          [slot : SlotsOf(plan.appends), logical : Nat, source : Page, destination : Page]
  BY DEF PlanType
<1>3. Move(plan, s) \in
          [slot : SlotsOf(plan.appends), logical : Nat, source : Page, destination : Page]
  BY <1>1, <1>2
<1>4. \A m \in plan.replacements : m.slot = s => m = Move(plan, s)
  BY <1>1 DEF PlanType
<1> QED BY <1>1, <1>3, <1>4

\* The slot that copies its tail does so on the last page of its table.
LEMMA MoveFits ==
    ASSUME NEW plan, NEW T, NEW E, PlanType(plan), PlanFits(plan, T, E),
           NEW s, Moves(plan, s), Table(T[s], E[s])
    PROVE  /\ Move(plan, s).logical = E[s] \div PAGE_ROWS + 1
           /\ Move(plan, s).logical = Len(T[s]) /\ Len(T[s]) \in 1..Len(T[s])
           /\ E[s] % PAGE_ROWS # 0
           /\ AppendOf(plan, s).new > E[s]
           /\ Move(plan, s).source = T[s][Len(T[s])]
<1>1. Move(plan, s) \in plan.replacements /\ Move(plan, s).slot = s
  BY MoveFacts
<1>2. /\ E[s] % PAGE_ROWS # 0
      /\ AppendOf(plan, s).new > E[s]
      /\ Move(plan, s).logical = E[s] \div PAGE_ROWS + 1
      /\ Move(plan, s).source = T[s][Move(plan, s).logical]
  BY <1>1 DEF PlanFits
<1>3. E[s] \in Nat /\ Len(T[s]) = PagesFor(E[s]) /\ PagesFor(E[s]) \in Nat
  BY PageShape, PagesOfRows DEF Table, Rows
<1>4. PagesFor(E[s]) = E[s] \div PAGE_ROWS + 1 /\ E[s] \div PAGE_ROWS \in Nat
  BY <1>2, <1>3, PagesOfRows, RowParts
<1> QED BY <1>2, <1>3, <1>4

\* The table a slot is to have: a page for each row, none twice.
LEMMA NewTableFacts ==
    ASSUME NEW plan, NEW T, NEW E, PlanType(plan), PlanFits(plan, T, E), PlanClaims(plan, T),
           NEW s \in SlotsOf(plan.appends), Table(T[s], E[s]),
           ToSet(T[s]) \cap ToSet(plan.claimed) = {}
    PROVE  /\ Table(NewTable(plan, s, T[s]), AppendOf(plan, s).new)
           /\ Len(T[s]) \in Nat /\ Len(T[s]) <= PagesFor(AppendOf(plan, s).new)
           /\ E[s] \in Nat /\ AppendOf(plan, s).new \in Nat
           /\ E[s] <= AppendOf(plan, s).new
           /\ \A k \in Places(plan, s) :
                 /\ NewTable(plan, s, T[s])[k] = NewPage(plan, s, T[s], k)
                 /\ NewPage(plan, s, T[s], k) \in Page
                 /\ ~IsNew(plan, s, T[s], k) => /\ k \in 1..Len(T[s])
                                                /\ NewPage(plan, s, T[s], k) = T[s][k]
<1> DEFINE n == AppendOf(plan, s).new
           list == T[s]
           t == NewTable(plan, s, list)
<1>1. /\ E[s] \in Nat /\ list \in Seq(Page) /\ Injective(list) /\ Len(list) = PagesFor(E[s])
      /\ n \in Rows /\ n \in Nat /\ n >= E[s]
  BY AppendOfFacts, PageShape DEF Table, Rows, PlanFits
<1>2. Len(list) \in Nat /\ DOMAIN list = 1..Len(list) /\ Len(list) <= PagesFor(n) /\ PagesFor(n) \in Nat
  BY <1>1, RowsHavePages, PagesOfRows
<1>3. t = [k \in 1..PagesFor(n) |-> NewPage(plan, s, list, k)]
  BY DEF NewTable
<1>4. \A k \in 1..PagesFor(n) : IsNew(plan, s, list, k) => NewPage(plan, s, list, k) \in ToSet(plan.claimed)
  BY DEF PlanClaims, Places
<1>5. \A k, j \in 1..PagesFor(n) :
          IsNew(plan, s, list, k) /\ IsNew(plan, s, list, j)
              /\ NewPage(plan, s, list, k) = NewPage(plan, s, list, j) => k = j
  BY DEF PlanClaims, Places
<1> HIDE DEF t, n, list
<1>6. \A k \in 1..PagesFor(n) : ~IsNew(plan, s, list, k) =>
          k \in 1..Len(list) /\ NewPage(plan, s, list, k) = list[k]
  BY <1>2 DEF IsNew, NewPage
<1>7. ToSet(plan.claimed) \subseteq Page
  BY SeqSet DEF PlanType
<1>8. \A k \in 1..Len(list) : list[k] \in Page /\ list[k] \in ToSet(list)
  BY <1>1, <1>2, SequenceFacts
<1>9. ToSet(list) \cap ToSet(plan.claimed) = {}
  BY DEF list
<1>10. \A k \in 1..PagesFor(n) : NewPage(plan, s, list, k) \in Page
  BY <1>4, <1>6, <1>7, <1>8
<1>11. t \in Seq(Page) /\ Len(t) = PagesFor(n)
  <2>1. t \in [1..PagesFor(n) -> Page]
    BY <1>3, <1>10
  <2> QED BY <1>2, <2>1
<1>12. Injective(t)
  <2>1. ASSUME NEW k \in 1..PagesFor(n), NEW j \in 1..PagesFor(n),
               NewPage(plan, s, list, k) = NewPage(plan, s, list, j)
        PROVE  k = j
    <3>1. CASE IsNew(plan, s, list, k) /\ IsNew(plan, s, list, j)
      BY <1>5, <2>1, <3>1
    <3>2. CASE ~IsNew(plan, s, list, k) /\ ~IsNew(plan, s, list, j)
      BY <1>1, <1>2, <1>6, <2>1, <3>2 DEF Injective
    <3>3. CASE IsNew(plan, s, list, k) /\ ~IsNew(plan, s, list, j)
      BY <1>4, <1>6, <1>8, <1>9, <2>1, <3>3
    <3>4. CASE ~IsNew(plan, s, list, k) /\ IsNew(plan, s, list, j)
      BY <1>4, <1>6, <1>8, <1>9, <2>1, <3>4
    <3> QED BY <3>1, <3>2, <3>3, <3>4
  <2>3. ASSUME NEW k \in 1..PagesFor(n), NEW j \in 1..PagesFor(n), t[k] = t[j]
        PROVE  k = j
    <3>1. t[k] = NewPage(plan, s, list, k) /\ t[j] = NewPage(plan, s, list, j)
      BY <1>3
    <3> QED BY <2>1, <2>3, <3>1
  <2> QED BY <1>11, <2>3 DEF Injective
<1>13. Table(t, n)
  BY <1>1, <1>11, <1>12 DEF Table
<1> QED BY <1>1, <1>2, <1>3, <1>6, <1>10, <1>13 DEF t, n, list, Places

\* A transaction whose slots keep their tables goes on as it was.
LEMMA PlanKept ==
    ASSUME NEW plan, NEW T, NEW E, PlanType(plan), PlanFits(plan, T, E), PlanClaims(plan, T),
           NEW next, DOMAIN next = DOMAIN plan,
           next.stage \in {"reserved", "copied", "written"},
           next.appends = plan.appends, next.replacements = plan.replacements,
           next.additions = plan.additions, next.claimed = plan.claimed,
           NEW U, NEW F, \A s \in SlotsOf(plan.appends) : U[s] = T[s] /\ F[s] = E[s]
    PROVE  PlanType(next) /\ PlanFits(next, U, F) /\ PlanClaims(next, U)
<1>1. PlanType(next)
  BY DEF PlanType
<1>2. /\ \A s : AppendOf(next, s) = AppendOf(plan, s) /\ Places(next, s) = Places(plan, s)
      /\ \A s : Moves(next, s) <=> Moves(plan, s)
      /\ \A s : Move(next, s) = Move(plan, s)
  BY DEF AppendOf, Places, Moves, Move
<1>3. \A s, list, k : /\ IsNew(next, s, list, k) <=> IsNew(plan, s, list, k)
                      /\ NewPage(next, s, list, k) = NewPage(plan, s, list, k)
  BY <1>2 DEF IsNew, NewPage
<1>4. \A m \in plan.replacements : m.slot \in SlotsOf(plan.appends)
  BY DEF PlanType
<1>5. PlanFits(next, U, F)
  BY <1>2, <1>4 DEF PlanFits
<1>6. PlanClaims(next, U)
  BY <1>2, <1>3 DEF PlanClaims
<1> QED BY <1>1, <1>5, <1>6

\* A page in a table or a prefix is neither free nor claimed.
LEMMA OwnedPages ==
    ASSUME NEW fr, NEW refs, NEW pg, NEW px, NEW pl,
           Counted(refs, pg, px), Pool(fr, refs, pl), NEW p \in Page,
           SlotsWith(pg, p) # {} \/ PrefixesWith(px, p) # {}
    PROVE  /\ refs[p] # 0
           /\ p \notin ToSet(fr)
           /\ \A l \in Lane : p \notin Claimed(pl[l])
<1> DEFINE a == SlotsWith(pg, p)
           b == PrefixesWith(px, p)
<1>1. /\ IsFiniteSet(a) /\ Cardinality(a) \in Nat /\ IsFiniteSet(b) /\ Cardinality(b) \in Nat
  BY OwnersFinite
<1>2. refs[p] = Cardinality(a) + Cardinality(b)
  BY DEF Counted
<1> HIDE DEF a, b
<1>3. Cardinality(a) # 0 \/ Cardinality(b) # 0
  BY <1>1, CountOne DEF a, b
<1>4. refs[p] # 0
  BY <1>1, <1>2, <1>3
<1> QED BY <1>4 DEF Pool

\* A page without a table or a prefix is free or claimed.
LEMMA UnownedPages ==
    ASSUME NEW refs, NEW pg, NEW px, Counted(refs, pg, px), NEW p \in Page, refs[p] = 0
    PROVE  SlotsWith(pg, p) = {} /\ PrefixesWith(px, p) = {}
<1> DEFINE a == SlotsWith(pg, p)
           b == PrefixesWith(px, p)
<1>1. /\ IsFiniteSet(a) /\ Cardinality(a) \in Nat /\ IsFiniteSet(b) /\ Cardinality(b) \in Nat
  BY OwnersFinite
<1>2. Cardinality(a) + Cardinality(b) = 0
  BY DEF Counted
<1> HIDE DEF a, b
<1>3. Cardinality(a) = 0 /\ Cardinality(b) = 0
  BY <1>1, <1>2
<1> QED BY <1>1, <1>3, CountOne DEF a, b

\* A row of a slot is written to the page the slot's table has after the plan.
LEMMA DestinationIs ==
    ASSUME NEW plan, PlanType(plan), NEW s, NEW r
    PROVE  Destination(plan, s, r) = NewPage(plan, s, pages[s], r \div PAGE_ROWS + 1)
<1> DEFINE k == r \div PAGE_ROWS + 1
           moved == {m \in plan.replacements : m.slot = s /\ m.logical = k}
<1>1. CASE Moves(plan, s) /\ Move(plan, s).logical = k
  <2>1. moved = {Move(plan, s)}
    BY <1>1, MoveFacts
  <2>2. (CHOOSE m \in moved : TRUE) = Move(plan, s)
    BY <2>1
  <2> QED BY <1>1, <2>1, <2>2 DEF Destination, NewPage
<1>2. CASE ~(Moves(plan, s) /\ Move(plan, s).logical = k)
  <2>1. moved = {}
    <3> SUFFICES ASSUME NEW m \in plan.replacements, m.slot = s, m.logical = k PROVE FALSE
      OBVIOUS
    <3>1. Moves(plan, s)
      BY DEF Moves
    <3>2. m = Move(plan, s)
      BY <3>1, MoveFacts
    <3> QED BY <1>2, <3>1, <3>2
  <2> QED BY <1>2, <2>1 DEF Destination, NewPage
<1> QED BY <1>1, <1>2

Shape ==
    /\ TablesInv
    /\ Counted(references, pages, prefixes)
    /\ Pool(free, references, plans)
    /\ WritingInv
    /\ PlansInv

\* No slot reads a page that a reservation has claimed.
LEMMA TablesApart ==
    ASSUME Shape, NEW l \in Lane, NEW s \in Slot
    PROVE  /\ ToSet(pages[s]) \cap Claimed(plans[l]) = {}
           /\ ToSet(pages[s]) \subseteq Page
           /\ pages[s] \in Seq(Page)
<1>1. pages[s] \in Seq(Page)
  BY DEF Shape, TablesInv
<1>2. ToSet(pages[s]) \subseteq Page
  BY <1>1, SeqSet
<1>3. ASSUME NEW p \in ToSet(pages[s]) PROVE p \notin Claimed(plans[l])
  <2>1. s \in SlotsWith(pages, p)
    BY DEF SlotsWith
  <2> QED BY <1>2, <2>1, OwnedPages DEF Shape
<1> QED BY <1>1, <1>2, <1>3

\* What the invariant says of a plan, in the form the steps below use.
LEMMA PlanFacts ==
    ASSUME Shape, NEW l \in Lane, plans[l].stage # "none"
    PROVE  LET plan == plans[l] IN
           /\ PlanType(plan) /\ PlanFits(plan, pages, rows) /\ PlanClaims(plan, pages)
           /\ PlanAlone(plan, pages, rows, prefixes)
           /\ SlotsIn(plan) = SlotsOf(plan.appends)
           /\ Claimed(plan) = ToSet(plan.claimed)
           /\ \A s \in SlotsOf(plan.appends) :
                 /\ s \in Slot /\ Table(pages[s], rows[s])
                 /\ ToSet(pages[s]) \cap ToSet(plan.claimed) = {}
<1>1. /\ PlanType(plans[l]) /\ PlanFits(plans[l], pages, rows) /\ PlanClaims(plans[l], pages)
      /\ PlanAlone(plans[l], pages, rows, prefixes)
  BY DEF Shape, PlansInv
<1>2. SlotsIn(plans[l]) = SlotsOf(plans[l].appends) /\ Claimed(plans[l]) = ToSet(plans[l].claimed)
  BY DEF SlotsIn, Claimed
<1>3. \A s \in SlotsOf(plans[l].appends) : s \in Slot
  BY <1>1, AppendOfFacts
<1>4. \A s \in Slot : Table(pages[s], rows[s])
  BY DEF Shape, TablesInv
<1> QED BY <1>1, <1>2, <1>3, <1>4, TablesApart

\* The rows a transaction stores go to pages nobody else reads or writes.
LEMMA StoredPages ==
    ASSUME Shape, NEW l \in Lane, plans[l].stage # "none",
           NEW s \in SlotsOf(plans[l].appends), NEW r \in Nat,
           rows[s] <= r, r < AppendOf(plans[l], s).new
    PROVE  LET k == r \div PAGE_ROWS + 1
               p == NewPage(plans[l], s, pages[s], k)
           IN
           /\ k \in Places(plans[l], s) /\ p \in Page
           /\ Destination(plans[l], s, r) = p
           /\ \A u \in SlotsOf(plans[l].appends) : \A j \in Places(plans[l], u) :
                 NewPage(plans[l], u, pages[u], j) = p => u = s /\ j = k
           /\ PrefixesWith(prefixes, p) = {}
           /\ \A u \in Slot \ SlotsOf(plans[l].appends) : p \notin ToSet(pages[u])
           /\ \A m \in Lane : m # l => p \notin Claimed(plans[m])
<1> DEFINE plan == plans[l]
           n == AppendOf(plan, s).new
           k == r \div PAGE_ROWS + 1
           p == NewPage(plan, s, pages[s], k)
<1>1. /\ PlanType(plan) /\ PlanFits(plan, pages, rows) /\ PlanClaims(plan, pages)
      /\ PlanAlone(plan, pages, rows, prefixes)
      /\ Claimed(plan) = ToSet(plan.claimed)
      /\ \A u \in SlotsOf(plan.appends) :
            /\ u \in Slot /\ Table(pages[u], rows[u])
            /\ ToSet(pages[u]) \cap ToSet(plan.claimed) = {}
  BY PlanFacts
<1> HIDE DEF plan
<1>2. \A u \in SlotsOf(plan.appends) :
          /\ Len(pages[u]) \in Nat
          /\ \A j \in Places(plan, u) :
                /\ NewPage(plan, u, pages[u], j) \in Page
                /\ ~IsNew(plan, u, pages[u], j) =>
                      j \in 1..Len(pages[u]) /\ NewPage(plan, u, pages[u], j) = pages[u][j]
  BY <1>1, NewTableFacts
<1>3. s \in SlotsOf(plan.appends) /\ rows[s] \in Nat /\ n \in Nat /\ rows[s] <= n /\ r < n
  BY <1>1, NewTableFacts DEF plan
<1>4. k \in Places(plan, s) /\ p \in Page
  <2>1. k \in Places(plan, s)
    BY <1>3, RowsHavePages DEF Places
  <2> QED BY <1>2, <1>3, <2>1
<1>5. Destination(plan, s, r) = p
  BY <1>1, DestinationIs
<1>6. \A u \in SlotsOf(plan.appends) : \A j \in Places(plan, u) :
          IsNew(plan, u, pages[u], j) => NewPage(plan, u, pages[u], j) \in ToSet(plan.claimed)
  BY <1>1 DEF PlanClaims
<1>7. \A u \in Slot : pages[u] \in Seq(Page) /\ Injective(pages[u])
  BY DEF Shape, TablesInv, Table
<1>8. \A u \in Slot : \A j \in 1..Len(pages[u]) : pages[u][j] \in ToSet(pages[u])
  BY <1>7, SequenceFacts
<1> HIDE DEF n, p
<1>9. CASE IsNew(plan, s, pages[s], k)
  <2>1. p \in ToSet(plan.claimed)
    BY <1>3, <1>4, <1>6, <1>9 DEF p
  <2>2. p \in Claimed(plans[l])
    BY <1>1, <2>1 DEF plan
  <2>3. SlotsWith(pages, p) = {} /\ PrefixesWith(prefixes, p) = {}
    BY <1>4, <2>2, OwnedPages DEF Shape
  <2>4. \A u \in Slot : p \notin ToSet(pages[u])
    BY <2>3 DEF SlotsWith
  <2>5. \A m \in Lane : m # l => p \notin Claimed(plans[m])
    BY <2>2 DEF Shape, Pool
  <2>6. ASSUME NEW u \in SlotsOf(plan.appends), NEW j \in Places(plan, u),
               NewPage(plan, u, pages[u], j) = p
        PROVE  u = s /\ j = k
    <3>1. IsNew(plan, u, pages[u], j)
      BY <1>1, <1>2, <1>8, <2>4, <2>6
    <3> QED BY <1>1, <1>3, <1>4, <1>9, <2>6, <3>1 DEF PlanClaims, p
  <2> QED BY <1>4, <1>5, <2>3, <2>4, <2>5, <2>6 DEF plan, p
<1>10. CASE ~IsNew(plan, s, pages[s], k)
  <2>1. k \in 1..Len(pages[s]) /\ p = pages[s][k]
    BY <1>2, <1>3, <1>4, <1>10 DEF p
  <2>2. /\ rows[s] \div PAGE_ROWS = r \div PAGE_ROWS
        /\ rows[s] % PAGE_ROWS # 0 /\ n > rows[s]
    <3>1. /\ r \div PAGE_ROWS \in Nat /\ rows[s] \div PAGE_ROWS \in Nat
          /\ rows[s] \div PAGE_ROWS <= r \div PAGE_ROWS
      BY <1>3, RowParts, RowsHavePages
    <3>2. Len(pages[s]) = PagesFor(rows[s])
      BY <1>1, <1>3 DEF Table
    <3>3. /\ rows[s] % PAGE_ROWS = 0 => PagesFor(rows[s]) = rows[s] \div PAGE_ROWS
          /\ rows[s] % PAGE_ROWS # 0 => PagesFor(rows[s]) = rows[s] \div PAGE_ROWS + 1
      BY <1>3, PagesOfRows
    <3>4. k = r \div PAGE_ROWS + 1 /\ k <= PagesFor(rows[s])
      BY <2>1, <3>2
    <3> HIDE DEF k
    <3> QED BY <1>3, <3>1, <3>3, <3>4
  <2>3. ~Moves(plan, s)
    <3> SUFFICES ASSUME Moves(plan, s) PROVE FALSE
      OBVIOUS
    <3>1. Move(plan, s).logical = k
      BY <1>1, <1>3, <2>2, MoveFits
    <3> QED BY <1>10, <3>1 DEF IsNew
  <2>4. /\ PrefixesWith(prefixes, p) = {}
        /\ \A u \in SlotsWith(pages, p) :
              u = s \/ (Moves(plan, u) /\ Move(plan, u).source = p)
    BY <1>1, <1>3, <2>1, <2>2, <2>3 DEF PlanAlone, n
  <2>5. \A u \in Slot \ SlotsOf(plan.appends) : p \notin ToSet(pages[u])
    <3> SUFFICES ASSUME NEW u \in Slot \ SlotsOf(plan.appends), p \in ToSet(pages[u]) PROVE FALSE
      OBVIOUS
    <3>1. Moves(plan, u)
      BY <1>3, <2>4 DEF SlotsWith
    <3> QED BY <1>1, <3>1, MoveFacts
  <2>6. p \in ToSet(pages[s])
    BY <1>1, <1>3, <1>8, <2>1
  <2>7. \A m \in Lane : p \notin Claimed(plans[m])
    <3>1. s \in Slot
      BY <1>1, <1>3
    <3> QED BY <2>6, <3>1, TablesApart
  <2>8. ASSUME NEW u \in SlotsOf(plan.appends), NEW j \in Places(plan, u),
               NewPage(plan, u, pages[u], j) = p
        PROVE  u = s /\ j = k
    <3>1. ~IsNew(plan, u, pages[u], j)
      BY <1>1, <1>6, <2>7, <2>8 DEF plan
    <3>2. j \in 1..Len(pages[u]) /\ p = pages[u][j]
      BY <1>2, <2>8, <3>1
    <3>3. u \in Slot /\ s \in Slot
      BY <1>1, <1>3
    <3>4. CASE u = s
      BY <1>7, <2>1, <3>2, <3>3, <3>4 DEF Injective
    <3>5. CASE u # s
      <4>1. Moves(plan, u) /\ Move(plan, u).source = p
        BY <1>8, <2>4, <3>2, <3>3, <3>5 DEF SlotsWith
      <4>2. /\ Move(plan, u).logical = Len(pages[u]) /\ Len(pages[u]) \in 1..Len(pages[u])
            /\ p = pages[u][Len(pages[u])]
        BY <1>1, <4>1, MoveFits
      <4>3. j = Len(pages[u])
        BY <1>7, <3>2, <3>3, <4>2 DEF Injective
      <4> QED BY <3>1, <4>1, <4>2, <4>3 DEF IsNew
    <3> QED BY <3>4, <3>5
  <2> QED BY <1>4, <1>5, <2>4, <2>5, <2>7, <2>8 DEF plan, p
<1> QED BY <1>9, <1>10

\* After a plan each page of a slot is one it had or one the plan claimed.
LEMMA PageComesFrom ==
    ASSUME Shape, NEW l \in Lane, plans[l].stage # "none",
           NEW s \in SlotsOf(plans[l].appends), NEW k \in Places(plans[l], s)
    PROVE  /\ NewPage(plans[l], s, pages[s], k) \in ToSet(pages[s]) \cup Claimed(plans[l])
           /\ NewPage(plans[l], s, pages[s], k) \in Page
           /\ NewTable(plans[l], s, pages[s])[k] = NewPage(plans[l], s, pages[s], k)
<1> DEFINE plan == plans[l]
<1>1. /\ PlanType(plan) /\ PlanFits(plan, pages, rows) /\ PlanClaims(plan, pages)
      /\ Claimed(plan) = ToSet(plan.claimed)
      /\ s \in Slot /\ Table(pages[s], rows[s])
      /\ ToSet(pages[s]) \cap ToSet(plan.claimed) = {}
  BY PlanFacts
<1> HIDE DEF plan
<1>2. /\ NewTable(plan, s, pages[s])[k] = NewPage(plan, s, pages[s], k)
      /\ NewPage(plan, s, pages[s], k) \in Page
      /\ ~IsNew(plan, s, pages[s], k) =>
            k \in 1..Len(pages[s]) /\ NewPage(plan, s, pages[s], k) = pages[s][k]
  BY <1>1, NewTableFacts DEF plan
<1>3. IsNew(plan, s, pages[s], k) => NewPage(plan, s, pages[s], k) \in ToSet(plan.claimed)
  BY <1>1 DEF PlanClaims, plan
<1>4. \A j \in 1..Len(pages[s]) : pages[s][j] \in ToSet(pages[s])
  BY <1>1, SequenceFacts DEF Table
<1> QED BY <1>1, <1>2, <1>3, <1>4 DEF plan

\* A stored row, as its append has it.
LEMMA StoredRow ==
    ASSUME Shape, NEW l \in Lane, plans[l].stage # "none", NEW w \in Stored(l)
    PROVE  \E s \in SlotsOf(plans[l].appends), r \in Nat :
              /\ rows[s] <= r /\ r < AppendOf(plans[l], s).new
              /\ w = <<s, Destination(plans[l], s, r), r % PAGE_ROWS>>
<1> DEFINE plan == plans[l]
           works == {plan.appends[i] : i \in DOMAIN plan.appends}
           stored(a) == {<<a.slot, Destination(plan, a.slot, r), r % PAGE_ROWS>> :
                            r \in rows[a.slot]..a.new - 1}
<1>1. PlanType(plan) /\ \A s \in SlotsOf(plan.appends) : s \in Slot /\ rows[s] \in Nat
  <2>1. /\ PlanType(plan)
        /\ \A s \in SlotsOf(plan.appends) : s \in Slot /\ Table(pages[s], rows[s])
    BY PlanFacts
  <2> QED BY <2>1, PageShape DEF Table, Rows
<1>2. PICK a \in works : w \in stored(a)
  BY DEF Stored
<1>3. PICK i \in DOMAIN plan.appends : a = plan.appends[i]
  OBVIOUS
<1>4. PICK r \in rows[a.slot]..a.new - 1 :
          w = <<a.slot, Destination(plan, a.slot, r), r % PAGE_ROWS>>
  BY <1>2
<1>5. a.slot \in SlotsOf(plan.appends)
  BY <1>3 DEF SlotsOf
<1>6. a = AppendOf(plan, a.slot) /\ a.new \in Nat
  <2>1. AppendOf(plan, a.slot) \in [slot : Slot, new : Rows, value : Value]
        /\ a = AppendOf(plan, a.slot)
    BY <1>1, <1>3, <1>5, AppendOfFacts
  <2> QED BY <2>1, PageShape DEF Rows
<1>7. r \in Nat /\ rows[a.slot] <= r /\ r < a.new
  BY <1>1, <1>5, <1>6
<1> QED BY <1>4, <1>5, <1>6, <1>7

\* The inductive invariant gives that rows in flight are written to private pages.
LEMMA ShapePrivate ==
    ASSUME Shape
    PROVE  WritesArePrivate
<1> SUFFICES ASSUME NEW l \in InFlight, NEW w \in Stored(l)
             PROVE  /\ \A k \in InFlight : \A x \in Stored(k) :
                          x[1] # w[1] => <<x[2], x[3]>> # <<w[2], w[3]>>
                    /\ \A h \in LivePrefixes :
                          <<w[2], w[3]>> \notin Shown(prefixes[h].pages, prefixes[h].rows)
                    /\ \A s \in Slot \ SlotsOf(plans[l].appends) :
                          <<w[2], w[3]>> \notin Shown(pages[s], rows[s])
  BY DEF WritesArePrivate
<1>1. l \in Lane /\ plans[l].stage # "none"
  BY DEF InFlight
<1>2. PICK s \in SlotsOf(plans[l].appends), r \in Nat :
              /\ rows[s] <= r /\ r < AppendOf(plans[l], s).new
              /\ w = <<s, Destination(plans[l], s, r), r % PAGE_ROWS>>
  BY <1>1, StoredRow
<1> DEFINE k == r \div PAGE_ROWS + 1
           p == NewPage(plans[l], s, pages[s], k)
<1>3. /\ k \in Places(plans[l], s) /\ p \in Page
      /\ Destination(plans[l], s, r) = p
      /\ \A u \in SlotsOf(plans[l].appends) : \A j \in Places(plans[l], u) :
            NewPage(plans[l], u, pages[u], j) = p => u = s /\ j = k
      /\ PrefixesWith(prefixes, p) = {}
      /\ \A u \in Slot \ SlotsOf(plans[l].appends) : p \notin ToSet(pages[u])
      /\ \A m \in Lane : m # l => p \notin Claimed(plans[m])
  BY <1>1, <1>2, StoredPages
<1> HIDE DEF k, p
<1>4. w[1] = s /\ w[2] = p
  BY <1>2, <1>3
<1>5. ASSUME NEW m \in InFlight, NEW x \in Stored(m), x[1] # w[1] PROVE x[2] # w[2]
  <2>1. m \in Lane /\ plans[m].stage # "none"
    BY DEF InFlight
  <2>2. PICK u \in SlotsOf(plans[m].appends), q \in Nat :
              /\ rows[u] <= q /\ q < AppendOf(plans[m], u).new
              /\ x = <<u, Destination(plans[m], u, q), q % PAGE_ROWS>>
    BY <2>1, StoredRow
  <2> DEFINE j == q \div PAGE_ROWS + 1
             y == NewPage(plans[m], u, pages[u], j)
  <2>3. j \in Places(plans[m], u) /\ Destination(plans[m], u, q) = y
    BY <2>1, <2>2, StoredPages
  <2>4. y \in ToSet(pages[u]) \cup Claimed(plans[m])
    <3> HIDE DEF j
    <3> QED BY <2>1, <2>3, PageComesFrom
  <2> HIDE DEF j, y
  <2>5. x[1] = u /\ x[2] = y
    BY <2>2, <2>3
  <2>6. CASE m = l
    BY <1>3, <1>4, <1>5, <2>3, <2>5, <2>6 DEF y
  <2>7. CASE m # l
    <3>1. u \in SlotsIn(plans[m]) /\ SlotsIn(plans[l]) = SlotsOf(plans[l].appends)
      BY <1>1, <2>1 DEF SlotsIn
    <3>2. u \notin SlotsOf(plans[l].appends) /\ u \in Slot
      <4>1. SlotsIn(plans[m]) \cap SlotsIn(plans[l]) = {}
        BY <1>1, <2>1, <2>7 DEF Shape, WritingInv
      <4>2. u \in Slot
        BY <2>1, PlanFacts
      <4> QED BY <3>1, <4>1, <4>2
    <3> QED BY <1>3, <1>4, <2>1, <2>4, <2>5, <2>7, <3>2
  <2> QED BY <2>6, <2>7
<1>6. ASSUME NEW list, NEW n \in Nat, Len(list) = PagesFor(n), list \in Seq(Page),
             p \notin ToSet(list)
      PROVE  <<w[2], w[3]>> \notin Shown(list, n)
  <2> SUFFICES ASSUME NEW i \in 1..n, <<w[2], w[3]>> =
                        <<list[(i - 1) \div PAGE_ROWS + 1], (i - 1) % PAGE_ROWS>>
               PROVE  FALSE
    BY DEF Shown
  <2>1. i - 1 \in Nat /\ i - 1 < n
    BY <1>6
  <2>2. (i - 1) \div PAGE_ROWS + 1 \in 1..Len(list)
    BY <1>6, <2>1, RowsHavePages
  <2>3. list[(i - 1) \div PAGE_ROWS + 1] \in ToSet(list)
    BY <1>6, <2>2, SequenceFacts
  <2> QED BY <1>4, <1>6, <2>3
<1>7. ASSUME NEW h \in LivePrefixes
      PROVE  <<w[2], w[3]>> \notin Shown(prefixes[h].pages, prefixes[h].rows)
  <2>1. h \in Handle /\ prefixes[h].live
    BY DEF LivePrefixes
  <2>2. Table(prefixes[h].pages, prefixes[h].rows)
    BY <2>1 DEF Shape, TablesInv
  <2>3. p \notin ToSet(prefixes[h].pages)
    BY <1>3, <2>1 DEF PrefixesWith
  <2> QED BY <1>6, <2>2, <2>3, PageShape DEF Table, Rows
<1>8. ASSUME NEW u \in Slot \ SlotsOf(plans[l].appends)
      PROVE  <<w[2], w[3]>> \notin Shown(pages[u], rows[u])
  <2>1. Table(pages[u], rows[u])
    BY DEF Shape, TablesInv
  <2> QED BY <1>3, <1>6, <2>1, PageShape DEF Table, Rows
<1> QED BY <1>5, <1>7, <1>8

-----------------------------------------------------------------------------
(* What the invariant says of a state. *)

\* The inductive invariant gives that tables cover their rows.
LEMMA InvTablesCover ==
    ASSUME TablesInv
    PROVE  TablesCoverTheirRows
  BY DEF TablesInv, Table, TablesCoverTheirRows

\* The inductive invariant gives the account of the pages.
LEMMA InvAccounted ==
    ASSUME Shape
    PROVE  PagesAccounted
<1> SUFFICES ASSUME NEW p \in Page
             PROVE  /\ references[p] = Owners(p)
                    /\ (IF references[p] > 0 THEN 0 ELSE 1)
                          = Mentions(free, p)
                            + Cardinality({l \in InFlight : p \in ToSet(plans[l].claimed)})
  BY DEF PagesAccounted
<1>1. references[p] = Owners(p)
  <2>1. /\ SlotsWith(pages, p) = {s \in Slot : p \in ToSet(pages[s])}
        /\ PrefixesWith(prefixes, p) = {h \in LivePrefixes : p \in ToSet(prefixes[h].pages)}
    BY DEF SlotsWith, PrefixesWith, LivePrefixes
  <2> QED BY <2>1 DEF Owners, Shape, Counted
<1> DEFINE claims == {l \in InFlight : p \in ToSet(plans[l].claimed)}
<1>2. claims = {l \in Lane : p \in Claimed(plans[l])}
  BY DEF InFlight, Claimed
<1>3. /\ free \in Seq(Page) /\ Injective(free)
      /\ references[p] \in Nat
      /\ references[p] = 0 <=> p \in ToSet(free) \/ \E l \in Lane : p \in Claimed(plans[l])
      /\ \A l \in Lane : p \in ToSet(free) => p \notin Claimed(plans[l])
      /\ \A l, k \in Lane : p \in Claimed(plans[l]) /\ p \in Claimed(plans[k]) => l = k
  BY DEF Shape, Pool
<1>4. /\ p \notin ToSet(free) => Mentions(free, p) = 0
      /\ p \in ToSet(free) => Mentions(free, p) = 1
  BY <1>3, MentionsFacts
<1> HIDE DEF claims
<1>5. CASE p \in ToSet(free)
  <2>1. claims = {}
    BY <1>2, <1>3, <1>5
  <2>2. references[p] = 0
    BY <1>3, <1>5
  <2>3. Cardinality(claims) = 0
    BY <2>1, FS_EmptySet
  <2> QED BY <1>1, <1>4, <1>5, <2>2, <2>3 DEF claims
<1>6. CASE p \notin ToSet(free) /\ claims # {}
  <2>1. PICK l : l \in claims
    BY <1>6
  <2>2. \A k \in claims : k = l
    BY <1>2, <1>3, <2>1
  <2>3. claims = {l}
    BY <2>1, <2>2
  <2>4. Cardinality(claims) = 1
    BY <2>3, FS_Singleton
  <2>5. references[p] = 0
    BY <1>2, <1>3, <1>6
  <2> QED BY <1>1, <1>4, <1>6, <2>4, <2>5 DEF claims
<1>7. CASE p \notin ToSet(free) /\ claims = {}
  <2>1. references[p] > 0
    BY <1>2, <1>3, <1>7
  <2> QED BY <1>1, <1>4, <1>7, <2>1, FS_EmptySet DEF claims
<1> QED BY <1>5, <1>6, <1>7

\* The inductive invariant gives that retained prefixes keep their rows.
LEMMA InvPrefixRows ==
    ASSUME RowsInv
    PROVE  PrefixesKeepTheirRows
  BY DEF RowsInv, PrefixesKeepTheirRows, LivePrefixes, Shows, Read

\* The inductive invariant gives that idle slots read back their rows.
LEMMA InvIdleRows ==
    ASSUME Shape, RowsInv
    PROVE  IdleSlotsReadTheirRows
<1> SUFFICES ASSUME NEW s \in Slot \ writing PROVE Read(pages[s], rows[s]) = hist[s]
  BY DEF IdleSlotsReadTheirRows
<1>1. Unwritten(s)
  BY DEF Shape, WritingInv, Unwritten
<1> QED BY <1>1 DEF RowsInv, Shows, Read

\* What a table shows is a sequence of values.
LEMMA ShowsTyped ==
    ASSUME NEW c \in [Page -> [0..PAGE_ROWS - 1 -> Value]], NEW list, NEW n, NEW content,
           Table(list, n), Shows(c, list, n, content)
    PROVE  content \in Seq(Value) /\ Len(content) = n /\ n \in Nat
<1>1. list \in Seq(Page) /\ n \in Nat /\ Len(list) = PagesFor(n)
  BY PageShape DEF Table, Rows
<1>2. ASSUME NEW r \in 1..n
      PROVE  c[list[(r - 1) \div PAGE_ROWS + 1]][(r - 1) % PAGE_ROWS] \in Value
  <2>1. r - 1 \in Nat /\ r - 1 < n
    BY <1>1
  <2>2. (r - 1) \div PAGE_ROWS + 1 \in 1..Len(list) /\ (r - 1) % PAGE_ROWS \in 0..PAGE_ROWS - 1
    BY <1>1, <2>1, RowsHavePages, RowParts
  <2>3. list[(r - 1) \div PAGE_ROWS + 1] \in Page
    BY <1>1, <2>2, SequenceFacts
  <2> QED BY <2>2, <2>3
<1>3. content \in [1..n -> Value]
  BY <1>2 DEF Shows
<1> QED BY <1>1, <1>3

\* The inductive invariant gives the types.
LEMMA InvTypeOK ==
    ASSUME Shape, RowsInv
    PROVE  TypeOK
<1>1. free \in Seq(Page) /\ references \in [Page -> Nat] /\ writing \subseteq Slot
      /\ pages \in [Slot -> Seq(Page)] /\ rows \in [Slot -> Rows]
      /\ cells \in [Page -> [0..PAGE_ROWS - 1 -> Value]]
      /\ hist \in [Slot -> Seq(Value)]
  BY DEF Shape, RowsInv, Pool, WritingInv, TablesInv
<1>2. ASSUME NEW l \in InFlight
      PROVE  /\ plans[l].stage \in {"reserved", "copied", "written"}
             /\ plans[l].appends \in Seq([slot : Slot, new : Rows, value : Value])
             /\ plans[l].claimed \in Seq(Page)
  <2>1. l \in Lane /\ plans[l].stage # "none"
    BY DEF InFlight
  <2> QED BY <2>1 DEF Shape, PlansInv, PlanType
<1>3. ASSUME NEW h \in LivePrefixes
      PROVE  /\ prefixes[h].pages \in Seq(Page)
             /\ prefixes[h].rows \in Rows
             /\ prefixes[h].hist \in Seq(Value)
  <2>1. h \in Handle /\ prefixes[h].live
    BY DEF LivePrefixes
  <2>2. Table(prefixes[h].pages, prefixes[h].rows)
    BY <2>1 DEF Shape, TablesInv
  <2>3. Shows(cells, prefixes[h].pages, prefixes[h].rows, prefixes[h].hist)
    BY <2>1 DEF RowsInv
  <2> QED BY <1>1, <2>2, <2>3, ShowsTyped DEF Table
<1> QED BY <1>1, <1>2, <1>3 DEF TypeOK

-----------------------------------------------------------------------------
(* What carries over to the next state. *)

\* Nobody joins the tables that own a page alone.
NoNewOwner(plan, pg, px, U, py) ==
    \A p : /\ SlotsWith(pg, p) # {}
           /\ SlotsWith(pg, p) \subseteq SlotsOf(plan.appends)
           /\ PrefixesWith(px, p) = {}
           => PrefixesWith(py, p) = {} /\ SlotsWith(U, p) \subseteq SlotsWith(pg, p)

\* A plan fits as it did when the tables and counts of its own slots did not change.
LEMMA PlanCarried ==
    ASSUME NEW plan, NEW T, NEW E, NEW px,
           PlanType(plan), PlanFits(plan, T, E), PlanClaims(plan, T), PlanAlone(plan, T, E, px),
           \A s \in Slot : Table(T[s], E[s]),
           NEW next, DOMAIN next = DOMAIN plan,
           next.stage \in {"reserved", "copied", "written"},
           next.appends = plan.appends, next.replacements = plan.replacements,
           next.additions = plan.additions, next.claimed = plan.claimed,
           NEW U, NEW F, \A s \in SlotsOf(plan.appends) : U[s] = T[s] /\ F[s] = E[s],
           NEW py, NoNewOwner(plan, T, px, U, py)
    PROVE  /\ PlanType(next) /\ PlanFits(next, U, F) /\ PlanClaims(next, U)
           /\ PlanAlone(next, U, F, py)
<1>1. PlanType(next) /\ PlanFits(next, U, F) /\ PlanClaims(next, U)
  BY PlanKept
<1>2. /\ \A s : AppendOf(next, s) = AppendOf(plan, s)
      /\ \A s : Moves(next, s) <=> Moves(plan, s)
      /\ \A s : Move(next, s) = Move(plan, s)
  BY DEF AppendOf, Moves, Move
<1>3. ASSUME NEW s \in SlotsOf(plan.appends),
             AppendOf(plan, s).new > E[s], E[s] % PAGE_ROWS # 0, ~Moves(plan, s),
             NEW p, p = T[s][E[s] \div PAGE_ROWS + 1]
      PROVE  /\ PrefixesWith(py, p) = {}
             /\ \A u \in SlotsWith(U, p) : u = s \/ (Moves(plan, u) /\ Move(plan, u).source = p)
  <2>1. /\ PrefixesWith(px, p) = {}
        /\ \A u \in SlotsWith(T, p) : u = s \/ (Moves(plan, u) /\ Move(plan, u).source = p)
    BY <1>3 DEF PlanAlone
  <2>2. SlotsWith(T, p) \subseteq SlotsOf(plan.appends)
    BY <2>1, MoveFacts
  <2>3. s \in SlotsWith(T, p)
    <3>1. s \in Slot /\ Table(T[s], E[s])
      BY AppendOfFacts
    <3>2. E[s] \in Nat /\ Len(T[s]) = PagesFor(E[s]) /\ T[s] \in Seq(Page)
      BY <3>1, PageShape DEF Table, Rows
    <3>3. E[s] \div PAGE_ROWS + 1 \in 1..Len(T[s])
      <4>1. PagesFor(E[s]) = E[s] \div PAGE_ROWS + 1 /\ E[s] \div PAGE_ROWS \in Nat
        BY <1>3, <3>2, PagesOfRows, RowParts
      <4> QED BY <3>2, <4>1
    <3>4. p \in ToSet(T[s])
      BY <1>3, <3>2, <3>3, SequenceFacts
    <3> QED BY <3>1, <3>4 DEF SlotsWith
  <2>4. PrefixesWith(py, p) = {} /\ SlotsWith(U, p) \subseteq SlotsWith(T, p)
    BY <2>1, <2>2, <2>3 DEF NoNewOwner
  <2> QED BY <2>1, <2>4
<1>4. PlanAlone(next, U, F, py)
  BY <1>2, <1>3 DEF PlanAlone
<1> QED BY <1>1, <1>4

\* Rows read back as before when the pages they stand on did not change.
LEMMA ShowsKept ==
    ASSUME NEW c, NEW d, NEW list \in Seq(Page), NEW n \in Nat, PagesFor(n) <= Len(list),
           NEW content, Shows(c, list, n, content), \A p \in ToSet(list) : d[p] = c[p]
    PROVE  Shows(d, list, n, content)
<1>2. ASSUME NEW r \in 1..n
      PROVE  d[list[(r - 1) \div PAGE_ROWS + 1]] = c[list[(r - 1) \div PAGE_ROWS + 1]]
  <2>1. r - 1 \in Nat /\ r - 1 < n
    OBVIOUS
  <2>2. (r - 1) \div PAGE_ROWS + 1 \in 1..Len(list)
    <3>1. PagesFor(n) \in Nat /\ Len(list) \in Nat
      BY PagesOfRows
    <3>2. (r - 1) \div PAGE_ROWS + 1 \in 1..PagesFor(n)
      BY <2>1, RowsHavePages
    <3> QED BY <3>1, <3>2
  <2>3. list[(r - 1) \div PAGE_ROWS + 1] \in ToSet(list)
    BY <2>2, SequenceFacts
  <2> QED BY <2>3
<1> QED BY <1>2 DEF Shows

\* The same for the rows of a table.
LEMMA TableShowsKept ==
    ASSUME NEW c, NEW d, NEW list, NEW n, NEW content, Table(list, n),
           Shows(c, list, n, content), \A p \in ToSet(list) : d[p] = c[p]
    PROVE  Shows(d, list, n, content)
<1>1. list \in Seq(Page) /\ n \in Nat /\ Len(list) = PagesFor(n) /\ PagesFor(n) \in Nat
  BY PageShape, PagesOfRows DEF Table, Rows
<1>2. PagesFor(n) <= Len(list)
  BY <1>1
<1> QED BY <1>1, <1>2, ShowsKept

\* The pages of the table a slot is to have.
LEMMA NewTablePages ==
    ASSUME Shape, NEW l \in Lane, NEW s \in SlotsIn(plans[l])
    PROVE  /\ plans[l].stage # "none" /\ s \in SlotsOf(plans[l].appends) /\ s \in Slot
           /\ Table(NewTable(plans[l], s, pages[s]), AppendOf(plans[l], s).new)
           /\ ToSet(NewTable(plans[l], s, pages[s])) \subseteq ToSet(pages[s]) \cup Claimed(plans[l])
           /\ rows[s] \in Nat /\ AppendOf(plans[l], s).new \in Nat
           /\ rows[s] <= AppendOf(plans[l], s).new
           /\ PagesFor(rows[s]) <= Len(NewTable(plans[l], s, pages[s]))
<1> DEFINE plan == plans[l]
           t == NewTable(plan, s, pages[s])
           n == AppendOf(plan, s).new
<1>1. plan.stage # "none" /\ s \in SlotsOf(plan.appends)
  BY DEF SlotsIn
<1>2. /\ PlanType(plan) /\ PlanFits(plan, pages, rows) /\ PlanClaims(plan, pages)
      /\ s \in Slot /\ Table(pages[s], rows[s])
      /\ ToSet(pages[s]) \cap ToSet(plan.claimed) = {}
  BY <1>1, PlanFacts
<1>3. /\ Table(t, n) /\ rows[s] \in Nat /\ n \in Nat /\ rows[s] <= n
      /\ \A k \in Places(plan, s) : t[k] = NewPage(plan, s, pages[s], k)
  <2> HIDE DEF plan
  <2> QED BY <1>1, <1>2, NewTableFacts
<1>4. t \in Seq(Page) /\ Len(t) = PagesFor(n) /\ Places(plan, s) = 1..Len(t)
  BY <1>3 DEF Table, Places
<1>5. ToSet(t) \subseteq ToSet(pages[s]) \cup Claimed(plan)
  <2>1. \A k \in Places(plan, s) : t[k] \in ToSet(pages[s]) \cup Claimed(plan)
    BY <1>1, <1>3, PageComesFrom
  <2>2. ToSet(t) = {t[k] : k \in 1..Len(t)}
    BY <1>4, SequenceFacts
  <2> HIDE DEF t, plan
  <2> QED BY <1>4, <2>1, <2>2
<1>6. PagesFor(rows[s]) <= Len(t)
  BY <1>3, <1>4, RowsHavePages
<1> QED BY <1>1, <1>2, <1>3, <1>5, <1>6

\* A transaction's rows stay while its slots keep their tables and the pages
\* of those and the claimed ones keep their contents.
LEMMA PlanRowsKept ==
    ASSUME Shape, NEW l \in Lane, PlanRows(plans[l], cells, hist, pages, rows),
           NEW d, NEW H, NEW U, NEW F,
           \A s \in SlotsIn(plans[l]) : U[s] = pages[s] /\ F[s] = rows[s] /\ H[s] = hist[s],
           \A s \in SlotsIn(plans[l]) : \A p \in ToSet(pages[s]) : d[p] = cells[p],
           \A p \in Claimed(plans[l]) : d[p] = cells[p]
    PROVE  PlanRows(plans[l], d, H, U, F)
<1> SUFFICES ASSUME NEW s \in SlotsIn(plans[l])
             PROVE  /\ plans[l].stage = "copied" =>
                          Shows(d, NewTable(plans[l], s, pages[s]), rows[s], hist[s])
                    /\ plans[l].stage = "written" =>
                          Shows(d, NewTable(plans[l], s, pages[s]), AppendOf(plans[l], s).new,
                                Grown(plans[l], s, hist[s], rows[s]))
  BY DEF PlanRows
<1> DEFINE t == NewTable(plans[l], s, pages[s])
           n == AppendOf(plans[l], s).new
<1>1. /\ Table(t, n) /\ rows[s] \in Nat /\ PagesFor(rows[s]) <= Len(t)
      /\ ToSet(t) \subseteq ToSet(pages[s]) \cup Claimed(plans[l])
  BY NewTablePages
<1>2. /\ plans[l].stage = "copied" => Shows(cells, t, rows[s], hist[s])
      /\ plans[l].stage = "written" => Shows(cells, t, n, Grown(plans[l], s, hist[s], rows[s]))
  BY DEF PlanRows
<1>3. \A p \in ToSet(t) : d[p] = cells[p]
  BY <1>1
<1>4. t \in Seq(Page)
  BY <1>1 DEF Table
<1> HIDE DEF t, n
<1>5. CASE plans[l].stage = "copied"
  BY <1>1, <1>2, <1>3, <1>4, <1>5, ShowsKept DEF t
<1>6. CASE plans[l].stage = "written"
  BY <1>1, <1>2, <1>3, <1>6, TableShowsKept DEF t, n
<1> QED BY <1>5, <1>6

\* No page of a table, a live prefix or a reservation is free.
LEMMA NotFree ==
    ASSUME Shape
    PROVE  /\ \A s \in Slot : \A p \in ToSet(pages[s]) : p \in Page /\ p \notin ToSet(free)
           /\ \A h \in Handle : prefixes[h].live =>
                 \A p \in ToSet(prefixes[h].pages) : p \in Page /\ p \notin ToSet(free)
           /\ \A l \in Lane : \A p \in Claimed(plans[l]) : p \in Page /\ p \notin ToSet(free)
<1>1. ASSUME NEW s \in Slot, NEW p \in ToSet(pages[s]) PROVE p \in Page /\ p \notin ToSet(free)
  <2>1. p \in Page
    BY TablesApart, SeqSet DEF Shape, TablesInv
  <2>2. SlotsWith(pages, p) # {}
    BY DEF SlotsWith
  <2> QED BY <2>1, <2>2, OwnedPages DEF Shape
<1>2. ASSUME NEW h \in Handle, prefixes[h].live, NEW p \in ToSet(prefixes[h].pages)
      PROVE  p \in Page /\ p \notin ToSet(free)
  <2>1. p \in Page
    BY <1>2, SeqSet DEF Shape, TablesInv, Table
  <2>2. PrefixesWith(prefixes, p) # {}
    BY <1>2 DEF PrefixesWith
  <2> QED BY <2>1, <2>2, OwnedPages DEF Shape
<1>3. \A l \in Lane : \A p \in Claimed(plans[l]) : p \in Page /\ p \notin ToSet(free)
  BY DEF Shape, Pool
<1> QED BY <1>1, <1>2, <1>3

\* A step beside the transactions: it leaves their slots alone, gives no page
\* of theirs another owner, and stores only to free pages.
LEMMA IdleStep ==
    ASSUME Shape, RowsInv, plans' = plans, writing' = writing,
           \A s \in writing : pages'[s] = pages[s] /\ rows'[s] = rows[s] /\ hist'[s] = hist[s],
           TablesInv', Counted(references', pages', prefixes'), Pool(free', references', plans),
           \A l \in Lane : plans[l].stage # "none" =>
               NoNewOwner(plans[l], pages, prefixes, pages', prefixes'),
           cells' \in [Page -> [0..PAGE_ROWS - 1 -> Value]],
           \A p \in Page : p \notin ToSet(free) => cells'[p] = cells[p],
           hist' \in [Slot -> Seq(Value)],
           \A h \in Handle : prefixes'[h].live =>
               Shows(cells', prefixes'[h].pages, prefixes'[h].rows, prefixes'[h].hist),
           \A s \in Slot \ writing : Shows(cells', pages'[s], rows'[s], hist'[s])
    PROVE  Shape' /\ RowsInv'
<1>1. WritingInv'
  BY DEF Shape, WritingInv, SlotsIn
<1>2. \A l \in Lane : SlotsIn(plans[l]) \subseteq writing
  <2>1. \A l \in Lane : \A s \in SlotsIn(plans[l]) : s \in Slot
    BY NewTablePages
  <2> QED BY <2>1 DEF Shape, WritingInv
<1>3. PlansInv'
  <2>1. ASSUME NEW l \in Lane, plans[l].stage # "none"
        PROVE  /\ PlanType(plans[l]) /\ PlanFits(plans[l], pages', rows')
               /\ PlanClaims(plans[l], pages') /\ PlanAlone(plans[l], pages', rows', prefixes')
    <3>1. /\ PlanType(plans[l]) /\ PlanFits(plans[l], pages, rows) /\ PlanClaims(plans[l], pages)
          /\ PlanAlone(plans[l], pages, rows, prefixes)
          /\ SlotsIn(plans[l]) = SlotsOf(plans[l].appends)
      BY <2>1, PlanFacts
    <3>2. \A s \in SlotsOf(plans[l].appends) : pages'[s] = pages[s] /\ rows'[s] = rows[s]
      BY <1>2, <3>1
    <3>3. \A s \in Slot : Table(pages[s], rows[s])
      BY DEF Shape, TablesInv
    <3>4. NoNewOwner(plans[l], pages, prefixes, pages', prefixes')
      BY <2>1
    <3>5. plans[l].stage \in {"reserved", "copied", "written"}
      BY <3>1 DEF PlanType
    <3> QED BY ONLY <3>1, <3>2, <3>3, <3>4, <3>5, PlanCarried
  <2> QED BY <2>1 DEF Shape, PlansInv
<1>4. RowsInv'
  <2>1. ASSUME NEW s \in Slot, Unwritten(s)' PROVE Shows(cells', pages'[s], rows'[s], hist'[s])
    <3>1. Unwritten(s)
      BY <2>1 DEF Unwritten
    <3>2. CASE s \in writing
      <4>1. Shows(cells, pages[s], rows[s], hist[s]) /\ Table(pages[s], rows[s])
        BY <3>1 DEF RowsInv, Shape, TablesInv
      <4>2. \A p \in ToSet(pages[s]) : cells'[p] = cells[p]
        BY NotFree
      <4>3. Shows(cells', pages[s], rows[s], hist[s])
        BY <4>1, <4>2, TableShowsKept
      <4> QED BY <3>2, <4>3
    <3> QED BY <3>2
  <2>2. ASSUME NEW l \in Lane PROVE PlanRows(plans[l], cells', hist', pages', rows')
    <3>1. PlanRows(plans[l], cells, hist, pages, rows)
      BY DEF RowsInv
    <3>2. \A s \in SlotsIn(plans[l]) :
              pages'[s] = pages[s] /\ rows'[s] = rows[s] /\ hist'[s] = hist[s]
      BY <1>2
    <3>3. \A s \in SlotsIn(plans[l]) : \A p \in ToSet(pages[s]) : cells'[p] = cells[p]
      BY NewTablePages, NotFree
    <3>4. \A p \in Claimed(plans[l]) : cells'[p] = cells[p]
      BY NotFree
    <3> QED BY ONLY Shape, <3>1, <3>2, <3>3, <3>4, PlanRowsKept, l \in Lane
  <2> QED BY <2>1, <2>2 DEF RowsInv
<1> QED BY <1>1, <1>3, <1>4 DEF Shape

-----------------------------------------------------------------------------
(* The steps beside the transactions. *)

\* A slot without rows has an empty table and shows an empty history.
LEMMA EmptyTable ==
    /\ Table(<<>>, 0) /\ ToSet(<<>>) = {}
    /\ \A c : Shows(c, <<>>, 0, <<>>)
<1>1. PagesFor(0) = 0
  <2>1. 0 \div PAGE_ROWS = 0 /\ 0 % PAGE_ROWS = 0
    BY PageShape, Z3
  <2> QED BY <2>1, PagesOfRows
<1>2. <<>> \in Seq(Page) /\ Len(<<>>) = 0 /\ 0 \in Rows
  BY PageShape DEF Rows
<1>3. Injective(<<>>)
  BY <1>2 DEF Injective
<1>4. ToSet(<<>>) = {}
  BY DEF ToSet
<1>5. \A c : Shows(c, <<>>, 0, <<>>)
  <2> SUFFICES ASSUME NEW c PROVE Shows(c, <<>>, 0, <<>>)
    OBVIOUS
  <2>1. 1..0 = {}
    OBVIOUS
  <2> QED BY <2>1 DEF Shows
<1> QED BY <1>1, <1>2, <1>3, <1>4, <1>5 DEF Table

\* A slot no append is in flight for has its table and its rows, and no plan is about it.
LEMMA IdleSlot ==
    ASSUME Shape, RowsInv, NEW s \in Slot, s \notin writing
    PROVE  /\ Table(pages[s], rows[s]) /\ Shows(cells, pages[s], rows[s], hist[s])
           /\ \A l \in Lane : plans[l].stage # "none" => s \notin SlotsOf(plans[l].appends)
<1>1. \A l \in Lane : s \notin SlotsIn(plans[l])
  BY DEF Shape, WritingInv
<1>2. Unwritten(s)
  BY <1>1 DEF Unwritten
<1> QED BY <1>1, <1>2 DEF Shape, TablesInv, RowsInv, SlotsIn

\* release_slot keeps the invariant.
LEMMA ReleaseSlotStep ==
    ASSUME Shape, RowsInv, NEW s \in Slot, ReleaseSlot(s)
    PROVE  Shape' /\ RowsInv'
<1>0. /\ s \notin writing /\ Release(pages[s], references)
      /\ pages' = [pages EXCEPT ![s] = <<>>]
      /\ rows' = [rows EXCEPT ![s] = 0] /\ hist' = [hist EXCEPT ![s] = <<>>]
      /\ writing' = writing /\ plans' = plans /\ prefixes' = prefixes /\ cells' = cells
  BY DEF ReleaseSlot
<1>1. /\ pages \in [Slot -> Seq(Page)] /\ rows \in [Slot -> Rows]
      /\ hist \in [Slot -> Seq(Value)] /\ references \in [Page -> Nat]
      /\ cells \in [Page -> [0..PAGE_ROWS - 1 -> Value]]
      /\ Counted(references, pages, prefixes) /\ Pool(free, references, plans)
  BY DEF Shape, TablesInv, RowsInv, Pool
<1>2. pages[s] \in Seq(Page) /\ Injective(pages[s])
  BY DEF Shape, TablesInv, Table
<1>3. /\ \A p \in Page : Mentions(pages[s], p) <= references[p]
      /\ Counted(Released(references, pages[s]), pages', prefixes)
  BY <1>0, <1>1, <1>2, TableLost
<1>4. Counted(references', pages', prefixes') /\ Pool(free', references', plans)
  BY <1>0, <1>1, <1>2, <1>3, PoolRelease DEF Release
<1>5. TablesInv'
  BY <1>0, <1>1, EmptyTable DEF Shape, TablesInv, Table
<1>6. \A l \in Lane : plans[l].stage # "none" =>
          NoNewOwner(plans[l], pages, prefixes, pages', prefixes')
  <2>1. \A p : SlotsWith(pages', p) \subseteq SlotsWith(pages, p)
    BY <1>0, <1>1, EmptyTable DEF SlotsWith
  <2> QED BY <1>0, <2>1 DEF NoNewOwner
<1>7. \A u \in Slot \ writing : Shows(cells', pages'[u], rows'[u], hist'[u])
  BY <1>0, <1>1, EmptyTable, IdleSlot
<1>8. hist' \in [Slot -> Seq(Value)]
  BY <1>0, <1>1
<1>9. \A h \in Handle : prefixes'[h].live =>
          Shows(cells', prefixes'[h].pages, prefixes'[h].rows, prefixes'[h].hist)
  BY <1>0 DEF RowsInv
<1>10. \A u \in writing : pages'[u] = pages[u] /\ rows'[u] = rows[u] /\ hist'[u] = hist[u]
  BY <1>0, <1>1 DEF Shape, WritingInv
<1> QED BY <1>0, <1>1, <1>4, <1>5, <1>6, <1>7, <1>8, <1>9, <1>10, IdleStep

\* retain_prefix keeps the invariant.
LEMMA RetainPrefixStep ==
    ASSUME Shape, RowsInv, NEW h \in Handle, NEW s \in Slot, RetainPrefix(h, s)
    PROVE  Shape' /\ RowsInv'
<1> DEFINE e == Prefix(pages[s], rows[s], hist[s])
<1>0. /\ ~prefixes[h].live /\ s \notin writing
      /\ references' = AddTo(references, pages[s])
      /\ prefixes' = [prefixes EXCEPT ![h] = e]
      /\ free' = free /\ pages' = pages /\ rows' = rows /\ hist' = hist
      /\ writing' = writing /\ plans' = plans /\ cells' = cells
  BY DEF RetainPrefix
<1>1. /\ pages \in [Slot -> Seq(Page)] /\ references \in [Page -> Nat]
      /\ hist \in [Slot -> Seq(Value)] /\ DOMAIN prefixes = Handle
      /\ cells \in [Page -> [0..PAGE_ROWS - 1 -> Value]]
      /\ Counted(references, pages, prefixes) /\ Pool(free, references, plans)
  BY DEF Shape, TablesInv, RowsInv, Pool
<1>2. /\ Table(pages[s], rows[s]) /\ Shows(cells, pages[s], rows[s], hist[s])
      /\ \A l \in Lane : plans[l].stage # "none" => s \notin SlotsOf(plans[l].appends)
  BY <1>0, IdleSlot
<1>3. e.live = TRUE /\ e.pages = pages[s] /\ e.rows = rows[s] /\ e.hist = hist[s]
  BY DEF Prefix
<1>4. prefixes'[h] = e /\ \A g \in Handle : g # h => prefixes'[g] = prefixes[g]
  BY <1>0, <1>1
<1> HIDE DEF e
<1>5. pages[s] \in Seq(Page) /\ Injective(pages[s])
  BY <1>2 DEF Table
<1>6. Counted(references', pages', prefixes')
  <2>1. e.live /\ e.pages \in Seq(Page) /\ Injective(e.pages)
    BY <1>3, <1>5
  <2> QED BY <1>0, <1>1, <1>3, <2>1, PrefixGained
<1>7. Pool(free', references', plans)
  <2>1. ASSUME NEW p \in ToSet(pages[s]) PROVE references[p] # 0
    <3>1. p \in Page
      BY <1>5, SeqSet
    <3>2. SlotsWith(pages, p) # {}
      BY DEF SlotsWith
    <3> QED BY <1>1, <3>1, <3>2, OwnedPages
  <2> QED BY <1>0, <1>1, <1>5, <2>1, PoolShare
<1>8. TablesInv'
  <2>1. \A g \in Handle : /\ prefixes'[g].live \in BOOLEAN
                          /\ prefixes'[g].live => Table(prefixes'[g].pages, prefixes'[g].rows)
    BY <1>2, <1>3, <1>4 DEF Shape, TablesInv
  <2>2. DOMAIN prefixes' = Handle
    BY <1>0, <1>1
  <2>3. pages' \in [Slot -> Seq(Page)] /\ rows' \in [Slot -> Rows]
        /\ \A u \in Slot : Table(pages'[u], rows'[u])
    BY <1>0 DEF Shape, TablesInv
  <2> QED BY <2>1, <2>2, <2>3 DEF TablesInv, Table
<1>9. ASSUME NEW l \in Lane, plans[l].stage # "none"
      PROVE  NoNewOwner(plans[l], pages, prefixes, pages', prefixes')
  <2>1. ASSUME NEW p, SlotsWith(pages, p) \subseteq SlotsOf(plans[l].appends),
               PrefixesWith(prefixes, p) = {}
        PROVE  PrefixesWith(prefixes', p) = {}
    <3>1. p \notin ToSet(pages[s])
      BY <1>2, <1>9, <2>1 DEF SlotsWith
    <3>2. \A g \in Handle : prefixes'[g].live => p \notin ToSet(prefixes'[g].pages)
      BY <1>3, <1>4, <2>1, <3>1 DEF PrefixesWith
    <3> QED BY <3>2 DEF PrefixesWith
  <2> QED BY <1>0, <2>1 DEF NoNewOwner
<1>10. \A u \in Slot \ writing : Shows(cells', pages'[u], rows'[u], hist'[u])
  BY <1>0, IdleSlot
<1>11. \A g \in Handle : prefixes'[g].live =>
          Shows(cells', prefixes'[g].pages, prefixes'[g].rows, prefixes'[g].hist)
  BY <1>0, <1>2, <1>3, <1>4 DEF RowsInv
<1> QED BY <1>0, <1>1, <1>6, <1>7, <1>8, <1>9, <1>10, <1>11, IdleStep

\* Dropping a retained prefix keeps the invariant.
LEMMA DropPrefixStep ==
    ASSUME Shape, RowsInv, NEW h \in Handle, DropPrefix(h)
    PROVE  Shape' /\ RowsInv'
<1>0. /\ prefixes[h].live /\ Release(prefixes[h].pages, references)
      /\ prefixes' = [prefixes EXCEPT ![h] = NoPrefix]
      /\ pages' = pages /\ rows' = rows /\ hist' = hist
      /\ writing' = writing /\ plans' = plans /\ cells' = cells
  BY DEF DropPrefix
<1>1. /\ references \in [Page -> Nat] /\ DOMAIN prefixes = Handle
      /\ hist \in [Slot -> Seq(Value)]
      /\ cells \in [Page -> [0..PAGE_ROWS - 1 -> Value]]
      /\ Counted(references, pages, prefixes) /\ Pool(free, references, plans)
      /\ prefixes[h].pages \in Seq(Page) /\ Injective(prefixes[h].pages)
  BY <1>0 DEF Shape, TablesInv, RowsInv, Pool, Table
<1>2. prefixes'[h] = NoPrefix /\ \A g \in Handle : g # h => prefixes'[g] = prefixes[g]
  BY <1>0, <1>1
<1>3. NoPrefix.live = FALSE
  BY DEF NoPrefix
<1>4. /\ \A p \in Page : Mentions(prefixes[h].pages, p) <= references[p]
      /\ Counted(Released(references, prefixes[h].pages), pages, prefixes')
  BY <1>0, <1>1, PrefixLost
<1>5. Counted(references', pages', prefixes') /\ Pool(free', references', plans)
  BY <1>0, <1>1, <1>4, PoolRelease DEF Release
<1>6. TablesInv'
  <2>1. \A g \in Handle : /\ prefixes'[g].live \in BOOLEAN
                          /\ prefixes'[g].live => Table(prefixes'[g].pages, prefixes'[g].rows)
    BY <1>2, <1>3 DEF Shape, TablesInv
  <2>2. DOMAIN prefixes' = Handle
    BY <1>0, <1>1
  <2>3. pages' \in [Slot -> Seq(Page)] /\ rows' \in [Slot -> Rows]
        /\ \A u \in Slot : Table(pages'[u], rows'[u])
    BY <1>0 DEF Shape, TablesInv
  <2> QED BY <2>1, <2>2, <2>3 DEF TablesInv, Table
<1>7. \A p : PrefixesWith(prefixes', p) \subseteq PrefixesWith(prefixes, p)
  BY <1>2, <1>3 DEF PrefixesWith
<1>8. \A l \in Lane : plans[l].stage # "none" =>
          NoNewOwner(plans[l], pages, prefixes, pages', prefixes')
  BY <1>0, <1>7 DEF NoNewOwner
<1>9. \A u \in Slot \ writing : Shows(cells', pages'[u], rows'[u], hist'[u])
  BY <1>0, IdleSlot
<1>10. \A g \in Handle : prefixes'[g].live =>
          Shows(cells', prefixes'[g].pages, prefixes'[g].rows, prefixes'[g].hist)
  BY <1>0, <1>2, <1>3 DEF RowsInv
<1> QED BY <1>0, <1>1, <1>5, <1>6, <1>8, <1>9, <1>10, IdleStep

\* The first rows of a prefix are in the first pages of its table.
LEMMA ShorterPrefix ==
    ASSUME NEW list, NEW n, Table(list, n), NEW m \in 1..n, NEW c, NEW content,
           Shows(c, list, n, content)
    PROVE  LET cut == SubSeq(list, 1, PagesFor(m)) IN
           /\ Table(cut, m) /\ ToSet(cut) \subseteq ToSet(list)
           /\ Shows(c, cut, m, SubSeq(content, 1, m))
<1> DEFINE k == PagesFor(m)
           cut == SubSeq(list, 1, k)
<1>1. /\ list \in Seq(Page) /\ Injective(list) /\ Len(list) = PagesFor(n)
      /\ n \in Nat /\ n \in Rows /\ n <= MaxRows /\ MaxRows \in Nat
  BY PageShape DEF Table, Rows
<1>2. m \in Nat /\ m <= n /\ m \in Rows
  BY <1>1 DEF Rows
<1>3. k \in Nat /\ k <= Len(list) /\ k \in 0..Len(list)
  BY <1>1, <1>2, PagesOfRows, RowsHavePages
<1>4. /\ cut \in Seq(Page) /\ Len(cut) = k /\ Injective(cut)
      /\ \A i \in 1..k : cut[i] = list[i]
      /\ ToSet(cut) \subseteq ToSet(list)
  <2> HIDE DEF k
  <2> QED BY <1>1, <1>3, CutFacts
<1>5. Table(cut, m)
  BY <1>2, <1>4 DEF Table
<1>6. SubSeq(content, 1, m) = [r \in 1..m |-> content[r]]
  <2>1. content = [r \in 1..n |-> c[list[(r - 1) \div PAGE_ROWS + 1]][(r - 1) % PAGE_ROWS]]
    BY DEF Shows
  <2>2. DOMAIN content = 1..n
    BY <2>1
  <2>3. SubSeq(content, 1, m) = [r \in 1..(m - 1 + 1) |-> content[r + 1 - 1]]
    BY <1>1, <1>2, <2>2
  <2>4. m - 1 + 1 = m /\ \A r \in 1..m : r + 1 - 1 = r
    BY <1>2
  <2> QED BY <2>3, <2>4
<1>7. ASSUME NEW r \in 1..m
      PROVE  content[r] = c[cut[(r - 1) \div PAGE_ROWS + 1]][(r - 1) % PAGE_ROWS]
  <2>1. r \in 1..n /\ r - 1 \in Nat /\ r - 1 < m
    BY <1>1, <1>2
  <2>2. (r - 1) \div PAGE_ROWS + 1 \in 1..k
    BY <1>2, <2>1, RowsHavePages
  <2>3. cut[(r - 1) \div PAGE_ROWS + 1] = list[(r - 1) \div PAGE_ROWS + 1]
    <3> HIDE DEF cut, k
    <3> QED BY <1>4, <2>2
  <2> HIDE DEF cut, k
  <2> QED BY <2>1, <2>3 DEF Shows
<1>8. Shows(c, cut, m, SubSeq(content, 1, m))
  <2> HIDE DEF cut, k
  <2> QED BY <1>6, <1>7 DEF Shows
<1> QED BY <1>4, <1>5, <1>8

\* restore_prefix keeps the invariant.
LEMMA RestorePrefixStep ==
    ASSUME Shape, RowsInv, NEW s \in Slot, NEW h \in Handle, NEW n, RestorePrefix(s, h, n)
    PROVE  Shape' /\ RowsInv'
<1> DEFINE list == SubSeq(prefixes[h].pages, 1, PagesFor(n))
           content == SubSeq(prefixes[h].hist, 1, n)
<1>0. /\ prefixes[h].live /\ s \notin writing /\ pages[s] = <<>>
      /\ n \in 1..prefixes[h].rows
      /\ references' = AddTo(references, list)
      /\ pages' = [pages EXCEPT ![s] = list] /\ rows' = [rows EXCEPT ![s] = n]
      /\ hist' = [hist EXCEPT ![s] = content]
      /\ free' = free /\ writing' = writing /\ plans' = plans
      /\ prefixes' = prefixes /\ cells' = cells
  BY DEF RestorePrefix
<1>1. /\ pages \in [Slot -> Seq(Page)] /\ rows \in [Slot -> Rows]
      /\ hist \in [Slot -> Seq(Value)] /\ references \in [Page -> Nat]
      /\ cells \in [Page -> [0..PAGE_ROWS - 1 -> Value]]
      /\ Counted(references, pages, prefixes) /\ Pool(free, references, plans)
  BY DEF Shape, TablesInv, RowsInv, Pool
<1>2. /\ Table(list, n) /\ ToSet(list) \subseteq ToSet(prefixes[h].pages)
      /\ Shows(cells, list, n, content)
  <2>1. Table(prefixes[h].pages, prefixes[h].rows)
    BY <1>0 DEF Shape, TablesInv
  <2>2. Shows(cells, prefixes[h].pages, prefixes[h].rows, prefixes[h].hist)
    BY <1>0 DEF RowsInv
  <2> QED BY <1>0, <2>1, <2>2, ShorterPrefix
<1> HIDE DEF list, content
<1>3. list \in Seq(Page) /\ Injective(list) /\ n \in Rows
  BY <1>2 DEF Table
<1>4. /\ pages'[s] = list /\ rows'[s] = n /\ hist'[s] = content
      /\ \A u \in Slot : u # s => pages'[u] = pages[u] /\ rows'[u] = rows[u] /\ hist'[u] = hist[u]
  BY <1>0, <1>1
<1>5. Counted(references', pages', prefixes')
  <2>1. ToSet(pages[s]) = {} /\ DOMAIN pages = Slot
    BY <1>0, <1>1, EmptyTable
  <2> QED BY <1>0, <1>1, <1>3, <2>1, TableGained
<1>6. Pool(free', references', plans)
  <2>1. ASSUME NEW p \in ToSet(list) PROVE references[p] # 0
    <3>1. p \in Page
      BY <1>3, SeqSet
    <3>2. PrefixesWith(prefixes, p) # {}
      BY <1>0, <1>2 DEF PrefixesWith
    <3> QED BY <1>1, <3>1, <3>2, OwnedPages
  <2> QED BY <1>0, <1>1, <1>3, <2>1, PoolShare
<1>7. TablesInv'
  <2>1. pages' \in [Slot -> Seq(Page)] /\ rows' \in [Slot -> Rows]
    BY <1>0, <1>1, <1>3
  <2>2. \A u \in Slot : Table(pages'[u], rows'[u])
    BY <1>2, <1>4 DEF Shape, TablesInv
  <2> QED BY <1>0, <2>1, <2>2 DEF Shape, TablesInv, Table
<1>8. ASSUME NEW l \in Lane, plans[l].stage # "none"
      PROVE  NoNewOwner(plans[l], pages, prefixes, pages', prefixes')
  <2>1. ASSUME NEW p, PrefixesWith(prefixes, p) = {}
        PROVE  SlotsWith(pages', p) \subseteq SlotsWith(pages, p)
    <3>1. p \notin ToSet(list)
      BY <1>0, <1>2, <2>1 DEF PrefixesWith
    <3> QED BY <1>4, <3>1 DEF SlotsWith
  <2> QED BY <1>0, <2>1 DEF NoNewOwner
<1>9. \A u \in Slot \ writing : Shows(cells', pages'[u], rows'[u], hist'[u])
  BY <1>0, <1>2, <1>4, IdleSlot
<1>10. hist' \in [Slot -> Seq(Value)]
  <2>1. content \in Seq(Value)
    BY <1>1, <1>2, ShowsTyped
  <2> QED BY <1>0, <1>1, <2>1
<1>11. \A g \in Handle : prefixes'[g].live =>
          Shows(cells', prefixes'[g].pages, prefixes'[g].rows, prefixes'[g].hist)
  BY <1>0 DEF RowsInv
<1>12. \A u \in writing : pages'[u] = pages[u] /\ rows'[u] = rows[u] /\ hist'[u] = hist[u]
  BY <1>0, <1>4 DEF Shape, WritingInv
<1> QED BY <1>0, <1>1, <1>5, <1>6, <1>7, <1>8, <1>9, <1>10, <1>11, <1>12, IdleStep

\* allocate_prefix keeps the invariant, with as many pages as its rows need.
LEMMA AllocatePrefixStep ==
    ASSUME Shape, RowsInv, NEW h \in Handle, NEW n \in 1..MaxRows, NEW v \in Value,
           AllocatePrefix(h, [i \in 1..n |-> v])
    PROVE  Shape' /\ RowsInv'
<1> DEFINE content == [i \in 1..n |-> v]
           count == PagesFor(n)
           k == Len(free) - count
           list == SubSeq(free, k + 1, Len(free))
           e == Prefix(list, n, content)
           at(p, i) == {r \in 1..n : list[(r - 1) \div PAGE_ROWS + 1] = p
                                     /\ (r - 1) % PAGE_ROWS = i}
<1>1. n \in Nat /\ n \in Rows /\ Len(content) = n /\ content \in Seq(Value) /\ count \in Nat
  BY PageShape, PagesOfRows DEF Rows
<1> HIDE DEF content
<1>0. /\ ~prefixes[h].live /\ count <= Len(free)
      /\ free' = SubSeq(free, 1, k) /\ references' = AddTo(references, list)
      /\ prefixes' = [prefixes EXCEPT ![h] = e]
      /\ cells' = [p \in Page |-> [i \in 0..PAGE_ROWS - 1 |->
                     IF at(p, i) = {} THEN cells[p][i]
                     ELSE content[CHOOSE r \in at(p, i) : TRUE]]]
      /\ pages' = pages /\ rows' = rows /\ hist' = hist
      /\ writing' = writing /\ plans' = plans
  BY <1>1 DEF AllocatePrefix, content
<1>2. /\ pages \in [Slot -> Seq(Page)] /\ references \in [Page -> Nat]
      /\ hist \in [Slot -> Seq(Value)] /\ DOMAIN prefixes = Handle
      /\ cells \in [Page -> [0..PAGE_ROWS - 1 -> Value]]
      /\ Counted(references, pages, prefixes) /\ Pool(free, references, plans)
      /\ free \in Seq(Page) /\ Injective(free)
  BY DEF Shape, TablesInv, RowsInv, Pool
<1>3. Len(free) \in Nat /\ k \in 0..Len(free) /\ Len(free) - k = count
  BY <1>0, <1>1, <1>2
<1> HIDE DEF k, count
<1>4. /\ list \in Seq(Page) /\ Injective(list) /\ Len(list) = count
      /\ ToSet(list) \subseteq ToSet(free)
  <2>1. /\ list \in Seq(Page) /\ Len(list) = Len(free) - k
        /\ ToSet(free) = ToSet(SubSeq(free, 1, k)) \cup ToSet(list)
        /\ Injective(list)
    <3>1. free \in Seq(Page) /\ Injective(free) /\ k \in 0..Len(free)
      BY <1>2, <1>3
    <3> QED BY ONLY <3>1, CutFacts
  <2> HIDE DEF list
  <2> QED BY <1>3, <2>1
<1> HIDE DEF list
<1>5. Table(list, n)
  BY <1>1, <1>4 DEF Table, count
<1>6. e.live = TRUE /\ e.pages = list /\ e.rows = n /\ e.hist = content
  BY DEF Prefix
<1>7. prefixes'[h] = e /\ \A g \in Handle : g # h => prefixes'[g] = prefixes[g]
  BY <1>0, <1>2
<1> HIDE DEF e
<1>8. Counted(references', pages', prefixes')
  <2>1. e.live /\ e.pages \in Seq(Page) /\ Injective(e.pages)
    BY <1>4, <1>6
  <2> QED BY <1>0, <1>2, <1>6, <2>1, PrefixGained
<1>9. Pool(free', references', plans)
  BY <1>0, <1>2, <1>3, PoolAllocate DEF list
<1>10. TablesInv'
  <2>1. \A g \in Handle : /\ prefixes'[g].live \in BOOLEAN
                          /\ prefixes'[g].live => Table(prefixes'[g].pages, prefixes'[g].rows)
    BY <1>5, <1>6, <1>7 DEF Shape, TablesInv
  <2>2. DOMAIN prefixes' = Handle
    BY <1>0, <1>2
  <2>3. pages' \in [Slot -> Seq(Page)] /\ rows' \in [Slot -> Rows]
        /\ \A u \in Slot : Table(pages'[u], rows'[u])
    BY <1>0 DEF Shape, TablesInv
  <2> QED BY <2>1, <2>2, <2>3 DEF TablesInv, Table
<1>11. ASSUME NEW l \in Lane, plans[l].stage # "none"
      PROVE  NoNewOwner(plans[l], pages, prefixes, pages', prefixes')
  <2>1. ASSUME NEW p, SlotsWith(pages, p) # {}, PrefixesWith(prefixes, p) = {}
        PROVE  PrefixesWith(prefixes', p) = {}
    <3>1. p \notin ToSet(list)
      BY <1>4, <2>1, NotFree DEF SlotsWith
    <3>2. \A g \in Handle : prefixes'[g].live => p \notin ToSet(prefixes'[g].pages)
      BY <1>6, <1>7, <2>1, <3>1 DEF PrefixesWith
    <3> QED BY <3>2 DEF PrefixesWith
  <2> QED BY <1>0, <2>1 DEF NoNewOwner
\* The row of the prefix each cell gets.
<1>12. ASSUME NEW r \in 1..n
       PROVE  LET p == list[(r - 1) \div PAGE_ROWS + 1]
                  i == (r - 1) % PAGE_ROWS
              IN  at(p, i) = {r} /\ p \in ToSet(list) /\ p \in Page /\ i \in 0..PAGE_ROWS - 1
  <2>1. \A q \in 1..n : /\ q - 1 \in Nat /\ q - 1 < n
                        /\ (q - 1) \div PAGE_ROWS + 1 \in 1..Len(list)
                        /\ (q - 1) \div PAGE_ROWS \in Nat
    <3> SUFFICES ASSUME NEW q \in 1..n
                 PROVE  /\ q - 1 \in Nat /\ q - 1 < n
                        /\ (q - 1) \div PAGE_ROWS + 1 \in 1..Len(list)
                        /\ (q - 1) \div PAGE_ROWS \in Nat
      OBVIOUS
    <3>1. q - 1 \in Nat /\ q - 1 < n
      BY <1>1
    <3> QED BY <1>1, <1>4, <3>1, RowsHavePages, RowParts DEF count
  <2>2. ASSUME NEW q \in 1..n,
               list[(q - 1) \div PAGE_ROWS + 1] = list[(r - 1) \div PAGE_ROWS + 1],
               (q - 1) % PAGE_ROWS = (r - 1) % PAGE_ROWS
        PROVE  q = r
    <3>1. (q - 1) \div PAGE_ROWS + 1 = (r - 1) \div PAGE_ROWS + 1
      BY <1>4, <2>1, <2>2 DEF Injective
    <3>2. (q - 1) \div PAGE_ROWS = (r - 1) \div PAGE_ROWS
      BY <2>1, <3>1
    <3>3. q - 1 = r - 1
      BY <2>1, <2>2, <3>2, SameRow
    <3> QED BY <1>1, <3>3
  <2>3. (r - 1) % PAGE_ROWS \in 0..PAGE_ROWS - 1
    BY <2>1, RowParts
  <2>4. list[(r - 1) \div PAGE_ROWS + 1] \in ToSet(list) /\ ToSet(list) \subseteq Page
    BY <1>4, <2>1, SequenceFacts, SeqSet
  <2> QED BY <2>2, <2>3, <2>4
<1>13. \A p \in Page : p \notin ToSet(list) => \A i : at(p, i) = {}
  BY <1>12
<1>14. \A p \in Page : p \notin ToSet(free) => cells'[p] = cells[p]
  <2> SUFFICES ASSUME NEW p \in Page, p \notin ToSet(free) PROVE cells'[p] = cells[p]
    OBVIOUS
  <2>1. \A i : at(p, i) = {}
    BY <1>4, <1>13
  <2>2. cells'[p] = [i \in 0..PAGE_ROWS - 1 |-> cells[p][i]]
    BY <1>0, <2>1
  <2> QED BY <1>2, <2>2
<1>15. cells' \in [Page -> [0..PAGE_ROWS - 1 -> Value]]
  <2>1. ASSUME NEW p \in Page, NEW i \in 0..PAGE_ROWS - 1, at(p, i) # {}
        PROVE  content[CHOOSE r \in at(p, i) : TRUE] \in Value
    <3>1. (CHOOSE r \in at(p, i) : TRUE) \in 1..n
      BY <2>1
    <3> QED BY <1>1, <3>1, SequenceFacts
  <2>2. \A p \in Page, i \in 0..PAGE_ROWS - 1 : cells[p][i] \in Value
    BY <1>2
  <2> HIDE DEF at
  <2> QED BY <1>0, <2>1, <2>2
<1>16. Shows(cells', list, n, content)
  <2>1. ASSUME NEW r \in 1..n
        PROVE  content[r] = cells'[list[(r - 1) \div PAGE_ROWS + 1]][(r - 1) % PAGE_ROWS]
    <3> DEFINE p == list[(r - 1) \div PAGE_ROWS + 1]
               i == (r - 1) % PAGE_ROWS
    <3>1. at(p, i) = {r} /\ p \in Page /\ i \in 0..PAGE_ROWS - 1
      BY <1>12
    <3> HIDE DEF at, p, i
    <3>2. cells'[p][i] = content[CHOOSE q \in at(p, i) : TRUE]
      BY <1>0, <3>1
    <3>3. (CHOOSE q \in at(p, i) : TRUE) = r
      BY <3>1
    <3> QED BY <3>2, <3>3 DEF p, i
  <2>2. content = [r \in 1..n |-> content[r]]
    BY DEF content
  <2> QED BY <2>1, <2>2 DEF Shows
<1>17. \A g \in Handle : prefixes'[g].live =>
          Shows(cells', prefixes'[g].pages, prefixes'[g].rows, prefixes'[g].hist)
  <2> SUFFICES ASSUME NEW g \in Handle, prefixes'[g].live
               PROVE  Shows(cells', prefixes'[g].pages, prefixes'[g].rows, prefixes'[g].hist)
    OBVIOUS
  <2>1. CASE g = h
    BY <1>6, <1>7, <1>16, <2>1
  <2>2. CASE g # h
    <3>1. prefixes'[g] = prefixes[g] /\ prefixes[g].live
      BY <1>7, <2>2
    <3>2. /\ Table(prefixes[g].pages, prefixes[g].rows)
          /\ Shows(cells, prefixes[g].pages, prefixes[g].rows, prefixes[g].hist)
      BY <3>1 DEF Shape, TablesInv, RowsInv
    <3>3. \A p \in ToSet(prefixes[g].pages) : cells'[p] = cells[p]
      BY <1>14, <3>1, NotFree
    <3> QED BY <3>1, <3>2, <3>3, TableShowsKept
  <2> QED BY <2>1, <2>2
<1>18. \A u \in Slot \ writing : Shows(cells', pages'[u], rows'[u], hist'[u])
  <2> SUFFICES ASSUME NEW u \in Slot \ writing PROVE Shows(cells', pages[u], rows[u], hist[u])
    BY <1>0
  <2>1. Table(pages[u], rows[u]) /\ Shows(cells, pages[u], rows[u], hist[u])
    BY IdleSlot
  <2>2. \A p \in ToSet(pages[u]) : cells'[p] = cells[p]
    BY <1>14, NotFree
  <2> QED BY <2>1, <2>2, TableShowsKept
<1> QED BY <1>0, <1>2, <1>8, <1>9, <1>10, <1>11, <1>14, <1>15, <1>17, <1>18, IdleStep

-----------------------------------------------------------------------------
(* The stream: the tail copies and the stores. *)

\* No row outside transaction l is on page p.
Private(l, p) ==
    /\ PrefixesWith(prefixes, p) = {}
    /\ \A u \in Slot \ SlotsIn(plans[l]) : p \notin ToSet(pages[u])
    /\ \A m \in Lane : m # l => p \notin Claimed(plans[m])

\* Writing to the private pages of one lane changes no prefix's row and no other slot's.
LEMMA RowsElsewhere ==
    ASSUME Shape, RowsInv, NEW l \in Lane, NEW d,
           \A p \in Page : ~Private(l, p) => d[p] = cells[p]
    PROVE  /\ \A h \in Handle : prefixes[h].live =>
                  Shows(d, prefixes[h].pages, prefixes[h].rows, prefixes[h].hist)
           /\ \A s \in Slot : s \notin SlotsIn(plans[l]) /\ Unwritten(s) =>
                  Shows(d, pages[s], rows[s], hist[s])
           /\ \A m \in Lane : m # l => PlanRows(plans[m], d, hist, pages, rows)
<1>1. ASSUME NEW h \in Handle, prefixes[h].live
      PROVE  Shows(d, prefixes[h].pages, prefixes[h].rows, prefixes[h].hist)
  <2>1. /\ Table(prefixes[h].pages, prefixes[h].rows)
        /\ Shows(cells, prefixes[h].pages, prefixes[h].rows, prefixes[h].hist)
    BY <1>1 DEF Shape, TablesInv, RowsInv
  <2>2. \A p \in ToSet(prefixes[h].pages) : p \in Page /\ ~Private(l, p)
    BY <1>1, NotFree DEF Private, PrefixesWith
  <2> QED BY <2>1, <2>2, TableShowsKept
<1>2. ASSUME NEW s \in Slot, s \notin SlotsIn(plans[l])
      PROVE  \A p \in ToSet(pages[s]) : d[p] = cells[p]
  <2>1. \A p \in ToSet(pages[s]) : p \in Page /\ ~Private(l, p)
    BY <1>2, NotFree DEF Private
  <2> QED BY <2>1
<1>3. ASSUME NEW s \in Slot, s \notin SlotsIn(plans[l]), Unwritten(s)
      PROVE  Shows(d, pages[s], rows[s], hist[s])
  <2>1. Table(pages[s], rows[s]) /\ Shows(cells, pages[s], rows[s], hist[s])
    BY <1>3 DEF Shape, TablesInv, RowsInv
  <2>2. \A p \in ToSet(pages[s]) : d[p] = cells[p]
    BY <1>2, <1>3
  <2> QED BY ONLY <2>1, <2>2, TableShowsKept
<1>4. ASSUME NEW m \in Lane, m # l PROVE PlanRows(plans[m], d, hist, pages, rows)
  <2>1. PlanRows(plans[m], cells, hist, pages, rows)
    BY DEF RowsInv
  <2>2. \A s \in SlotsIn(plans[m]) : \A p \in ToSet(pages[s]) : d[p] = cells[p]
    <3>1. \A s \in SlotsIn(plans[m]) : s \in Slot /\ s \notin SlotsIn(plans[l])
      BY <1>4, NewTablePages DEF Shape, WritingInv
    <3> QED BY <1>2, <3>1
  <2>3. \A p \in Claimed(plans[m]) : d[p] = cells[p]
    <3>1. \A p \in Claimed(plans[m]) : p \in Page /\ ~Private(l, p)
      BY <1>4, NotFree DEF Private
    <3> QED BY <3>1
  <2>4. \A s \in SlotsIn(plans[m]) :
            pages[s] = pages[s] /\ rows[s] = rows[s] /\ hist[s] = hist[s]
    OBVIOUS
  <2> QED BY ONLY Shape, <2>1, <2>2, <2>3, <2>4, PlanRowsKept, m \in Lane
<1> QED BY <1>1, <1>3, <1>4

\* A transaction goes on to its next stage.
LEMMA StageStep ==
    ASSUME Shape, NEW l \in Lane, plans[l].stage # "none",
           NEW st \in {"copied", "written"}, plans' = [plans EXCEPT ![l].stage = st],
           UNCHANGED <<free, references, pages, rows, writing, prefixes>>
    PROVE  /\ Shape'
           /\ plans'[l].stage = st
           /\ \A m \in Lane : m # l => plans'[m] = plans[m]
           /\ SlotsIn(plans'[l]) = SlotsIn(plans[l])
           /\ \A s : AppendOf(plans'[l], s) = AppendOf(plans[l], s)
           /\ \A s : NewTable(plans'[l], s, pages[s]) = NewTable(plans[l], s, pages[s])
<1> DEFINE plan == plans[l]
           next == plans'[l]
<1>1. /\ PlanType(plan) /\ PlanFits(plan, pages, rows) /\ PlanClaims(plan, pages)
      /\ PlanAlone(plan, pages, rows, prefixes)
  BY PlanFacts
<1>2. DOMAIN plans = Lane
  BY DEF Shape, PlansInv
<1>3. next = [plan EXCEPT !.stage = st] /\ \A m \in Lane : m # l => plans'[m] = plans[m]
  BY <1>2
<1>4. DOMAIN plan = {"stage", "appends", "replacements", "additions", "claimed"}
  BY <1>1 DEF PlanType
<1>5. /\ DOMAIN next = DOMAIN plan /\ next.stage = st
      /\ next.appends = plan.appends /\ next.replacements = plan.replacements
      /\ next.additions = plan.additions /\ next.claimed = plan.claimed
  <2> HIDE DEF plan, next
  <2> QED BY <1>3, <1>4
<1> HIDE DEF next
<1>6. SlotsIn(next) = SlotsIn(plan) /\ Claimed(next) = Claimed(plan)
  BY <1>5 DEF SlotsIn, Claimed
<1>7. /\ \A m \in Lane : SlotsIn(plans'[m]) = SlotsIn(plans[m])
      /\ \A m \in Lane : Claimed(plans'[m]) = Claimed(plans[m])
  BY <1>3, <1>6 DEF next
<1>8. /\ \A s : AppendOf(next, s) = AppendOf(plan, s) /\ Places(next, s) = Places(plan, s)
      /\ \A s : Moves(next, s) <=> Moves(plan, s)
      /\ \A s : Move(next, s) = Move(plan, s)
  BY <1>5 DEF AppendOf, Places, Moves, Move
<1>9. \A s, list : NewTable(next, s, list) = NewTable(plan, s, list)
  BY <1>5, <1>8 DEF NewTable, NewPage
<1>10. /\ PlanType(next) /\ PlanFits(next, pages, rows) /\ PlanClaims(next, pages)
       /\ PlanAlone(next, pages, rows, prefixes)
  <2>1. \A s \in Slot : Table(pages[s], rows[s])
    BY DEF Shape, TablesInv
  <2>2. NoNewOwner(plan, pages, prefixes, pages, prefixes)
    BY DEF NoNewOwner
  <2>3. next.stage \in {"reserved", "copied", "written"}
    BY <1>5
  <2>4. \A s \in SlotsOf(plan.appends) : pages[s] = pages[s] /\ rows[s] = rows[s]
    OBVIOUS
  <2> HIDE DEF plan
  <2> QED BY ONLY <1>1, <1>5, <2>1, <2>2, <2>3, <2>4, PlanCarried
<1>11. PlansInv'
  <2>1. DOMAIN plans' = Lane
    BY <1>2
  <2>2. \A m \in Lane : plans'[m].stage = "none" => plans'[m] = NoPlan
    BY <1>3, <1>5 DEF Shape, PlansInv, next
  <2>3. ASSUME NEW m \in Lane, plans'[m].stage # "none"
        PROVE  /\ PlanType(plans'[m]) /\ PlanFits(plans'[m], pages, rows)
               /\ PlanClaims(plans'[m], pages) /\ PlanAlone(plans'[m], pages, rows, prefixes)
    <3>1. CASE m = l
      BY <1>10, <3>1 DEF next
    <3>2. CASE m # l
      BY <1>3, <2>3, <3>2 DEF Shape, PlansInv
    <3> QED BY <3>1, <3>2
  <2> QED BY <2>1, <2>2, <2>3 DEF PlansInv
<1>12. Pool(free, references, plans')
  BY <1>7, PoolSameClaims DEF Shape
<1>13. WritingInv'
  BY <1>7 DEF Shape, WritingInv
<1>14. TablesInv' /\ Counted(references', pages', prefixes')
  BY DEF Shape, TablesInv, Table
<1> QED BY <1>3, <1>5, <1>6, <1>8, <1>9, <1>11, <1>12, <1>13, <1>14 DEF Shape, next

\* The page a copied tail goes to belongs to the transaction and to one copy.
LEMMA CopyTarget ==
    ASSUME Shape, NEW l \in Lane, plans[l].stage # "none", NEW s, Moves(plans[l], s)
    PROVE  /\ s \in SlotsOf(plans[l].appends)
           /\ Move(plans[l], s).destination \in Claimed(plans[l])
           /\ \A u : /\ Moves(plans[l], u)
                     /\ Move(plans[l], u).destination = Move(plans[l], s).destination
                     => u = s
           /\ Move(plans[l], s).logical = Len(pages[s])
           /\ Move(plans[l], s).source = pages[s][Len(pages[s])]
<1> DEFINE plan == plans[l]
<1>1. /\ PlanType(plan) /\ PlanFits(plan, pages, rows) /\ PlanClaims(plan, pages)
      /\ Claimed(plan) = ToSet(plan.claimed)
      /\ \A u \in SlotsOf(plan.appends) :
            /\ Table(pages[u], rows[u])
            /\ ToSet(pages[u]) \cap ToSet(plan.claimed) = {}
  BY PlanFacts
<1>2. Moves(plan, s)
  OBVIOUS
<1> HIDE DEF plan
<1>3. ASSUME NEW u, Moves(plan, u)
      PROVE  /\ u \in SlotsOf(plan.appends)
             /\ Move(plan, u).logical = Len(pages[u]) /\ Move(plan, u).source = pages[u][Len(pages[u])]
             /\ Len(pages[u]) \in Places(plan, u)
             /\ IsNew(plan, u, pages[u], Len(pages[u]))
             /\ NewPage(plan, u, pages[u], Len(pages[u])) = Move(plan, u).destination
  <2>1. u \in SlotsOf(plan.appends)
    BY <1>1, <1>3, MoveFacts
  <2>2. /\ Move(plan, u).logical = Len(pages[u]) /\ Len(pages[u]) \in 1..Len(pages[u])
        /\ Move(plan, u).source = pages[u][Len(pages[u])]
    BY <1>1, <1>3, <2>1, MoveFits
  <2>3. /\ Len(pages[u]) \in Nat /\ Len(pages[u]) <= PagesFor(AppendOf(plan, u).new)
        /\ AppendOf(plan, u).new \in Nat
    BY <1>1, <2>1, NewTableFacts
  <2>4. Len(pages[u]) \in Places(plan, u)
    BY <2>2, <2>3, PagesOfRows DEF Places
  <2> QED BY <1>3, <2>1, <2>2, <2>4 DEF IsNew, NewPage
<1>4. s \in SlotsOf(plan.appends) /\ Move(plan, s).destination \in ToSet(plan.claimed)
  BY <1>1, <1>2, <1>3 DEF PlanClaims
<1>5. ASSUME NEW u, Moves(plan, u), Move(plan, u).destination = Move(plan, s).destination
      PROVE  u = s
  BY <1>1, <1>2, <1>3, <1>5 DEF PlanClaims
<1> QED BY <1>1, <1>2, <1>3, <1>4, <1>5 DEF plan

\* A claimed page is private to its transaction.
LEMMA ClaimedPrivate ==
    ASSUME Shape, NEW l \in Lane, NEW p \in Claimed(plans[l])
    PROVE  p \in Page /\ Private(l, p) /\ \A u \in Slot : p \notin ToSet(pages[u])
<1>1. p \in Page
  BY DEF Shape, Pool
<1>2. SlotsWith(pages, p) = {} /\ PrefixesWith(prefixes, p) = {}
  BY <1>1, OwnedPages DEF Shape
<1>3. \A m \in Lane : m # l => p \notin Claimed(plans[m])
  BY DEF Shape, Pool
<1> QED BY <1>1, <1>2, <1>3 DEF Private, SlotsWith

\* Copying the shared last pages to their replacements keeps the invariant.
LEMMA CopySharedTailsStep ==
    ASSUME Shape, RowsInv, NEW l \in Lane, CopySharedTails(l)
    PROVE  Shape' /\ RowsInv'
<1> DEFINE plan == plans[l]
           onto(p) == {m \in plan.replacements : m.destination = p}
<1>0. /\ plan.stage = "reserved"
      /\ cells' = [p \in Page |-> IF onto(p) = {} THEN cells[p]
                                  ELSE cells[(CHOOSE m \in onto(p) : TRUE).source]]
      /\ plans' = [plans EXCEPT ![l].stage = "copied"]
      /\ UNCHANGED <<free, references, pages, rows, writing, prefixes, hist>>
  BY DEF CopySharedTails
<1>1. /\ Shape'
      /\ plans'[l].stage = "copied"
      /\ \A m \in Lane : m # l => plans'[m] = plans[m]
      /\ SlotsIn(plans'[l]) = SlotsIn(plan)
      /\ \A s : NewTable(plans'[l], s, pages[s]) = NewTable(plan, s, pages[s])
  BY <1>0, StageStep
<1>2. /\ PlanType(plan) /\ SlotsIn(plan) = SlotsOf(plan.appends)
      /\ \A s \in SlotsOf(plan.appends) : s \in Slot /\ Table(pages[s], rows[s])
  BY <1>0, PlanFacts
<1>3. /\ cells \in [Page -> [0..PAGE_ROWS - 1 -> Value]] /\ hist \in [Slot -> Seq(Value)]
  BY DEF RowsInv
<1>4. \A p : \A m \in onto(p) : Moves(plan, m.slot) /\ Move(plan, m.slot) = m
  BY <1>2, MoveFacts DEF Moves
<1> HIDE DEF plan
\* The copies go to claimed pages.
<1>5. ASSUME NEW p \in Page, p \notin Claimed(plan) PROVE cells'[p] = cells[p]
  <2>1. onto(p) = {}
    <3> SUFFICES ASSUME NEW m \in onto(p) PROVE FALSE
      OBVIOUS
    <3>1. Moves(plan, m.slot) /\ Move(plan, m.slot).destination = p
      BY <1>4
    <3> QED BY <1>0, <1>5, <3>1, CopyTarget DEF plan
  <2> QED BY <1>0, <2>1
<1>6. ASSUME NEW s, Moves(plan, s)
      PROVE  cells'[Move(plan, s).destination] = cells[Move(plan, s).source]
  <2> DEFINE p == Move(plan, s).destination
             m == CHOOSE m \in onto(p) : TRUE
  <2>1. Move(plan, s) \in onto(p) /\ p \in Page
    BY <1>2, <1>6, MoveFacts
  <2>2. m \in onto(p)
    BY <2>1
  <2>3. Moves(plan, m.slot) /\ Move(plan, m.slot) = m
    BY <1>4, <2>2
  <2>4. m.slot = s
    BY <1>0, <1>6, <2>2, <2>3, CopyTarget DEF plan
  <2>5. m = Move(plan, s)
    BY <2>3, <2>4
  <2> HIDE DEF m, p
  <2> QED BY <1>0, <2>1, <2>5 DEF m, p
<1>7. \A p \in Page : ~Private(l, p) => cells'[p] = cells[p]
  BY <1>5, ClaimedPrivate DEF plan
<1>8. /\ \A h \in Handle : prefixes[h].live =>
            Shows(cells', prefixes[h].pages, prefixes[h].rows, prefixes[h].hist)
      /\ \A m \in Lane : m # l => PlanRows(plans[m], cells', hist, pages, rows)
  BY <1>7, RowsElsewhere
<1>9. ASSUME NEW s \in Slot, Unwritten(s)' PROVE Shows(cells', pages[s], rows[s], hist[s])
  <2>1. Unwritten(s)
    BY <1>0, <1>1, <1>9 DEF Unwritten, plan
  <2>2. Table(pages[s], rows[s]) /\ Shows(cells, pages[s], rows[s], hist[s])
    BY <2>1 DEF Shape, TablesInv, RowsInv
  <2>3. \A p \in ToSet(pages[s]) : cells'[p] = cells[p]
    BY <1>5, TablesApart, NotFree DEF plan
  <2> QED BY ONLY <2>2, <2>3, TableShowsKept
<1>10. ASSUME NEW s \in SlotsIn(plan)
       PROVE  Shows(cells', NewTable(plan, s, pages[s]), rows[s], hist[s])
  <2> DEFINE t == NewTable(plan, s, pages[s])
  <2>1. /\ s \in Slot /\ s \in SlotsOf(plan.appends) /\ Table(pages[s], rows[s])
        /\ rows[s] \in Nat /\ Len(pages[s]) = PagesFor(rows[s])
    BY <1>2, PageShape DEF Table, Rows
  <2>2. Shows(cells, pages[s], rows[s], hist[s])
    <3>1. \A m \in Lane : m # l => s \notin SlotsIn(plans[m])
      BY <1>10 DEF Shape, WritingInv, plan
    <3>2. Unwritten(s)
      BY <1>0, <3>1 DEF Unwritten, plan
    <3> QED BY <2>1, <3>2 DEF RowsInv
  <2>3. ASSUME NEW k \in 1..Len(pages[s]) PROVE cells'[t[k]] = cells[pages[s][k]]
    <3>1. /\ k \in Places(plan, s) /\ t[k] = NewPage(plan, s, pages[s], k)
          /\ pages[s][k] \in ToSet(pages[s]) /\ pages[s] \in Seq(Page)
      <4>1. /\ Len(pages[s]) <= PagesFor(AppendOf(plan, s).new) /\ Len(pages[s]) \in Nat
            /\ AppendOf(plan, s).new \in Nat
            /\ \A j \in Places(plan, s) : t[j] = NewPage(plan, s, pages[s], j)
        <5>1. /\ PlanType(plan) /\ PlanFits(plan, pages, rows) /\ PlanClaims(plan, pages)
              /\ ToSet(pages[s]) \cap ToSet(plan.claimed) = {}
          BY <1>0, <2>1, PlanFacts DEF plan
        <5> QED BY <2>1, <5>1, NewTableFacts
      <4>2. k \in Places(plan, s)
        <5>1. PagesFor(AppendOf(plan, s).new) \in Nat
          BY <4>1, PagesOfRows
        <5> HIDE DEF t
        <5> QED BY <4>1, <5>1 DEF Places
      <4>3. pages[s] \in Seq(Page)
        BY <2>1 DEF Table
      <4> QED BY <4>1, <4>2, <4>3, SequenceFacts
    <3>2. CASE Moves(plan, s) /\ Move(plan, s).logical = k
      <4>1. t[k] = Move(plan, s).destination
        BY <3>1, <3>2 DEF NewPage
      <4>2. Move(plan, s).source = pages[s][k]
        BY <1>0, <3>2, CopyTarget DEF plan
      <4> QED BY <1>6, <3>2, <4>1, <4>2
    <3>3. CASE ~(Moves(plan, s) /\ Move(plan, s).logical = k)
      <4>1. t[k] = pages[s][k]
        BY <3>1, <3>3 DEF NewPage
      <4>2. t[k] \in Page /\ t[k] \notin Claimed(plan)
        BY <2>1, <3>1, <4>1, TablesApart DEF plan
      <4> QED BY <1>5, <4>1, <4>2
    <3> QED BY <3>2, <3>3
  <2>4. ASSUME NEW r \in 1..rows[s]
        PROVE  cells'[t[(r - 1) \div PAGE_ROWS + 1]] = cells[pages[s][(r - 1) \div PAGE_ROWS + 1]]
    <3>1. r - 1 \in Nat /\ r - 1 < rows[s]
      BY <2>1
    <3>2. (r - 1) \div PAGE_ROWS + 1 \in 1..Len(pages[s])
      BY <2>1, <3>1, RowsHavePages
    <3> QED BY <2>3, <3>2
  <2> HIDE DEF t
  <2> QED BY <2>2, <2>4 DEF Shows, t
<1>11. ASSUME NEW m \in Lane PROVE PlanRows(plans'[m], cells', hist, pages, rows)
  <2>1. CASE m = l
    BY <1>1, <1>10, <2>1 DEF PlanRows
  <2>2. CASE m # l
    BY <1>1, <1>8, <2>2
  <2> QED BY <2>1, <2>2
<1>12. cells' \in [Page -> [0..PAGE_ROWS - 1 -> Value]]
  <2>1. ASSUME NEW p \in Page PROVE cells'[p] \in [0..PAGE_ROWS - 1 -> Value]
    <3>1. CASE onto(p) = {}
      BY <1>0, <1>3, <3>1
    <3>2. CASE onto(p) # {}
      <4>1. PICK m \in onto(p) : m = CHOOSE x \in onto(p) : TRUE
        BY <3>2
      <4>2. m.source \in Page
        BY <1>2, <1>4, <4>1, MoveFacts
      <4> QED BY <1>0, <1>3, <3>2, <4>1, <4>2
    <3> QED BY <3>1, <3>2
  <2> HIDE DEF onto
  <2> QED BY <1>0, <2>1
<1> QED BY <1>0, <1>1, <1>3, <1>8, <1>9, <1>11, <1>12 DEF RowsInv

\* Writing an append's rows keeps the invariant.
LEMMA WriteRowsStep ==
    ASSUME Shape, RowsInv, NEW l \in Lane, WriteRows(l)
    PROVE  Shape' /\ RowsInv'
<1> DEFINE plan == plans[l]
           works == {plan.appends[n] : n \in DOMAIN plan.appends}
           lands(p, i) == {a \in works : \E r \in rows[a.slot]..a.new - 1 :
                              Destination(plan, a.slot, r) = p /\ r % PAGE_ROWS = i}
<1>0. /\ plan.stage = "copied"
      /\ cells' = [p \in Page |-> [i \in 0..PAGE_ROWS - 1 |->
                      IF lands(p, i) = {} THEN cells[p][i]
                      ELSE (CHOOSE a \in lands(p, i) : TRUE).value]]
      /\ plans' = [plans EXCEPT ![l].stage = "written"]
      /\ UNCHANGED <<free, references, pages, rows, writing, prefixes, hist>>
  BY DEF WriteRows
<1>1. /\ Shape'
      /\ plans'[l].stage = "written"
      /\ \A m \in Lane : m # l => plans'[m] = plans[m]
      /\ SlotsIn(plans'[l]) = SlotsIn(plan)
      /\ \A s : AppendOf(plans'[l], s) = AppendOf(plan, s)
      /\ \A s : NewTable(plans'[l], s, pages[s]) = NewTable(plan, s, pages[s])
  BY <1>0, StageStep
<1>2. /\ PlanType(plan) /\ SlotsIn(plan) = SlotsOf(plan.appends)
      /\ \A s \in SlotsOf(plan.appends) : s \in Slot /\ rows[s] \in Nat
  <2>1. \A s \in SlotsOf(plan.appends) : s \in Slot /\ Table(pages[s], rows[s])
    BY <1>0, PlanFacts
  <2> QED BY <1>0, <2>1, PlanFacts, PageShape DEF Table, Rows
<1>3. /\ cells \in [Page -> [0..PAGE_ROWS - 1 -> Value]] /\ hist \in [Slot -> Seq(Value)]
  BY DEF RowsInv
<1>20. \A a \in works : a.slot \in SlotsOf(plan.appends) /\ a = AppendOf(plan, a.slot)
  <2> SUFFICES ASSUME NEW i \in DOMAIN plan.appends
               PROVE  LET a == plan.appends[i] IN
                      a.slot \in SlotsOf(plan.appends) /\ a = AppendOf(plan, a.slot)
    OBVIOUS
  <2>1. plan.appends[i].slot \in SlotsOf(plan.appends)
    BY DEF SlotsOf
  <2> HIDE DEF plan
  <2> QED BY <1>2, <2>1, AppendOfFacts
<1>21. \A s \in SlotsOf(plan.appends) :
          /\ AppendOf(plan, s) \in works /\ AppendOf(plan, s).slot = s
          /\ AppendOf(plan, s).new \in Nat /\ AppendOf(plan, s).value \in Value
  <2> SUFFICES ASSUME NEW s \in SlotsOf(plan.appends)
               PROVE  /\ AppendOf(plan, s) \in works /\ AppendOf(plan, s).slot = s
                      /\ AppendOf(plan, s).new \in Nat /\ AppendOf(plan, s).value \in Value
    OBVIOUS
  <2>1. /\ AppendOf(plan, s) \in [slot : Slot, new : Rows, value : Value]
        /\ AppendOf(plan, s).slot = s
        /\ \E i \in DOMAIN plan.appends : plan.appends[i] = AppendOf(plan, s)
    <3> HIDE DEF plan
    <3> QED BY <1>2, AppendOfFacts
  <2> QED BY <2>1, PageShape DEF Rows
<1> HIDE DEF plan, works
\* What lands on a page.
<1>4. ASSUME NEW p, NEW i, NEW a \in lands(p, i)
      PROVE  \E s \in SlotsOf(plan.appends), r \in Nat :
                /\ a = AppendOf(plan, s) /\ rows[s] <= r /\ r < AppendOf(plan, s).new
                /\ p = Destination(plan, s, r) /\ i = r % PAGE_ROWS
  <2>1. a \in works /\ a.slot \in SlotsOf(plan.appends) /\ a = AppendOf(plan, a.slot)
    BY <1>20
  <2>2. PICK r \in rows[a.slot]..a.new - 1 :
            Destination(plan, a.slot, r) = p /\ r % PAGE_ROWS = i
    OBVIOUS
  <2>3. rows[a.slot] \in Nat /\ a.new \in Nat
    BY <1>2, <1>21, <2>1
  <2>4. r \in Nat /\ rows[a.slot] <= r /\ r < a.new
    BY <2>2, <2>3
  <2> HIDE DEF lands
  <2> QED BY <2>1, <2>2, <2>4
<1>5. ASSUME NEW s \in SlotsOf(plan.appends), NEW r \in Nat,
             rows[s] <= r, r < AppendOf(plan, s).new
      PROVE  AppendOf(plan, s) \in lands(Destination(plan, s, r), r % PAGE_ROWS)
  <2>1. rows[s] \in Nat /\ AppendOf(plan, s).new \in Nat
    BY <1>2, <1>21
  <2>2. r \in rows[s]..AppendOf(plan, s).new - 1
    BY <1>5, <2>1
  <2> QED BY <1>21, <2>2
<1> HIDE DEF lands
<1>6. ASSUME NEW s \in SlotsOf(plan.appends), NEW r \in Nat,
             rows[s] <= r, r < AppendOf(plan, s).new
      PROVE  LET k == r \div PAGE_ROWS + 1
                 p == NewPage(plan, s, pages[s], k)
             IN
             /\ k \in Places(plan, s) /\ p \in Page
             /\ Destination(plan, s, r) = p
             /\ \A u \in SlotsOf(plan.appends) : \A j \in Places(plan, u) :
                   NewPage(plan, u, pages[u], j) = p => u = s /\ j = k
             /\ Private(l, p)
  BY <1>0, <1>2, <1>6, StoredPages DEF plan, Private
<1>7. ASSUME NEW p, NEW i, lands(p, i) # {} PROVE Private(l, p)
  <2>1. PICK a \in lands(p, i) : TRUE
    BY <1>7
  <2>2. PICK s \in SlotsOf(plan.appends), r \in Nat :
                /\ a = AppendOf(plan, s) /\ rows[s] <= r /\ r < AppendOf(plan, s).new
                /\ p = Destination(plan, s, r) /\ i = r % PAGE_ROWS
    BY <1>4
  <2> QED BY <1>6, <2>2
<1>8. ASSUME NEW p \in Page, ~Private(l, p) PROVE cells'[p] = cells[p]
  <2>1. \A i : lands(p, i) = {}
    BY <1>7, <1>8
  <2>2. cells'[p] = [i \in 0..PAGE_ROWS - 1 |-> cells[p][i]]
    BY <1>0, <2>1
  <2> QED BY <1>3, <2>2
<1>9. /\ \A h \in Handle : prefixes[h].live =>
            Shows(cells', prefixes[h].pages, prefixes[h].rows, prefixes[h].hist)
      /\ \A s \in Slot : s \notin SlotsIn(plan) /\ Unwritten(s) =>
            Shows(cells', pages[s], rows[s], hist[s])
      /\ \A m \in Lane : m # l => PlanRows(plans[m], cells', hist, pages, rows)
  BY <1>8, RowsElsewhere DEF plan
<1>10. ASSUME NEW s \in Slot, Unwritten(s)' PROVE Shows(cells', pages[s], rows[s], hist[s])
  <2>1. s \notin SlotsIn(plan)
    BY <1>1, <1>10 DEF Unwritten
  <2>2. Unwritten(s)
    BY <1>0, <1>1, <1>10 DEF Unwritten, plan
  <2> QED BY <1>9, <2>1, <2>2
<1>11. ASSUME NEW s \in SlotsIn(plan)
       PROVE  Shows(cells', NewTable(plan, s, pages[s]), AppendOf(plan, s).new,
                    Grown(plan, s, hist[s], rows[s]))
  <2> DEFINE t == NewTable(plan, s, pages[s])
             n == AppendOf(plan, s).new
             v == AppendOf(plan, s).value
             more == [i \in 1..n - rows[s] |-> v]
             content == Grown(plan, s, hist[s], rows[s])
  <2>1. s \in SlotsOf(plan.appends) /\ s \in Slot /\ rows[s] \in Nat /\ n \in Nat /\ v \in Value
    BY <1>2, <1>11, <1>21
  <2>2. Table(t, n) /\ rows[s] <= n
    BY <1>11, NewTablePages DEF plan
  <2>3. Shows(cells, t, rows[s], hist[s])
    BY <1>0, <1>11 DEF RowsInv, PlanRows, plan
  <2>4. hist[s] \in Seq(Value) /\ Len(hist[s]) = rows[s]
    <3>1. DOMAIN hist[s] = 1..rows[s]
      BY <2>3 DEF Shows
    <3>2. hist[s] \in Seq(Value)
      BY <1>3, <2>1
    <3> QED BY <2>1, <3>1, <3>2
  <2>5. content = hist[s] \o more
    BY DEF Grown
  <2>6. more \in Seq(Value) /\ Len(more) = n - rows[s] /\ \A i \in 1..n - rows[s] : more[i] = v
    <3>1. n - rows[s] \in Nat
      BY <2>1, <2>2
    <3>2. more \in [1..n - rows[s] -> Value]
      BY <2>1
    <3> QED BY <3>1, <3>2
  <2>7. t \in Seq(Page) /\ Len(t) = PagesFor(n) /\ \A k \in Places(plan, s) :
            t[k] = NewPage(plan, s, pages[s], k)
    <3>1. t \in Seq(Page) /\ Len(t) = PagesFor(n)
      BY <2>2 DEF Table
    <3>2. \A k \in Places(plan, s) : t[k] = NewPage(plan, s, pages[s], k)
      BY <1>0, <2>1, PageComesFrom DEF plan
    <3> QED BY <3>1, <3>2
  <2> HIDE DEF t, n, v, more, content
  <2>8. /\ content \in Seq(Value) /\ Len(content) = n
        /\ \A r \in 1..rows[s] : content[r] = hist[s][r]
        /\ \A r \in rows[s] + 1..n : content[r] = v
    <3>1. /\ content \in Seq(Value) /\ Len(content) = Len(hist[s]) + Len(more)
          /\ \A i \in 1..Len(hist[s]) : content[i] = hist[s][i]
          /\ \A i \in 1..Len(more) : content[Len(hist[s]) + i] = more[i]
      <4>1. hist[s] \in Seq(Value) /\ more \in Seq(Value)
        BY <2>4, <2>6
      <4> QED BY ONLY <2>5, <4>1, ConcatFacts
    <3>2. ASSUME NEW r \in rows[s] + 1..n PROVE content[r] = v
      <4>1. r - rows[s] \in 1..n - rows[s] /\ rows[s] + (r - rows[s]) = r
        BY <2>1
      <4> QED BY <2>4, <2>6, <3>1, <4>1
    <3>3. /\ content \in Seq(Value) /\ Len(content) = n
          /\ \A r \in 1..rows[s] : content[r] = hist[s][r]
      BY <2>1, <2>4, <2>6, <3>1
    <3> QED BY <3>2, <3>3
  <2>9. ASSUME NEW r \in 1..n
        PROVE  content[r] = cells'[t[(r - 1) \div PAGE_ROWS + 1]][(r - 1) % PAGE_ROWS]
    <3> DEFINE q == r - 1
               k == q \div PAGE_ROWS + 1
               i == q % PAGE_ROWS
               p == t[k]
    <3>1. q \in Nat /\ q < n
      BY <2>1
    <3>2. k \in 1..PagesFor(n) /\ i \in 0..PAGE_ROWS - 1 /\ q \div PAGE_ROWS \in Nat
      BY <2>1, <3>1, RowsHavePages, RowParts
    <3>3. k \in Places(plan, s) /\ p = NewPage(plan, s, pages[s], k) /\ p \in Page
      <4>1. k \in Places(plan, s)
        BY <3>2 DEF Places, n
      <4>2. p \in Page
        BY <2>7, <3>2, SequenceFacts
      <4> QED BY <2>7, <4>1, <4>2
    <3>4. cells'[p][i] = IF lands(p, i) = {} THEN cells[p][i]
                         ELSE (CHOOSE a \in lands(p, i) : TRUE).value
      BY <1>0, <3>2, <3>3
    <3> HIDE DEF p, i, k, q
    \* The row it is, if a stored row is on the same cell.
    <3>5. ASSUME NEW a \in lands(p, i)
          PROVE  a = AppendOf(plan, s) /\ rows[s] <= q
      <4>1. PICK u \in SlotsOf(plan.appends), x \in Nat :
                /\ a = AppendOf(plan, u) /\ rows[u] <= x /\ x < AppendOf(plan, u).new
                /\ p = Destination(plan, u, x) /\ i = x % PAGE_ROWS
        BY <1>4
      <4>2. s = u /\ k = x \div PAGE_ROWS + 1
        <5>1. /\ Destination(plan, u, x) = p
              /\ \A w \in SlotsOf(plan.appends) : \A j \in Places(plan, w) :
                    NewPage(plan, w, pages[w], j) = Destination(plan, u, x) =>
                        w = u /\ j = x \div PAGE_ROWS + 1
          BY <1>6, <4>1
        <5> QED BY <2>1, <3>3, <5>1
      <4>3. x \div PAGE_ROWS \in Nat
        BY <4>1, RowParts
      <4>4. q \div PAGE_ROWS = x \div PAGE_ROWS
        BY <3>2, <4>2, <4>3 DEF k
      <4>5. q = x
        BY <3>1, <4>1, <4>4, SameRow DEF i
      <4> QED BY <4>1, <4>2, <4>5
    <3>6. CASE rows[s] <= q
      <4>1. AppendOf(plan, s) \in lands(p, i)
        <5>1. Destination(plan, s, q) = p
          BY <1>6, <2>1, <3>1, <3>3, <3>6 DEF k, n
        <5> QED BY <1>5, <2>1, <3>1, <3>6, <5>1 DEF i, n
      <4>2. (CHOOSE a \in lands(p, i) : TRUE) = AppendOf(plan, s)
        BY <3>5, <4>1
      <4>3. cells'[p][i] = v
        BY <3>4, <4>1, <4>2 DEF v
      <4>4. r \in rows[s] + 1..n
        BY <2>1, <3>6 DEF q
      <4> QED BY <2>8, <4>3, <4>4 DEF p, k, i, q
    <3>7. CASE ~(rows[s] <= q)
      <4>1. lands(p, i) = {}
        BY <3>5, <3>7
      <4>2. r \in 1..rows[s]
        BY <2>1, <3>7 DEF q
      <4>3. hist[s][r] = cells[p][i]
        BY <2>3, <4>2 DEF Shows, p, k, i, q
      <4> QED BY <2>8, <3>4, <4>1, <4>2, <4>3 DEF p, k, i, q
    <3> QED BY <3>6, <3>7
  <2>10. content = [r \in 1..n |-> content[r]]
    BY <2>8
  <2> QED BY <2>9, <2>10 DEF Shows, content, t, n
<1>12. ASSUME NEW m \in Lane PROVE PlanRows(plans'[m], cells', hist, pages, rows)
  <2>1. CASE m = l
    <3>1. \A s : Grown(plans'[l], s, hist[s], rows[s]) = Grown(plan, s, hist[s], rows[s])
      <4> SUFFICES ASSUME NEW s
                   PROVE  Grown(plans'[l], s, hist[s], rows[s]) = Grown(plan, s, hist[s], rows[s])
        OBVIOUS
      <4>1. AppendOf(plans'[l], s) = AppendOf(plan, s)
        BY <1>1
      <4> QED BY <4>1 DEF Grown
    <3> QED BY <1>1, <1>11, <2>1, <3>1 DEF PlanRows
  <2>2. CASE m # l
    BY <1>1, <1>9, <2>2
  <2> QED BY <2>1, <2>2
<1>13. cells' \in [Page -> [0..PAGE_ROWS - 1 -> Value]]
  <2>1. ASSUME NEW p, NEW i, lands(p, i) # {}
        PROVE  (CHOOSE a \in lands(p, i) : TRUE).value \in Value
    <3>1. \A a \in lands(p, i) : a.value \in Value
      BY <1>4, <1>21
    <3> QED BY <2>1, <3>1
  <2>2. \A p \in Page : \A i \in 0..PAGE_ROWS - 1 : cells[p][i] \in Value
    BY <1>3
  <2> QED BY <1>0, <2>1, <2>2
<1> QED BY <1>0, <1>1, <1>3, <1>9, <1>10, <1>12, <1>13 DEF RowsInv

-----------------------------------------------------------------------------
(* The end of a transaction. *)

\* A step that ends a transaction: its slots get tables of their own pages and
\* the claimed ones, which show what they are promised to.
LEMMA EndStep ==
    ASSUME Shape, RowsInv, NEW l \in Lane, plans[l].stage # "none",
           plans' = [plans EXCEPT ![l] = NoPlan],
           writing' = writing \ SlotsIn(plans[l]),
           prefixes' = prefixes, cells' = cells,
           pages' \in [Slot -> Seq(Page)], rows' \in [Slot -> Rows],
           hist' \in [Slot -> Seq(Value)],
           \A s \in Slot : s \notin SlotsIn(plans[l]) =>
               pages'[s] = pages[s] /\ rows'[s] = rows[s] /\ hist'[s] = hist[s],
           \A s \in SlotsIn(plans[l]) :
               /\ Table(pages'[s], rows'[s]) /\ Shows(cells, pages'[s], rows'[s], hist'[s])
               /\ ToSet(pages'[s]) \subseteq ToSet(pages[s]) \cup Claimed(plans[l]),
           Counted(references', pages', prefixes), Pool(free', references', plans')
    PROVE  Shape' /\ RowsInv'
<1> DEFINE S == SlotsIn(plans[l])
<1>1. DOMAIN plans = Lane
  BY DEF Shape, PlansInv
<1>2. /\ plans'[l] = NoPlan /\ plans'[l].stage = "none"
      /\ \A m \in Lane : m # l => plans'[m] = plans[m]
  BY <1>1 DEF NoPlan
<1>3. /\ SlotsIn(plans'[l]) = {}
      /\ \A m \in Lane : m # l => SlotsIn(plans'[m]) = SlotsIn(plans[m])
      /\ \A m \in Lane : m # l => SlotsIn(plans[m]) \cap S = {}
  <2>1. SlotsIn(plans'[l]) = {}
    BY <1>2 DEF SlotsIn
  <2>2. \A m \in Lane : m # l => SlotsIn(plans'[m]) = SlotsIn(plans[m])
    BY <1>2
  <2>3. \A m \in Lane : m # l => SlotsIn(plans[m]) \cap S = {}
    BY DEF Shape, WritingInv
  <2> QED BY <2>1, <2>2, <2>3
<1>4. \A m \in Lane : \A s \in SlotsIn(plans[m]) : s \in Slot /\ s \in SlotsOf(plans[m].appends)
  BY NewTablePages
<1> HIDE DEF S
<1>5. WritingInv'
  <2>1. ASSUME NEW s \in Slot
        PROVE  s \in writing' <=> \E m \in Lane : s \in SlotsIn(plans'[m])
    <3>1. s \in writing <=> \E m \in Lane : s \in SlotsIn(plans[m])
      BY DEF Shape, WritingInv
    <3>2. s \in writing' <=> s \in writing /\ s \notin S
      BY DEF S
    <3>3. ASSUME s \in writing, s \notin S PROVE \E m \in Lane : s \in SlotsIn(plans'[m])
      <4>1. PICK m \in Lane : s \in SlotsIn(plans[m])
        BY <3>1, <3>3
      <4>2. m # l
        BY <3>3, <4>1 DEF S
      <4> QED BY <1>3, <4>1, <4>2
    <3>4. ASSUME NEW m \in Lane, s \in SlotsIn(plans'[m]) PROVE s \in writing /\ s \notin S
      <4>1. m # l /\ s \in SlotsIn(plans[m])
        BY <1>3, <3>4
      <4> QED BY <1>3, <3>1, <4>1
    <3> QED BY <3>2, <3>3, <3>4
  <2>2. \A m, k \in Lane : m # k => SlotsIn(plans'[m]) \cap SlotsIn(plans'[k]) = {}
    <3> SUFFICES ASSUME NEW m \in Lane, NEW k \in Lane, m # k
                 PROVE  SlotsIn(plans'[m]) \cap SlotsIn(plans'[k]) = {}
      OBVIOUS
    <3>1. SlotsIn(plans[m]) \cap SlotsIn(plans[k]) = {}
      BY DEF Shape, WritingInv
    <3> QED BY <1>3, <3>1
  <2>3. writing' \subseteq Slot
    BY DEF Shape, WritingInv
  <2> QED BY <2>1, <2>2, <2>3 DEF WritingInv
<1>6. \A s \in Slot : Table(pages'[s], rows'[s])
  <2> SUFFICES ASSUME NEW s \in Slot PROVE Table(pages'[s], rows'[s])
    OBVIOUS
  <2>1. CASE s \in S
    BY <2>1 DEF S
  <2>2. CASE s \notin S
    BY <2>2 DEF S, Shape, TablesInv
  <2> QED BY <2>1, <2>2
<1>7. TablesInv'
  <2>1. /\ \A h \in Handle : /\ prefixes[h].live \in BOOLEAN
                             /\ prefixes[h].live => Table(prefixes[h].pages, prefixes[h].rows)
        /\ DOMAIN prefixes = Handle
    BY DEF Shape, TablesInv
  <2> QED BY <1>6, <2>1 DEF TablesInv, Table
<1>8. ASSUME NEW m \in Lane, m # l, plans[m].stage # "none"
      PROVE  NoNewOwner(plans[m], pages, prefixes, pages', prefixes)
  <2>1. ASSUME NEW p, SlotsWith(pages, p) # {},
               SlotsWith(pages, p) \subseteq SlotsOf(plans[m].appends),
               NEW s \in SlotsWith(pages', p), s \notin SlotsWith(pages, p)
        PROVE  FALSE
    <3>1. s \in Slot /\ p \in ToSet(pages'[s]) /\ p \notin ToSet(pages[s])
      BY <2>1 DEF SlotsWith
    <3>2. s \in SlotsIn(plans[l])
      BY <3>1
    <3>3. p \in Claimed(plans[l])
      BY <3>1, <3>2
    <3> QED BY <2>1, <3>3, ClaimedPrivate DEF SlotsWith
  <2>2. ASSUME NEW p, SlotsWith(pages, p) # {},
               SlotsWith(pages, p) \subseteq SlotsOf(plans[m].appends)
        PROVE  SlotsWith(pages', p) \subseteq SlotsWith(pages, p)
    BY <2>1, <2>2
  <2> QED BY <2>2 DEF NoNewOwner
<1>9. PlansInv'
  <2>1. ASSUME NEW m \in Lane, plans'[m].stage # "none"
        PROVE  /\ PlanType(plans'[m]) /\ PlanFits(plans'[m], pages', rows')
               /\ PlanClaims(plans'[m], pages') /\ PlanAlone(plans'[m], pages', rows', prefixes')
    <3>1. m # l /\ plans'[m] = plans[m] /\ plans[m].stage # "none"
      BY <1>2, <2>1
    <3>2. /\ PlanType(plans[m]) /\ PlanFits(plans[m], pages, rows) /\ PlanClaims(plans[m], pages)
          /\ PlanAlone(plans[m], pages, rows, prefixes)
          /\ SlotsIn(plans[m]) = SlotsOf(plans[m].appends)
      BY <3>1, PlanFacts
    <3>3. \A s \in SlotsOf(plans[m].appends) : pages'[s] = pages[s] /\ rows'[s] = rows[s]
      BY <1>3, <1>4, <3>1, <3>2 DEF S
    <3>4. \A s \in Slot : Table(pages[s], rows[s])
      BY DEF Shape, TablesInv
    <3>5. NoNewOwner(plans[m], pages, prefixes, pages', prefixes)
      BY <1>8, <3>1
    <3>6. plans[m].stage \in {"reserved", "copied", "written"}
      BY <3>2 DEF PlanType
    <3>7. /\ PlanType(plans[m]) /\ PlanFits(plans[m], pages', rows')
          /\ PlanClaims(plans[m], pages') /\ PlanAlone(plans[m], pages', rows', prefixes)
      BY ONLY <3>2, <3>3, <3>4, <3>5, <3>6, PlanCarried
    <3> QED BY <3>1, <3>7
  <2>2. DOMAIN plans' = Lane
    BY <1>1
  <2>3. \A m \in Lane : plans'[m].stage = "none" => plans'[m] = NoPlan
    BY <1>2 DEF Shape, PlansInv
  <2> QED BY <2>1, <2>2, <2>3 DEF PlansInv
<1>10. ASSUME NEW s \in Slot, Unwritten(s)' PROVE Shows(cells, pages'[s], rows'[s], hist'[s])
  <2>1. CASE s \in S
    BY <2>1 DEF S
  <2>2. CASE s \notin S
    <3>1. Unwritten(s)
      BY <1>2, <1>10, <2>2 DEF Unwritten, S
    <3> QED BY <2>2, <3>1 DEF RowsInv, S
  <2> QED BY <2>1, <2>2
<1>11. ASSUME NEW m \in Lane PROVE PlanRows(plans'[m], cells, hist', pages', rows')
  <2>1. CASE m = l
    BY <1>2, <2>1 DEF PlanRows, SlotsIn
  <2>2. CASE m # l
    <3>1. PlanRows(plans[m], cells, hist, pages, rows)
      BY DEF RowsInv
    <3>2. \A s \in SlotsIn(plans[m]) :
              pages'[s] = pages[s] /\ rows'[s] = rows[s] /\ hist'[s] = hist[s]
      BY <1>3, <1>4, <2>2 DEF S
    <3>3. /\ \A s \in SlotsIn(plans[m]) : \A p \in ToSet(pages[s]) : cells[p] = cells[p]
          /\ \A p \in Claimed(plans[m]) : cells[p] = cells[p]
      OBVIOUS
    <3>4. PlanRows(plans[m], cells, hist', pages', rows')
      BY ONLY Shape, <3>1, <3>2, <3>3, PlanRowsKept, m \in Lane
    <3> QED BY <1>2, <2>2, <3>4
  <2> QED BY <2>1, <2>2
<1>12. RowsInv'
  <2>1. /\ cells \in [Page -> [0..PAGE_ROWS - 1 -> Value]]
        /\ \A h \in Handle : prefixes[h].live =>
              Shows(cells, prefixes[h].pages, prefixes[h].rows, prefixes[h].hist)
    BY DEF RowsInv
  <2> QED BY <1>10, <1>11, <2>1 DEF RowsInv
<1> QED BY <1>5, <1>7, <1>9, <1>12 DEF Shape

\* The slots that give up page p.
Movers(plan, p) == {s \in SlotsOf(plan.appends) : Moves(plan, s) /\ Move(plan, s).source = p}

\* apply gives up the replaced pages, one for each slot that moves off it.
LEMMA GivenUpFacts ==
    ASSUME NEW plan, PlanType(plan)
    PROVE  /\ GivenUp(plan) \in Seq(Page)
           /\ \A p : Mentions(GivenUp(plan), p) = Cardinality(Movers(plan, p))
<1> DEFINE L == Len(plan.appends)
           copied == {i \in DOMAIN plan.appends :
                         \E m \in plan.replacements : m.slot = plan.appends[i].slot}
           order == InOrder(copied)
           given == GivenUp(plan)
           at(n) == plan.appends[order[n]].slot
<1>1. /\ L \in Nat /\ DOMAIN plan.appends = 1..L
      /\ \A i, j \in 1..L : plan.appends[i].slot = plan.appends[j].slot => i = j
  BY SequenceFacts DEF PlanType
<1>2. copied \in SUBSET (1..L)
  BY <1>1
<1>3. \A i \in copied : Moves(plan, plan.appends[i].slot)
  BY DEF Moves
<1>4. \A i \in 1..L : Moves(plan, plan.appends[i].slot) => i \in copied
  BY <1>1 DEF Moves
<1>5. given = [n \in DOMAIN order |-> Move(plan, at(n)).source]
  BY DEF GivenUp, Move
<1> HIDE DEF copied, given
<1>6. /\ order \in Seq(copied) /\ Injective(order) /\ ToSet(order) = copied
      /\ IsFiniteSet(copied)
  BY <1>1, <1>2, InOrderFacts
<1> HIDE DEF order
<1>7. /\ DOMAIN order = 1..Len(order) /\ Len(order) \in Nat
      /\ \A n \in 1..Len(order) : order[n] \in copied
      /\ ToSet(order) = {order[n] : n \in 1..Len(order)}
  BY <1>6, SequenceFacts
<1>8. \A n \in 1..Len(order) : at(n) \in SlotsOf(plan.appends) /\ Moves(plan, at(n))
  BY <1>1, <1>2, <1>3, <1>7 DEF SlotsOf
<1>9. given \in Seq(Page) /\ DOMAIN given = 1..Len(order)
  <2>1. \A n \in 1..Len(order) : Move(plan, at(n)).source \in Page
    BY <1>8, MoveFacts
  <2>2. given \in [1..Len(order) -> Page]
    BY <1>5, <1>7, <2>1
  <2> QED BY <1>7, <2>2
<1>10. ASSUME NEW p PROVE Mentions(given, p) = Cardinality(Movers(plan, p))
  <2> DEFINE P == {n \in DOMAIN given : given[n] = p}
             f == [n \in P |-> at(n)]
  <2>1. P \subseteq 1..Len(order) /\ IsFiniteSet(P)
    <3>1. IsFiniteSet(1..Len(order)) /\ P \subseteq 1..Len(order)
      BY <1>7, <1>9, FS_Interval
    <3> QED BY <3>1, FS_Subset
  <2>2. \A n \in 1..Len(order) : given[n] = Move(plan, at(n)).source
    BY <1>5, <1>7
  <2>3. f \in [P -> Movers(plan, p)]
    BY <1>8, <1>9, <2>2 DEF Movers
  <2>4. \A x, y \in P : f[x] = f[y] => x = y
    <3> SUFFICES ASSUME NEW x \in P, NEW y \in P, at(x) = at(y) PROVE x = y
      OBVIOUS
    <3>1. order[x] = order[y]
      BY <1>1, <1>2, <1>7, <2>1
    <3> QED BY <1>6, <1>7, <2>1, <3>1 DEF Injective
  <2>5. \A z \in Movers(plan, p) : \E x \in P : f[x] = z
    <3> SUFFICES ASSUME NEW z \in Movers(plan, p) PROVE \E x \in P : at(x) = z
      OBVIOUS
    <3>1. z \in SlotsOf(plan.appends) /\ Moves(plan, z) /\ Move(plan, z).source = p
      BY DEF Movers
    <3>2. PICK i \in 1..L : plan.appends[i].slot = z
      BY <1>1, <3>1 DEF SlotsOf
    <3>3. PICK n \in 1..Len(order) : order[n] = i
      BY <1>4, <1>6, <1>7, <3>1, <3>2
    <3>4. at(n) = z /\ n \in P
      BY <1>9, <2>2, <3>1, <3>2, <3>3
    <3> QED BY <3>4
  <2> HIDE DEF P, f
  <2>6. Cardinality(Movers(plan, p)) = Cardinality(P)
    BY ONLY <2>1, <2>3, <2>4, <2>5, SameCount
  <2> QED BY <2>6 DEF Mentions, P
<1> QED BY <1>9, <1>10 DEF given

\* The published tables: which slots have a page that is claimed, and which
\* keep one that is not.
LEMMA NewOwners ==
    ASSUME Shape, NEW l \in Lane, plans[l].stage # "none", NEW p
    PROVE  LET slots == SlotsOf(plans[l].appends)
               with == {s \in slots : p \in ToSet(NewTable(plans[l], s, pages[s]))}
           IN
           /\ p \in Claimed(plans[l]) => \E s \in slots : with = {s}
           /\ p \notin Claimed(plans[l]) =>
                 /\ with = {s \in slots : p \in ToSet(pages[s])} \ Movers(plans[l], p)
                 /\ Movers(plans[l], p) \subseteq {s \in slots : p \in ToSet(pages[s])}
<1> DEFINE plan == plans[l]
           slots == SlotsOf(plan.appends)
           with == {s \in slots : p \in ToSet(NewTable(plan, s, pages[s]))}
<1>1. /\ PlanType(plan) /\ PlanFits(plan, pages, rows) /\ PlanClaims(plan, pages)
      /\ Claimed(plan) = ToSet(plan.claimed)
      /\ \A s \in slots : /\ s \in Slot /\ Table(pages[s], rows[s])
                          /\ ToSet(pages[s]) \cap ToSet(plan.claimed) = {}
  BY PlanFacts
<1> HIDE DEF plan
<1>2. ASSUME NEW s \in slots
      PROVE  /\ Len(pages[s]) \in Nat /\ \A k \in 1..Len(pages[s]) : k \in Places(plan, s)
             /\ p \in ToSet(NewTable(plan, s, pages[s])) <=>
                    \E k \in Places(plan, s) : NewPage(plan, s, pages[s], k) = p
             /\ \A k \in Places(plan, s) : ~IsNew(plan, s, pages[s], k) =>
                   k \in 1..Len(pages[s]) /\ NewPage(plan, s, pages[s], k) = pages[s][k]
             /\ p \in ToSet(pages[s]) <=> \E k \in 1..Len(pages[s]) : pages[s][k] = p
             /\ \A k, j \in 1..Len(pages[s]) : pages[s][k] = pages[s][j] => k = j
  <2> DEFINE t == NewTable(plan, s, pages[s])
             n == AppendOf(plan, s).new
  <2>1. /\ Table(t, n) /\ Len(pages[s]) \in Nat /\ Len(pages[s]) <= PagesFor(n) /\ n \in Nat
        /\ \A k \in Places(plan, s) :
              /\ t[k] = NewPage(plan, s, pages[s], k)
              /\ ~IsNew(plan, s, pages[s], k) =>
                    k \in 1..Len(pages[s]) /\ NewPage(plan, s, pages[s], k) = pages[s][k]
    BY <1>1, NewTableFacts
  <2>2. PagesFor(n) \in Nat /\ Places(plan, s) = 1..PagesFor(n)
    BY <2>1, PagesOfRows DEF Places
  <2> HIDE DEF t, n
  <2>3. ToSet(t) = {t[k] : k \in Places(plan, s)}
    BY <2>1, <2>2, SequenceFacts DEF Table
  <2>4. p \in ToSet(t) <=> \E k \in Places(plan, s) : NewPage(plan, s, pages[s], k) = p
    BY <2>1, <2>3
  <2>5. pages[s] \in Seq(Page) /\ Injective(pages[s])
    BY <1>1 DEF Table
  <2>6. p \in ToSet(pages[s]) <=> \E k \in 1..Len(pages[s]) : pages[s][k] = p
    <3>1. ToSet(pages[s]) = {pages[s][k] : k \in 1..Len(pages[s])}
      BY <2>5, SequenceFacts
    <3> QED BY <3>1
  <2> QED BY <2>1, <2>2, <2>4, <2>5, <2>6 DEF Injective, t
<1>3. ASSUME p \in Claimed(plan) PROVE \E s \in slots : with = {s}
  <2>1. PICK s \in slots : \E k \in Places(plan, s) :
            IsNew(plan, s, pages[s], k) /\ NewPage(plan, s, pages[s], k) = p
    BY <1>1, <1>3 DEF PlanClaims
  <2>2. PICK k \in Places(plan, s) :
            IsNew(plan, s, pages[s], k) /\ NewPage(plan, s, pages[s], k) = p
    BY <2>1
  <2>3. s \in with
    BY <1>2, <2>2
  <2>4. ASSUME NEW u \in with PROVE u = s
    <3>1. PICK j \in Places(plan, u) : NewPage(plan, u, pages[u], j) = p
      BY <1>2
    <3>2. IsNew(plan, u, pages[u], j)
      BY <1>1, <1>2, <1>3, <3>1
    <3> QED BY <1>1, <2>2, <3>1, <3>2 DEF PlanClaims
  <2> HIDE DEF with
  <2> QED BY <2>3, <2>4
<1>4. ASSUME p \notin Claimed(plan), NEW s \in slots
      PROVE  /\ s \in Movers(plan, p) => p \in ToSet(pages[s])
             /\ s \in with <=> p \in ToSet(pages[s]) /\ s \notin Movers(plan, p)
  <2>1. Moves(plan, s) => /\ Move(plan, s).logical = Len(pages[s])
                          /\ Len(pages[s]) \in 1..Len(pages[s])
                          /\ Move(plan, s).source = pages[s][Len(pages[s])]
    BY <1>1, MoveFits
  <2>2. s \in Movers(plan, p) => p \in ToSet(pages[s])
    BY <1>2, <2>1 DEF Movers
  <2>3. ASSUME NEW k \in Places(plan, s), NewPage(plan, s, pages[s], k) = p
        PROVE  p \in ToSet(pages[s]) /\ s \notin Movers(plan, p)
    <3>1. ~IsNew(plan, s, pages[s], k)
      BY <1>1, <1>4, <2>3 DEF PlanClaims
    <3>2. k \in 1..Len(pages[s]) /\ p = pages[s][k]
      BY <1>2, <2>3, <3>1
    <3>3. s \notin Movers(plan, p)
      BY <1>2, <2>1, <3>1, <3>2 DEF Movers, IsNew
    <3> QED BY <1>2, <3>2, <3>3
  <2>4. ASSUME NEW k \in 1..Len(pages[s]), pages[s][k] = p, s \notin Movers(plan, p)
        PROVE  k \in Places(plan, s) /\ NewPage(plan, s, pages[s], k) = p
    <3>1. ~(Moves(plan, s) /\ Move(plan, s).logical = k)
      BY <2>1, <2>4 DEF Movers
    <3>2. k <= Len(pages[s])
      BY <1>2
    <3> QED BY <1>2, <2>4, <3>1, <3>2 DEF NewPage
  <2>5. s \in with => p \in ToSet(pages[s]) /\ s \notin Movers(plan, p)
    BY <1>2, <2>3
  <2>6. p \in ToSet(pages[s]) /\ s \notin Movers(plan, p) => s \in with
    BY <1>2, <2>4
  <2> QED BY <2>2, <2>5, <2>6
<1>5. with \subseteq slots /\ Movers(plan, p) \subseteq slots
  BY DEF Movers
<1>6. ASSUME p \notin Claimed(plan)
      PROVE  /\ with = {s \in slots : p \in ToSet(pages[s])} \ Movers(plan, p)
             /\ Movers(plan, p) \subseteq {s \in slots : p \in ToSet(pages[s])}
  <2> HIDE DEF with, slots
  <2> QED BY <1>4, <1>5, <1>6
<1> QED BY <1>3, <1>6 DEF plan

\* What apply makes of a table is the table the plan is for.
LEMMA PublishedTable ==
    ASSUME Shape, NEW l \in Lane, plans[l].stage # "none", NEW s \in SlotsOf(plans[l].appends),
           NEW replaced,
           replaced = [k \in DOMAIN pages[s] |->
               LET m == {x \in plans[l].replacements : x.slot = s /\ x.logical = k}
               IN  IF m = {} THEN pages[s][k] ELSE (CHOOSE x \in m : TRUE).destination]
    PROVE  replaced \o plans[l].additions[s] = NewTable(plans[l], s, pages[s])
<1> DEFINE plan == plans[l]
           n == AppendOf(plan, s).new
           t == NewTable(plan, s, pages[s])
           more == plan.additions[s]
           L == Len(pages[s])
<1>1. /\ PlanType(plan) /\ PlanFits(plan, pages, rows) /\ PlanClaims(plan, pages)
      /\ Table(pages[s], rows[s]) /\ ToSet(pages[s]) \cap ToSet(plan.claimed) = {}
  BY PlanFacts
<1> HIDE DEF plan
<1>2. /\ L \in Nat /\ L <= PagesFor(n) /\ n \in Nat /\ DOMAIN pages[s] = 1..L
      /\ pages[s] \in Seq(Page)
  <2>1. L \in Nat /\ L <= PagesFor(n) /\ n \in Nat
    BY <1>1, NewTableFacts DEF plan
  <2> QED BY <1>1, <2>1 DEF Table
<1>3. PagesFor(n) \in Nat
  BY <1>2, PagesOfRows
<1>4. more \in Seq(Page) /\ Len(more) = PagesFor(n) - L
  BY <1>1 DEF PlanType, PlanFits, plan
<1>5. \A k \in 1..L : replaced[k] = NewPage(plan, s, pages[s], k)
  <2> SUFFICES ASSUME NEW k \in 1..L PROVE replaced[k] = NewPage(plan, s, pages[s], k)
    OBVIOUS
  <2> DEFINE m == {x \in plan.replacements : x.slot = s /\ x.logical = k}
  <2>1. replaced[k] = IF m = {} THEN pages[s][k] ELSE (CHOOSE x \in m : TRUE).destination
    BY <1>2 DEF plan
  <2>2. CASE Moves(plan, s) /\ Move(plan, s).logical = k
    <3>1. m = {Move(plan, s)}
      BY <1>1, <2>2, MoveFacts
    <3>2. (CHOOSE x \in m : TRUE) = Move(plan, s)
      BY <3>1
    <3> QED BY <2>1, <2>2, <3>1, <3>2 DEF NewPage
  <2>3. CASE ~(Moves(plan, s) /\ Move(plan, s).logical = k)
    <3>1. m = {}
      <4> SUFFICES ASSUME NEW x \in plan.replacements, x.slot = s, x.logical = k PROVE FALSE
        OBVIOUS
      <4>1. Moves(plan, s)
        BY DEF Moves
      <4>2. x = Move(plan, s)
        BY <1>1, <4>1, MoveFacts
      <4> QED BY <2>3, <4>1, <4>2
    <3>2. k <= L
      BY <1>2
    <3> QED BY <2>1, <2>3, <3>1, <3>2 DEF NewPage
  <2> QED BY <2>2, <2>3
<1>6. \A k \in L + 1..PagesFor(n) : more[k - L] = NewPage(plan, s, pages[s], k)
  <2> SUFFICES ASSUME NEW k \in L + 1..PagesFor(n)
               PROVE  more[k - L] = NewPage(plan, s, pages[s], k)
    OBVIOUS
  <2>1. Moves(plan, s) => Move(plan, s).logical = L
    BY <1>1, MoveFits
  <2>2. k # L /\ ~(k <= L)
    BY <1>2
  <2> QED BY <2>1, <2>2 DEF NewPage
<1> HIDE DEF L, n, more
<1>7. t = [k \in 1..PagesFor(n) |-> NewPage(plan, s, pages[s], k)]
  BY DEF NewTable, n
<1> HIDE DEF t
<1>8. DOMAIN replaced = 1..L /\ Len(replaced) = L
  <2>1. DOMAIN replaced = 1..L
    BY <1>2
  <2> QED BY <1>2, <2>1
<1>9. /\ replaced \o more = [k \in 1..Len(replaced) + Len(more) |-> (replaced \o more)[k]]
      /\ \A k \in 1..L : (replaced \o more)[k] = replaced[k]
      /\ \A k \in 1..Len(more) : (replaced \o more)[L + k] = more[k]
  <2> DEFINE S == Page \cup {replaced[k] : k \in 1..L}
             u == replaced \o more
  <2>1. replaced = [k \in 1..L |-> replaced[k]]
    BY <1>8 DEF plan
  <2>2. replaced \in [1..L -> S]
    BY <2>1
  <2>3. replaced \in Seq(S)
    <3> HIDE DEF S
    <3> QED BY <1>2, <2>2
  <2>4. more \in [1..Len(more) -> Page] /\ Len(more) \in Nat
    BY <1>4
  <2>5. more \in [1..Len(more) -> S]
    BY <2>4
  <2> HIDE DEF S
  <2>6. more \in Seq(S)
    BY <2>4, <2>5
  <2>7. /\ u \in Seq(S) /\ Len(u) = Len(replaced) + Len(more)
        /\ \A k \in 1..Len(replaced) : u[k] = replaced[k]
        /\ \A k \in 1..Len(more) : u[Len(replaced) + k] = more[k]
    BY ONLY <2>3, <2>6, ConcatFacts
  <2> HIDE DEF u
  <2>8. u = [k \in 1..Len(replaced) + Len(more) |-> u[k]]
    BY ONLY <2>7
  <2> QED BY <1>8, <2>7, <2>8 DEF u
<1>10. replaced \o more = t
  <2>1. Len(replaced) + Len(more) = PagesFor(n)
    BY <1>2, <1>3, <1>4, <1>8
  <2>2. ASSUME NEW k \in 1..PagesFor(n)
        PROVE  (replaced \o more)[k] = NewPage(plan, s, pages[s], k)
    <3>1. CASE k <= L
      BY <1>2, <1>5, <1>9, <3>1
    <3>2. CASE ~(k <= L)
      <4>1. k \in L + 1..PagesFor(n) /\ k - L \in 1..Len(more) /\ L + (k - L) = k
        BY <1>2, <1>3, <1>4, <3>2
      <4>2. (replaced \o more)[L + (k - L)] = more[k - L]
        BY ONLY <1>9, <4>1
      <4>3. (replaced \o more)[L + (k - L)] = (replaced \o more)[k]
        BY ONLY <4>1
      <4> QED BY <1>6, <4>1, <4>2, <4>3
    <3> QED BY <3>1, <3>2
  <2> QED BY <1>7, <1>9, <2>1, <2>2
<1> QED BY <1>10 DEF t, more, plan

\* A slot that moves off a page has the page in its table.
LEMMA MoversOwn ==
    ASSUME Shape, NEW l \in Lane, plans[l].stage # "none", NEW p
    PROVE  Movers(plans[l], p) \subseteq SlotsWith(pages, p)
<1> SUFFICES ASSUME NEW s \in Movers(plans[l], p) PROVE s \in SlotsWith(pages, p)
  OBVIOUS
<1>1. s \in SlotsOf(plans[l].appends) /\ Moves(plans[l], s) /\ Move(plans[l], s).source = p
  BY DEF Movers
<1>2. /\ PlanType(plans[l]) /\ PlanFits(plans[l], pages, rows)
      /\ s \in Slot /\ Table(pages[s], rows[s])
  BY <1>1, PlanFacts
<1>3. p = pages[s][Len(pages[s])] /\ Len(pages[s]) \in 1..Len(pages[s])
  BY <1>1, <1>2, MoveFits
<1>4. p \in ToSet(pages[s])
  BY <1>2, <1>3, SequenceFacts DEF Table
<1> QED BY <1>2, <1>4 DEF SlotsWith

\* Publishing the claimed pages and giving up the copied ones keeps the counts.
LEMMA PublishedCounts ==
    ASSUME Shape, NEW l \in Lane, plans[l].stage # "none", NEW U,
           \A s \in SlotsOf(plans[l].appends) : U[s] = NewTable(plans[l], s, pages[s]),
           \A s \in Slot : s \notin SlotsOf(plans[l].appends) => U[s] = pages[s]
    PROVE  LET more == AddTo(references, plans[l].claimed)
               given == GivenUp(plans[l])
           IN
           /\ given \in Seq(Page) /\ more \in [Page -> Nat]
           /\ \A p \in Page : Mentions(given, p) <= more[p]
           /\ Counted(Released(more, given), U, prefixes)
<1> DEFINE plan == plans[l]
           slots == SlotsOf(plan.appends)
           more == AddTo(references, plan.claimed)
           given == GivenUp(plan)
<1>1. /\ PlanType(plan) /\ Claimed(plan) = ToSet(plan.claimed)
      /\ plan.claimed \in Seq(Page) /\ Injective(plan.claimed)
      /\ \A s \in slots : s \in Slot
  BY PlanFacts DEF PlanType
<1>2. /\ references \in [Page -> Nat] /\ Counted(references, pages, prefixes)
      /\ Pool(free, references, plans)
  BY DEF Shape, Pool
<1>3. /\ more \in [Page -> Nat]
      /\ \A p \in Page : more[p] = references[p] + Mentions(plan.claimed, p)
  BY <1>1, <1>2, AddFacts
<1>4. given \in Seq(Page) /\ \A p : Mentions(given, p) = Cardinality(Movers(plan, p))
  BY <1>1, GivenUpFacts
<1>5. ASSUME NEW p \in Page
      PROVE  /\ Mentions(given, p) <= more[p]
             /\ more[p] - Mentions(given, p) =
                    Cardinality(SlotsWith(U, p)) + Cardinality(PrefixesWith(prefixes, p))
  <2> DEFINE with == {s \in slots : p \in ToSet(NewTable(plan, s, pages[s]))}
             old == SlotsWith(pages, p)
             new == SlotsWith(U, p)
             pre == PrefixesWith(prefixes, p)
             gone == Movers(plan, p)
  <2>1. /\ p \in Claimed(plan) => \E s \in slots : with = {s}
        /\ p \notin Claimed(plan) => /\ with = {s \in slots : p \in ToSet(pages[s])} \ gone
                                     /\ gone \subseteq {s \in slots : p \in ToSet(pages[s])}
    BY NewOwners
  <2>2. gone \subseteq old
    BY MoversOwn
  <2>3. new = with \cup {s \in old : s \notin slots}
    BY <1>1 DEF SlotsWith
  <2>4. /\ IsFiniteSet(old) /\ Cardinality(old) \in Nat /\ Cardinality(new) \in Nat
        /\ Cardinality(pre) \in Nat
    BY OwnersFinite
  <2>5. references[p] = Cardinality(old) + Cardinality(pre)
    BY <1>2 DEF Counted
  <2>6. /\ p \in ToSet(plan.claimed) => Mentions(plan.claimed, p) = 1
        /\ p \notin ToSet(plan.claimed) => Mentions(plan.claimed, p) = 0
    BY <1>1, MentionsFacts
  <2>7. CASE p \in Claimed(plan)
    <3>1. old = {} /\ pre = {}
      <4>1. references[p] = 0
        BY <1>2, <2>7 DEF Pool
      <4> QED BY <1>2, <4>1, UnownedPages
    <3>2. \E s : new = {s}
      BY <2>1, <2>3, <2>7, <3>1
    <3>3. gone = {}
      BY <2>2, <3>1
    <3> HIDE DEF old, new, pre, gone
    <3>4. Cardinality(new) = 1
      BY <3>2, FS_Singleton
    <3>5. Cardinality(old) = 0 /\ Cardinality(pre) = 0 /\ Cardinality(gone) = 0
      BY <3>1, <3>3, FS_EmptySet
    <3>6. Mentions(given, p) = 0
      BY <1>4, <3>5 DEF gone
    <3>7. more[p] = 1
      BY <1>1, <1>3, <2>5, <2>6, <2>7, <3>5
    <3> QED BY <3>4, <3>5, <3>6, <3>7 DEF new, pre
  <2>8. CASE p \notin Claimed(plan)
    <3>1. new = old \ gone
      BY <1>1, <2>1, <2>3, <2>8 DEF SlotsWith
    <3> HIDE DEF old, new, pre, gone
    <3>2. /\ Cardinality(new) = Cardinality(old) - Cardinality(gone)
          /\ Cardinality(gone) \in Nat
      BY <2>2, <2>4, <3>1, CountRemoved
    <3>3. Mentions(given, p) = Cardinality(gone)
      BY <1>4 DEF gone
    <3>4. more[p] = references[p]
      <4>1. Mentions(plan.claimed, p) = 0
        BY <1>1, <2>6, <2>8
      <4> QED BY <1>2, <1>3, <4>1
    <3> QED BY <2>4, <2>5, <3>2, <3>3, <3>4 DEF new, pre
  <2> QED BY <2>7, <2>8
<1> HIDE DEF more, given
<1>6. \A p \in Page : Released(more, given)[p] = more[p] - Mentions(given, p)
  BY DEF Released
<1> QED BY <1>3, <1>4, <1>5, <1>6 DEF Counted, more, given, plan

\* apply keeps the invariant: the tables take the claimed pages and the replaced ones are
\* released.
LEMMA ApplyStep ==
    ASSUME Shape, RowsInv, NEW l \in Lane, Apply(l)
    PROVE  Shape' /\ RowsInv'
<1> DEFINE plan == plans[l]
           slots == SlotsOf(plan.appends)
           more == AddTo(references, plan.claimed)
           given == GivenUp(plan)
           replaced(s) == [k \in DOMAIN pages[s] |->
               LET m == {x \in plan.replacements : x.slot = s /\ x.logical = k}
               IN  IF m = {} THEN pages[s][k] ELSE (CHOOSE x \in m : TRUE).destination]
<1>0. /\ plan.stage = "written"
      /\ references' = Released(more, given) /\ free' = free \o Freed(more, given)
      /\ pages' = [s \in Slot |->
            IF s \in slots THEN replaced(s) \o plan.additions[s] ELSE pages[s]]
      /\ rows' = [s \in Slot |-> IF s \in slots THEN AppendOf(plan, s).new ELSE rows[s]]
      /\ hist' = [s \in Slot |-> IF s \in slots THEN Grown(plan, s, hist[s], rows[s])
                                 ELSE hist[s]]
      /\ writing' = writing \ slots
      /\ plans' = [plans EXCEPT ![l] = NoPlan]
      /\ prefixes' = prefixes /\ cells' = cells
  BY DEF Apply, Release, AppendOf, Grown
<1>1. /\ PlanType(plan) /\ SlotsIn(plan) = slots /\ Claimed(plan) = ToSet(plan.claimed)
      /\ plan.claimed \in Seq(Page)
      /\ \A s \in slots : s \in Slot
  BY <1>0, PlanFacts DEF PlanType
<1>2. \A s \in slots : replaced(s) \o plan.additions[s] = NewTable(plan, s, pages[s])
  <2> SUFFICES ASSUME NEW s \in slots
               PROVE  replaced(s) \o plan.additions[s] = NewTable(plan, s, pages[s])
    OBVIOUS
  <2> QED BY <1>0, PublishedTable
<1> HIDE DEF plan, replaced
<1>3. \A s \in Slot :
          /\ pages'[s] = IF s \in slots THEN NewTable(plan, s, pages[s]) ELSE pages[s]
          /\ rows'[s] = IF s \in slots THEN AppendOf(plan, s).new ELSE rows[s]
          /\ hist'[s] = IF s \in slots THEN Grown(plan, s, hist[s], rows[s]) ELSE hist[s]
  BY <1>0, <1>2
<1>4. DOMAIN pages' = Slot /\ DOMAIN rows' = Slot /\ DOMAIN hist' = Slot
  BY <1>0
<1>5. ASSUME NEW s \in slots
      PROVE  /\ Table(pages'[s], rows'[s]) /\ Shows(cells, pages'[s], rows'[s], hist'[s])
             /\ ToSet(pages'[s]) \subseteq ToSet(pages[s]) \cup Claimed(plan)
  <2>1. /\ s \in Slot /\ Table(NewTable(plan, s, pages[s]), AppendOf(plan, s).new)
        /\ ToSet(NewTable(plan, s, pages[s])) \subseteq ToSet(pages[s]) \cup Claimed(plan)
    BY <1>1, NewTablePages DEF plan
  <2>2. Shows(cells, NewTable(plan, s, pages[s]), AppendOf(plan, s).new,
              Grown(plan, s, hist[s], rows[s]))
    BY <1>0, <1>1 DEF RowsInv, PlanRows, plan
  <2> QED BY <1>3, <2>1, <2>2
<1>6. cells \in [Page -> [0..PAGE_ROWS - 1 -> Value]] /\ hist \in [Slot -> Seq(Value)]
  BY DEF RowsInv
<1>7. ASSUME NEW s \in Slot
      PROVE  pages'[s] \in Seq(Page) /\ rows'[s] \in Rows /\ hist'[s] \in Seq(Value)
  <2>1. CASE s \in slots
    BY <1>5, <1>6, <2>1, ShowsTyped DEF Table
  <2>2. CASE s \notin slots
    BY <1>3, <1>6, <2>2 DEF Shape, TablesInv
  <2> QED BY <2>1, <2>2
<1>8. /\ pages' \in [Slot -> Seq(Page)] /\ rows' \in [Slot -> Rows]
      /\ hist' \in [Slot -> Seq(Value)]
  <2>1. /\ pages' = [s \in Slot |-> pages'[s]] /\ rows' = [s \in Slot |-> rows'[s]]
        /\ hist' = [s \in Slot |-> hist'[s]]
    BY <1>0
  <2> QED BY <1>7, <2>1
<1>9. /\ given \in Seq(Page) /\ more \in [Page -> Nat]
      /\ \A p \in Page : Mentions(given, p) <= more[p]
      /\ Counted(references', pages', prefixes)
  <2>1. /\ \A s \in slots : pages'[s] = NewTable(plan, s, pages[s])
        /\ \A s \in Slot : s \notin slots => pages'[s] = pages[s]
    BY <1>1, <1>3
  <2> QED BY <1>0, <2>1, PublishedCounts DEF plan
<1>10. Pool(free', references', plans')
  <2>1. DOMAIN plans = Lane /\ Pool(free, references, plans)
    BY DEF Shape, PlansInv
  <2>2. Pool(free, more, plans')
    BY <1>0, <1>1, <2>1, PoolPublish DEF plan
  <2> QED BY <1>0, <1>9, <2>2, PoolRelease
<1>11. \A s \in Slot : s \notin SlotsIn(plans[l]) =>
           pages'[s] = pages[s] /\ rows'[s] = rows[s] /\ hist'[s] = hist[s]
  BY <1>1, <1>3 DEF plan
<1>12. \A s \in SlotsIn(plans[l]) :
           /\ Table(pages'[s], rows'[s]) /\ Shows(cells, pages'[s], rows'[s], hist'[s])
           /\ ToSet(pages'[s]) \subseteq ToSet(pages[s]) \cup Claimed(plans[l])
  BY <1>1, <1>5 DEF plan
<1>13. plans[l].stage # "none" /\ writing' = writing \ SlotsIn(plans[l])
  BY <1>0, <1>1 DEF plan
<1> QED BY <1>0, <1>8, <1>9, <1>10, <1>11, <1>12, <1>13, EndStep

-----------------------------------------------------------------------------
(* An aborted transaction. *)

\* A concatenation mentions a page as often as its two parts together.
LEMMA MentionsConcat ==
    ASSUME NEW S, NEW s \in Seq(S), NEW t \in Seq(S), NEW p
    PROVE  Mentions(s \o t, p) = Mentions(s, p) + Mentions(t, p)
<1> DEFINE u == s \o t
           A == {i \in DOMAIN s : s[i] = p}
           B == {i \in DOMAIN t : t[i] = p}
           C == {Len(s) + i : i \in B}
           f == [i \in B |-> Len(s) + i]
<1>1. /\ DOMAIN s = 1..Len(s) /\ DOMAIN t = 1..Len(t) /\ Len(s) \in Nat /\ Len(t) \in Nat
      /\ u \in Seq(S) /\ Len(u) = Len(s) + Len(t)
      /\ \A i \in 1..Len(s) : u[i] = s[i]
      /\ \A i \in 1..Len(t) : u[Len(s) + i] = t[i]
  BY SequenceFacts, ConcatFacts
<1> HIDE DEF u
<1>2. DOMAIN u = 1..Len(s) + Len(t)
  BY <1>1, SequenceFacts
<1>3. IsFiniteSet(A) /\ IsFiniteSet(B)
  <2>1. IsFiniteSet(DOMAIN s) /\ IsFiniteSet(DOMAIN t)
    BY SequenceFacts
  <2> QED BY <2>1, FS_Subset
<1>4. IsFiniteSet(C) /\ Cardinality(C) = Cardinality(B)
  <2>1. f \in [B -> C] /\ \A z \in C : \E i \in B : f[i] = z
    OBVIOUS
  <2>2. \A i, j \in B : f[i] = f[j] => i = j
    BY <1>1
  <2> HIDE DEF f, C, B
  <2> QED BY ONLY <1>3, <2>1, <2>2, SameCount
<1>5. {i \in DOMAIN u : u[i] = p} = A \cup C
  <2>1. ASSUME NEW i \in DOMAIN u, u[i] = p PROVE i \in A \cup C
    <3>1. CASE i <= Len(s)
      BY <1>1, <1>2, <2>1, <3>1
    <3>2. CASE ~(i <= Len(s))
      <4>1. i - Len(s) \in 1..Len(t) /\ Len(s) + (i - Len(s)) = i
        BY <1>1, <1>2, <3>2
      <4>2. u[Len(s) + (i - Len(s))] = t[i - Len(s)]
        BY ONLY <1>1, <4>1
      <4>3. u[Len(s) + (i - Len(s))] = u[i]
        BY ONLY <4>1
      <4>4. t[i - Len(s)] = p
        BY <2>1, <4>2, <4>3
      <4>5. i - Len(s) \in B
        BY <1>1, <4>1, <4>4
      <4>6. Len(s) + (i - Len(s)) \in C
        BY <4>5
      <4> QED BY <4>1, <4>6
    <3> QED BY <3>1, <3>2
  <2>2. ASSUME NEW i \in A PROVE i \in DOMAIN u /\ u[i] = p
    BY <1>1, <1>2
  <2>3. ASSUME NEW i \in B PROVE Len(s) + i \in DOMAIN u /\ u[Len(s) + i] = p
    BY <1>1, <1>2
  <2> QED BY <2>1, <2>2, <2>3
<1>6. A \cap C = {}
  BY <1>1
<1> HIDE DEF A, B, C
<1>7. Cardinality(A \cup C) = Cardinality(A) + Cardinality(C)
  BY <1>3, <1>4, <1>6, CountAdded
<1>8. Mentions(s \o t, p) = Cardinality(A \cup C)
  BY <1>5 DEF Mentions, u
<1>9. Mentions(s, p) = Cardinality(A) /\ Mentions(t, p) = Cardinality(B)
  BY DEF Mentions, A, B
<1> QED BY <1>4, <1>7, <1>8, <1>9

Flattening(seqs, n, f) ==
    f = [i \in 1..n |-> IF i = 1 THEN seqs[i] ELSE f[i - 1] \o seqs[i]]

\* The function of "the concatenation of the first i lists" exists, for every list of lists.
LEMMA FlatteningsExist ==
    ASSUME NEW seqs, NEW n \in Nat
    PROVE  \E f : Flattening(seqs, n, f)
<1> DEFINE T == {m \in Nat : \E f : Flattening(seqs, m, f)}
<1>1. 0 \in T
  <2>1. Flattening(seqs, 0, [i \in 1..0 |-> seqs])
    BY DEF Flattening
  <2> QED BY <2>1
<1>2. ASSUME NEW m \in Nat, m \in T PROVE m + 1 \in T
  <2>1. PICK f : Flattening(seqs, m, f)
    BY <1>2
  <2> DEFINE g == [i \in 1..m + 1 |->
                      IF i = m + 1 THEN IF m = 0 THEN seqs[1] ELSE f[m] \o seqs[m + 1]
                      ELSE f[i]]
  <2>2. \A i \in 1..m : f[i] = IF i = 1 THEN seqs[i] ELSE f[i - 1] \o seqs[i]
    BY <2>1 DEF Flattening
  <2>3. ASSUME NEW i \in 1..m + 1
        PROVE  g[i] = IF i = 1 THEN seqs[i] ELSE g[i - 1] \o seqs[i]
    <3>1. CASE i = m + 1
      BY <3>1
    <3>2. CASE i # m + 1
      <4>1. i \in 1..m /\ (i # 1 => i - 1 \in 1..m /\ i - 1 # m + 1 /\ i - 1 \in 1..m + 1)
        BY <3>2
      <4> QED BY <2>2, <3>2, <4>1
    <3> QED BY <3>1, <3>2
  <2>4. Flattening(seqs, m + 1, g)
    <3>1. g = [i \in 1..m + 1 |-> g[i]]
      OBVIOUS
    <3> HIDE DEF g
    <3> QED BY <2>3, <3>1 DEF Flattening
  <2> QED BY <2>4
<1> HIDE DEF T
<1>3. n \in T
  BY <1>1, <1>2, SetInduction
<1> QED BY <1>3 DEF T

\* FlattenSeq concatenates the lists from the first to the last.
LEMMA FlattenFacts ==
    ASSUME NEW seqs, Len(seqs) \in Nat
    PROVE  /\ Len(seqs) = 0 => FlattenSeq(seqs) = seqs
           /\ Len(seqs) # 0 =>
                 \E f : /\ FlattenSeq(seqs) = f[Len(seqs)] /\ f[1] = seqs[1]
                        /\ \A i \in 2..Len(seqs) : f[i] = f[i - 1] \o seqs[i]
<1> DEFINE f == CHOOSE f : Flattening(seqs, Len(seqs), f)
<1>1. Flattening(seqs, Len(seqs), f)
  BY FlatteningsExist
<1>2. Len(seqs) # 0 => FlattenSeq(seqs) = f[Len(seqs)]
  BY DEF FlattenSeq, Flattening
<1>3. Len(seqs) = 0 => FlattenSeq(seqs) = seqs
  BY DEF FlattenSeq
<1> HIDE DEF f
<1>4. Len(seqs) # 0 =>
          f[1] = seqs[1] /\ \A i \in 2..Len(seqs) : f[i] = f[i - 1] \o seqs[i]
  <2>1. \A i \in 1..Len(seqs) : f[i] = IF i = 1 THEN seqs[i] ELSE f[i - 1] \o seqs[i]
    BY <1>1 DEF Flattening
  <2>2. /\ Len(seqs) # 0 => 1 \in 1..Len(seqs)
        /\ \A i \in 2..Len(seqs) : i \in 1..Len(seqs) /\ i # 1
    OBVIOUS
  <2> QED BY <2>1, <2>2
<1> QED BY <1>2, <1>3, <1>4

Holding(slots, p) == {s \in slots : p \in ToSet(pages[s])}

\* The tables an aborted transaction drops mention a page once for each slot
\* of it that has the page.
LEMMA DroppedFacts ==
    ASSUME TablesInv, NEW plan, PlanType(plan), NEW order,
           order = [i \in DOMAIN plan.appends |-> pages[plan.appends[i].slot]]
    PROVE  /\ FlattenSeq(order) \in Seq(Page)
           /\ \A p : Mentions(FlattenSeq(order), p) =
                        Cardinality(Holding(SlotsOf(plan.appends), p))
<1> DEFINE L == Len(plan.appends)
           first(m) == {plan.appends[i].slot : i \in 1..m}
<1>1. /\ L \in Nat /\ DOMAIN plan.appends = 1..L
      /\ \A i \in 1..L : plan.appends[i].slot \in Slot
      /\ \A i, j \in 1..L : plan.appends[i].slot = plan.appends[j].slot => i = j
  <2>1. plan.appends \in Seq([slot : Slot, new : Rows, value : Value])
    BY DEF PlanType
  <2>2. /\ L \in Nat /\ DOMAIN plan.appends = 1..L
        /\ \A i \in 1..L : plan.appends[i] \in [slot : Slot, new : Rows, value : Value]
    BY <2>1, SequenceFacts
  <2>3. \A i, j \in 1..L : plan.appends[i].slot = plan.appends[j].slot => i = j
    BY <2>2 DEF PlanType
  <2> QED BY <2>2, <2>3
<1>2. SlotsOf(plan.appends) = first(L)
  BY <1>1 DEF SlotsOf
<1>3. \A s \in Slot : pages[s] \in Seq(Page) /\ Injective(pages[s])
  BY DEF TablesInv, Table
<1> HIDE DEF L
<1>4. /\ Len(order) = L /\ \A i \in 1..L : order[i] = pages[plan.appends[i].slot]
  <2>1. DOMAIN order = 1..L
    BY <1>1
  <2> QED BY <1>1, <2>1
<1>5. \A p : \A s \in Slot : Mentions(pages[s], p) = IF p \in ToSet(pages[s]) THEN 1 ELSE 0
  BY <1>3, MentionsFacts
<1>6. CASE L = 0
  <2>1. FlattenSeq(order) = order /\ order = <<>>
    <3>0. Len(order) = 0 /\ Len(order) \in Nat
      BY <1>4, <1>6
    <3>1. FlattenSeq(order) = order
      BY ONLY <3>0, FlattenFacts
    <3>2. order \in [1..L -> Page] /\ L \in Nat
      BY <1>1, <1>6
    <3>3. order \in Seq(Page)
      BY <3>2
    <3> QED BY <3>0, <3>1, <3>3
  <2>2. \A p : Mentions(<<>>, p) = 0
    <3>1. \A p : p \notin ToSet(<<>>)
      BY EmptyTable
    <3>2. <<>> \in Seq(Page)
      OBVIOUS
    <3> QED BY <3>1, <3>2, MentionsFacts
  <2>3. \A p : Holding(SlotsOf(plan.appends), p) = {}
    BY <1>2, <1>6 DEF Holding
  <2>4. <<>> \in Seq(Page) /\ Cardinality({}) = 0
    BY FS_EmptySet
  <2> QED BY <2>1, <2>2, <2>3, <2>4
<1>7. CASE L # 0
  <2>1. PICK f : /\ FlattenSeq(order) = f[L] /\ f[1] = order[1]
                 /\ \A i \in 2..L : f[i] = f[i - 1] \o order[i]
    <3>1. Len(order) \in Nat /\ Len(order) # 0 /\ Len(order) = L
      BY <1>1, <1>4, <1>7
    <3>2. \E f : /\ FlattenSeq(order) = f[Len(order)] /\ f[1] = order[1]
                 /\ \A i \in 2..Len(order) : f[i] = f[i - 1] \o order[i]
      BY ONLY <3>1, FlattenFacts
    <3> QED BY <3>1, <3>2
  <2> DEFINE Good(m) == /\ f[m] \in Seq(Page)
                        /\ \A p : /\ Mentions(f[m], p) = Cardinality(Holding(first(m), p))
                                  /\ IsFiniteSet(Holding(first(m), p))
             T == {m \in Nat : m + 1 <= L => Good(m + 1)}
  <2>2. 0 \in T
    <3> DEFINE s == plan.appends[1].slot
    <3>1. f[1] = pages[s] /\ s \in Slot
      BY <1>1, <1>4, <1>7, <2>1
    <3>2. first(1) = {s}
      OBVIOUS
    <3> HIDE DEF s, first
    <3>3. ASSUME NEW p
          PROVE  /\ Mentions(f[1], p) = Cardinality(Holding(first(1), p))
                 /\ IsFiniteSet(Holding(first(1), p))
      <4>1. CASE p \in ToSet(pages[s])
        <5>1. Holding(first(1), p) = {s}
          BY <3>2, <4>1 DEF Holding
        <5>2. IsFiniteSet({s}) /\ Cardinality({s}) = 1
          BY FS_Singleton
        <5>3. Mentions(f[1], p) = 1
          BY <1>5, <3>1, <4>1
        <5> QED BY <5>1, <5>2, <5>3
      <4>2. CASE p \notin ToSet(pages[s])
        <5>1. Holding(first(1), p) = {}
          BY <3>2, <4>2 DEF Holding
        <5> QED BY <1>5, <3>1, <4>2, <5>1, FS_EmptySet
      <4> QED BY <4>1, <4>2
    <3>4. Good(1)
      BY <1>3, <3>1, <3>3
    <3> HIDE DEF Good
    <3> QED BY <3>4
  <2>3. ASSUME NEW m \in Nat, m \in T PROVE m + 1 \in T
    <3> DEFINE n == m + 2
               s == plan.appends[n].slot
    <3> SUFFICES ASSUME n <= L PROVE Good(n)
      <4> HIDE DEF Good
      <4>1. (m + 1) + 1 = n
        OBVIOUS
      <4> QED BY <4>1
    <3>0. n \in 2..L /\ n - 1 = m + 1 /\ m + 1 <= L /\ n \in 1..L /\ m + 1 \in Nat
      BY <1>1
    <3>1. f[n] = f[m + 1] \o pages[s] /\ s \in Slot
      BY <1>1, <1>4, <2>1, <3>0
    <3>2. Good(m + 1)
      BY <2>3, <3>0
    <3>3. first(n) = first(m + 1) \cup {s} /\ s \notin first(m + 1)
      <4>1. 1..n = 1..m + 1 \cup {n} /\ \A i \in 1..m + 1 : i \in 1..L /\ i # n
        BY <1>1, <3>0
      <4>2. first(n) = first(m + 1) \cup {s}
        BY <4>1
      <4>3. \A i \in 1..m + 1 : plan.appends[i].slot # s
        BY <1>1, <3>0, <4>1
      <4> QED BY <4>2, <4>3
    <3> HIDE DEF s, first, n
    <3>4. ASSUME NEW p
          PROVE  /\ Mentions(f[n], p) = Cardinality(Holding(first(n), p))
                 /\ IsFiniteSet(Holding(first(n), p))
      <4> DEFINE old == Holding(first(m + 1), p)
                 new == Holding(first(n), p)
      <4>1. Mentions(f[n], p) = Mentions(f[m + 1], p) + Mentions(pages[s], p)
        BY <1>3, <3>1, <3>2, MentionsConcat
      <4>2. Mentions(f[m + 1], p) = Cardinality(old) /\ IsFiniteSet(old) /\ Cardinality(old) \in Nat
        BY <3>2, FS_CardinalityType
      <4>3. CASE p \in ToSet(pages[s])
        <5>1. new = old \cup {s} /\ s \notin old
          BY <3>3, <4>3 DEF Holding
        <5>2. Mentions(pages[s], p) = 1
          BY <1>5, <3>1, <4>3
        <5> HIDE DEF old, new
        <5>3. IsFiniteSet(new) /\ Cardinality(new) = Cardinality(old) + 1
          BY <4>2, <5>1, FS_AddElement
        <5> QED BY <4>1, <4>2, <5>2, <5>3 DEF new
      <4>4. CASE p \notin ToSet(pages[s])
        <5>1. new = old
          BY <3>3, <4>4 DEF Holding
        <5>2. Mentions(pages[s], p) = 0
          BY <1>5, <3>1, <4>4
        <5> HIDE DEF old, new
        <5> QED BY <4>1, <4>2, <5>1, <5>2 DEF new
      <4> QED BY <4>3, <4>4
    <3>5. f[n] \in Seq(Page)
      BY <1>3, <3>1, <3>2, ConcatFacts
    <3> QED BY <3>4, <3>5
  <2> HIDE DEF T
  <2>4. L - 1 \in T
    <3>1. L - 1 \in Nat
      BY <1>1, <1>7
    <3> QED BY <2>2, <2>3, <3>1, SetInduction
  <2>5. Good(L)
    <3>1. (L - 1) + 1 = L /\ L <= L
      BY <1>1
    <3> HIDE DEF Good
    <3> QED BY <2>4, <3>1 DEF T
  <2> QED BY <1>2, <2>1, <2>5
<1> QED BY <1>6, <1>7

\* A list that mentions each page once per aborted slot holding it is what the aborted tables
\* release.
LEMMA DroppedCounts ==
    ASSUME Shape, NEW l \in Lane, plans[l].stage # "none", NEW dropped \in Seq(Page),
           \A p : Mentions(dropped, p) = Cardinality(Holding(SlotsOf(plans[l].appends), p)),
           NEW U, \A s \in SlotsOf(plans[l].appends) : U[s] = <<>>,
           \A s \in Slot : s \notin SlotsOf(plans[l].appends) => U[s] = pages[s]
    PROVE  /\ \A p \in Page : Mentions(dropped, p) <= references[p]
           /\ Counted(Released(references, dropped), U, prefixes)
<1> DEFINE slots == SlotsOf(plans[l].appends)
<1>1. slots \subseteq Slot
  BY PlanFacts
<1>2. references \in [Page -> Nat] /\ Counted(references, pages, prefixes)
  BY DEF Shape, Pool
<1>3. ASSUME NEW p \in Page
      PROVE  /\ Mentions(dropped, p) <= references[p]
             /\ references[p] - Mentions(dropped, p) =
                    Cardinality(SlotsWith(U, p)) + Cardinality(PrefixesWith(prefixes, p))
  <2> DEFINE old == SlotsWith(pages, p)
             new == SlotsWith(U, p)
             gone == Holding(slots, p)
  <2>1. gone \subseteq old /\ new = old \ gone
    BY <1>1, EmptyTable DEF SlotsWith, Holding
  <2>2. /\ IsFiniteSet(old) /\ Cardinality(old) \in Nat /\ Cardinality(new) \in Nat
        /\ Cardinality(PrefixesWith(prefixes, p)) \in Nat
    BY OwnersFinite
  <2>3. references[p] = Cardinality(old) + Cardinality(PrefixesWith(prefixes, p))
    BY <1>2 DEF Counted
  <2>4. Mentions(dropped, p) = Cardinality(gone)
    OBVIOUS
  <2> HIDE DEF old, new, gone
  <2>5. Cardinality(new) = Cardinality(old) - Cardinality(gone) /\ Cardinality(gone) \in Nat
    BY <2>1, <2>2, CountRemoved
  <2> QED BY <2>2, <2>3, <2>4, <2>5 DEF new
<1>4. \A p \in Page : Released(references, dropped)[p] = references[p] - Mentions(dropped, p)
  BY DEF Released
<1> QED BY <1>3, <1>4 DEF Counted

\* abort keeps the invariant: the aborted slots lose their tables and their rows.
LEMMA AbortStep ==
    ASSUME Shape, RowsInv, NEW l \in Lane, Abort(l)
    PROVE  Shape' /\ RowsInv'
<1> DEFINE plan == plans[l]
           slots == SlotsOf(plan.appends)
           order == [i \in DOMAIN plan.appends |-> pages[plan.appends[i].slot]]
           dropped == FlattenSeq(order)
<1>0. /\ plan.stage # "none"
      /\ references' = Released(references, dropped)
      /\ free' = free \o plan.claimed \o Freed(references, dropped)
      /\ pages' = [s \in Slot |-> IF s \in slots THEN <<>> ELSE pages[s]]
      /\ rows' = [s \in Slot |-> IF s \in slots THEN 0 ELSE rows[s]]
      /\ hist' = [s \in Slot |-> IF s \in slots THEN <<>> ELSE hist[s]]
      /\ writing' = writing \ slots
      /\ plans' = [plans EXCEPT ![l] = NoPlan]
      /\ prefixes' = prefixes /\ cells' = cells
  BY DEF Abort
<1>1. /\ PlanType(plan) /\ SlotsIn(plan) = slots /\ Claimed(plan) = ToSet(plan.claimed)
      /\ plan.claimed \in Seq(Page) /\ Injective(plan.claimed)
  BY <1>0, PlanFacts DEF PlanType
<1>2. TablesInv /\ DOMAIN plans = Lane /\ Pool(free, references, plans)
  BY DEF Shape, PlansInv
<1>3. /\ dropped \in Seq(Page)
      /\ \A p : Mentions(dropped, p) = Cardinality(Holding(slots, p))
  <2> HIDE DEF plan
  <2> QED BY <1>1, <1>2, DroppedFacts
<1>4. \A s \in Slot :
          /\ pages'[s] = IF s \in slots THEN <<>> ELSE pages[s]
          /\ rows'[s] = IF s \in slots THEN 0 ELSE rows[s]
          /\ hist'[s] = IF s \in slots THEN <<>> ELSE hist[s]
  BY <1>0
<1>5. slots \subseteq Slot
  BY <1>0, PlanFacts
<1> HIDE DEF plan, slots, order, dropped
<1>6. /\ \A p \in Page : Mentions(dropped, p) <= references[p]
      /\ Counted(references', pages', prefixes)
  <2>1. /\ \A s \in slots : pages'[s] = <<>>
        /\ \A s \in Slot : s \notin slots => pages'[s] = pages[s]
    BY <1>4, <1>5
  <2> QED BY <1>0, <1>3, <2>1, DroppedCounts DEF plan, slots
<1>7. Pool(free', references', plans')
  <2>1. Pool(free \o plan.claimed, references, plans')
    BY <1>0, <1>1, <1>2, PoolReturn DEF plan
  <2> QED BY <1>0, <1>3, <1>6, <2>1, PoolRelease
<1>8. /\ pages' \in [Slot -> Seq(Page)] /\ rows' \in [Slot -> Rows]
      /\ hist' \in [Slot -> Seq(Value)]
  <2>1. <<>> \in Seq(Page) /\ <<>> \in Seq(Value) /\ 0 \in Rows
    BY PageShape DEF Rows
  <2>2. \A s \in Slot : pages[s] \in Seq(Page) /\ rows[s] \in Rows /\ hist[s] \in Seq(Value)
    BY DEF Shape, TablesInv, RowsInv
  <2> QED BY <1>0, <2>1, <2>2
<1>9. \A s \in Slot : s \notin SlotsIn(plans[l]) =>
          pages'[s] = pages[s] /\ rows'[s] = rows[s] /\ hist'[s] = hist[s]
  BY <1>1, <1>4 DEF plan
<1>10. \A s \in SlotsIn(plans[l]) :
           /\ Table(pages'[s], rows'[s]) /\ Shows(cells, pages'[s], rows'[s], hist'[s])
           /\ ToSet(pages'[s]) \subseteq ToSet(pages[s]) \cup Claimed(plans[l])
  <2> SUFFICES ASSUME NEW s \in slots
               PROVE  /\ Table(pages'[s], rows'[s]) /\ Shows(cells, pages'[s], rows'[s], hist'[s])
                      /\ ToSet(pages'[s]) \subseteq ToSet(pages[s]) \cup Claimed(plans[l])
    BY <1>1 DEF plan
  <2>1. pages'[s] = <<>> /\ rows'[s] = 0 /\ hist'[s] = <<>>
    BY <1>4, <1>5
  <2>2. Table(<<>>, 0) /\ ToSet(<<>>) = {} /\ Shows(cells, <<>>, 0, <<>>)
    BY EmptyTable
  <2> QED BY <2>1, <2>2
<1>11. plans[l].stage # "none" /\ writing' = writing \ SlotsIn(plans[l])
  BY <1>0, <1>1 DEF plan
<1> QED BY <1>0, <1>6, <1>7, <1>8, <1>9, <1>10, <1>11, EndStep

-----------------------------------------------------------------------------
(* A new transaction. *)

\* What a caller may ask for.
Asked(appends) ==
    /\ appends \in Seq([slot : Slot, new : Rows, value : Value])
    /\ \A i, j \in DOMAIN appends : appends[i].slot = appends[j].slot => i = j
    /\ \A i \in DOMAIN appends : appends[i].new >= rows[appends[i].slot]

Index(appends, s) == CHOOSE i \in DOMAIN appends : appends[i].slot = s

ReservedPlan(appends) ==
    [stage |-> "reserved",
     appends |-> appends,
     replacements |-> Replacements(appends),
     additions |-> [s \in SlotsOf(appends) |-> Additions(appends, Index(appends, s))],
     claimed |-> SubSeq(free, Len(free) - Total(appends) + 1, Len(free))]

\* What the call's own checks say of the appends it was asked for.
LEMMA AskedFacts ==
    ASSUME TablesInv, NEW appends, Asked(appends)
    PROVE  /\ Len(appends) \in Nat /\ DOMAIN appends = 1..Len(appends)
           /\ \A i \in 1..Len(appends) :
                 LET s == appends[i].slot IN
                 /\ s \in Slot /\ s \in SlotsOf(appends) /\ Table(pages[s], rows[s])
                 /\ appends[i] \in [slot : Slot, new : Rows, value : Value]
                 /\ appends[i].new \in Nat /\ rows[s] \in Nat /\ rows[s] <= appends[i].new
                 /\ Len(pages[s]) \in Nat /\ Extra(appends[i]) \in Nat
                 /\ Len(pages[s]) + Extra(appends[i]) = PagesFor(appends[i].new)
                 /\ Copies(appends, i) \in {0, 1}
                 /\ CopiesTail(appends, i) <=> Copies(appends, i) = 1
                 /\ Needed(appends, i) \in Nat
                 /\ Needed(appends, i) = Copies(appends, i) + Extra(appends[i])
<1>1. /\ Len(appends) \in Nat /\ DOMAIN appends = 1..Len(appends)
      /\ \A i \in 1..Len(appends) : appends[i] \in [slot : Slot, new : Rows, value : Value]
  BY SequenceFacts DEF Asked
<1>2. ASSUME NEW i \in 1..Len(appends)
      PROVE  LET s == appends[i].slot IN
             /\ s \in Slot /\ s \in SlotsOf(appends) /\ Table(pages[s], rows[s])
             /\ appends[i] \in [slot : Slot, new : Rows, value : Value]
             /\ appends[i].new \in Nat /\ rows[s] \in Nat /\ rows[s] <= appends[i].new
             /\ Len(pages[s]) \in Nat /\ Extra(appends[i]) \in Nat
             /\ Len(pages[s]) + Extra(appends[i]) = PagesFor(appends[i].new)
             /\ Copies(appends, i) \in {0, 1}
             /\ CopiesTail(appends, i) <=> Copies(appends, i) = 1
             /\ Needed(appends, i) \in Nat
             /\ Needed(appends, i) = Copies(appends, i) + Extra(appends[i])
  <2> DEFINE a == appends[i]
             s == a.slot
  <2>1. a \in [slot : Slot, new : Rows, value : Value]
    BY <1>1
  <2>2. s \in Slot /\ s \in SlotsOf(appends) /\ a.new \in Rows
    BY <1>1, <2>1 DEF SlotsOf
  <2>3. Table(pages[s], rows[s]) /\ a.new >= rows[s]
    BY <1>1, <2>2 DEF TablesInv, Asked
  <2> HIDE DEF a
  <2>4. a.new \in Nat /\ rows[s] \in Nat /\ rows[s] <= a.new /\ Len(pages[s]) = PagesFor(rows[s])
    BY <2>2, <2>3, PageShape DEF Table, Rows
  <2>5. /\ PagesFor(rows[s]) \in Nat /\ PagesFor(a.new) \in Nat
        /\ PagesFor(rows[s]) <= PagesFor(a.new)
    BY <2>4, PagesOfRows, RowsHavePages
  <2>6. Extra(a) = PagesFor(a.new) - Len(pages[s])
    BY DEF Extra
  <2>7. Extra(a) \in Nat /\ Len(pages[s]) + Extra(a) = PagesFor(a.new) /\ Len(pages[s]) \in Nat
    BY <2>4, <2>5, <2>6
  <2>8. Copies(appends, i) \in {0, 1} /\ (CopiesTail(appends, i) <=> Copies(appends, i) = 1)
    BY DEF Copies
  <2>9. Needed(appends, i) = Copies(appends, i) + Extra(a)
    BY DEF Needed, a
  <2>10. Needed(appends, i) \in Nat
    BY <2>7, <2>8, <2>9
  <2> QED BY <2>1, <2>2, <2>3, <2>4, <2>7, <2>8, <2>9, <2>10 DEF a
<1> QED BY <1>1, <1>2

\* The running sum of the pages the appends need.
Sums(appends, n, f) ==
    f = [i \in 0..n |-> IF i = 0 THEN 0 ELSE f[i - 1] + Needed(appends, i)]

\* The function of "the pages the first i appends use" exists, for every list of appends.
LEMMA SumsExist ==
    ASSUME NEW appends, NEW n \in Nat
    PROVE  \E f : Sums(appends, n, f)
<1> DEFINE T == {m \in Nat : \E f : Sums(appends, m, f)}
<1>1. 0 \in T
  <2>1. Sums(appends, 0, [i \in 0..0 |-> 0])
    BY DEF Sums
  <2> QED BY <2>1
<1>2. ASSUME NEW m \in Nat, m \in T PROVE m + 1 \in T
  <2>1. PICK f : Sums(appends, m, f)
    BY <1>2
  <2> DEFINE g == [i \in 0..m + 1 |->
                      IF i = m + 1 THEN f[m] + Needed(appends, m + 1) ELSE f[i]]
  <2>2. \A i \in 0..m : f[i] = IF i = 0 THEN 0 ELSE f[i - 1] + Needed(appends, i)
    BY <2>1 DEF Sums
  <2>3. \A i \in 0..m + 1 : g[i] = IF i = 0 THEN 0 ELSE g[i - 1] + Needed(appends, i)
    BY <2>2
  <2>4. Sums(appends, m + 1, g)
    <3>1. g = [i \in 0..m + 1 |-> g[i]]
      OBVIOUS
    <3> HIDE DEF g
    <3> QED BY <2>3, <3>1 DEF Sums
  <2> QED BY <2>4
<1> HIDE DEF T
<1>3. n \in T
  BY <1>1, <1>2, SetInduction
<1> QED BY <1>3 DEF T

\* u counts the pages claimed before and with each append.
Counts(appends, u) ==
    /\ u[0] = 0
    /\ \A i \in 1..Len(appends) : u[i] = u[i - 1] + Needed(appends, i)
    /\ \A i \in 0..Len(appends) : u[i] \in Nat
    /\ \A i, j \in 0..Len(appends) : i <= j => u[i] <= u[j]

\* Used counts the pages each append needs, replaced ones included.
LEMMA UsedCounts ==
    ASSUME TablesInv, NEW appends, Asked(appends)
    PROVE  Counts(appends, Used(appends))
<1> DEFINE N == Len(appends)
           u == CHOOSE f : Sums(appends, N, f)
<1>1. /\ N \in Nat /\ \A i \in 1..N : Needed(appends, i) \in Nat
  BY AskedFacts
<1>2. Sums(appends, N, u)
  BY <1>1, SumsExist
<1>3. Used(appends) = u
  BY DEF Used, Sums
<1> HIDE DEF u, N
<1>4. u[0] = 0 /\ \A i \in 1..N : u[i] = u[i - 1] + Needed(appends, i)
  <2>1. \A i \in 0..N : u[i] = IF i = 0 THEN 0 ELSE u[i - 1] + Needed(appends, i)
    BY <1>2 DEF Sums
  <2>2. 0 \in 0..N /\ \A i \in 1..N : i \in 0..N /\ i # 0
    BY <1>1
  <2> QED BY <2>1, <2>2
<1> DEFINE T == {m \in Nat : m <= N => \A i \in 0..m : u[i] \in Nat /\ u[i] <= u[m]}
<1>5. 0 \in T
  BY <1>4
<1>6. ASSUME NEW m \in Nat, m \in T PROVE m + 1 \in T
  <2> SUFFICES ASSUME m + 1 <= N
               PROVE  \A i \in 0..m + 1 : u[i] \in Nat /\ u[i] <= u[m + 1]
    OBVIOUS
  <2>1. m <= N /\ m + 1 \in 1..N /\ (m + 1) - 1 = m /\ m \in 0..m
    BY <1>1
  <2>2. \A i \in 0..m : u[i] \in Nat /\ u[i] <= u[m]
    BY <1>6, <2>1
  <2>3. u[m + 1] = u[m] + Needed(appends, m + 1) /\ Needed(appends, m + 1) \in Nat
    BY <1>1, <1>4, <2>1
  <2>4. u[m] \in Nat /\ u[m + 1] \in Nat /\ u[m] <= u[m + 1]
    BY <2>1, <2>2, <2>3
  <2>5. \A i \in 0..m + 1 : i \in 0..m \/ i = m + 1
    OBVIOUS
  <2> QED BY <2>2, <2>4, <2>5
<1> HIDE DEF T
<1>7. \A m \in 0..N : \A i \in 0..m : u[i] \in Nat /\ u[i] <= u[m]
  <2>1. Nat \subseteq T
    BY <1>5, <1>6, SetInduction
  <2>2. \A m \in 0..N : m \in T /\ m <= N
    BY <1>1, <2>1
  <2> QED BY <2>2 DEF T
<1>8. \A m \in 0..N : m \in 0..m /\ \A i \in 0..N : i <= m => i \in 0..m
  BY <1>1
<1> QED BY <1>3, <1>4, <1>7, <1>8 DEF Counts, N

\* Every number below the total falls to one append.
LEMMA Numbered ==
    ASSUME TablesInv, NEW appends, Asked(appends), NEW u, Counts(appends, u)
    PROVE  /\ \A c \in 0..u[Len(appends)] - 1 :
                 \E i \in 1..Len(appends) : u[i - 1] <= c /\ c < u[i]
           /\ \A i, j \in 1..Len(appends) : \A c \in Int :
                 (u[i - 1] <= c /\ c < u[i] /\ u[j - 1] <= c /\ c < u[j]) => i = j
<1> DEFINE N == Len(appends)
           T == {m \in Nat : m <= N => \A c \in 0..u[m] - 1 :
                               \E i \in 1..N : u[i - 1] <= c /\ c < u[i]}
<1>1. /\ N \in Nat /\ u[0] = 0
      /\ \A i \in 0..N : u[i] \in Nat
      /\ \A i, j \in 0..N : i <= j => u[i] <= u[j]
  BY AskedFacts DEF Counts
<1> HIDE DEF N
<1>2. 0 \in T
  BY <1>1
<1>3. ASSUME NEW m \in Nat, m \in T PROVE m + 1 \in T
  <2> SUFFICES ASSUME m + 1 <= N, NEW c \in 0..u[m + 1] - 1
               PROVE  \E i \in 1..N : u[i - 1] <= c /\ c < u[i]
    OBVIOUS
  <2>1. m <= N /\ m \in 0..N /\ m + 1 \in 1..N /\ m + 1 \in 0..N /\ (m + 1) - 1 = m
    BY <1>1
  <2>2. u[m] \in Nat /\ u[m + 1] \in Nat /\ c \in Int /\ c < u[m + 1]
    BY <1>1, <2>1
  <2>3. CASE c < u[m]
    BY <1>3, <2>1, <2>2, <2>3
  <2>4. CASE ~(c < u[m])
    BY <2>1, <2>2, <2>4
  <2> QED BY <2>3, <2>4
<1> HIDE DEF T
<1>4. N \in T
  BY <1>1, <1>2, <1>3, SetInduction
<1>5. ASSUME NEW i \in 1..N, NEW j \in 1..N, i < j PROVE u[i] <= u[j - 1]
  <2>1. i \in 0..N /\ j - 1 \in 0..N /\ i <= j - 1
    BY <1>1, <1>5
  <2> QED BY <1>1, <2>1
<1>6. \A i \in 1..N : u[i] \in Nat /\ u[i - 1] \in Nat
  <2>1. \A i \in 1..N : i \in 0..N /\ i - 1 \in 0..N
    BY <1>1
  <2> QED BY <1>1, <2>1
<1>7. ASSUME NEW i \in 1..N, NEW j \in 1..N, NEW c \in Int,
             u[i - 1] <= c, c < u[i], u[j - 1] <= c, c < u[j]
      PROVE  i = j
  <2>1. ~(i < j) /\ ~(j < i)
    BY <1>5, <1>6, <1>7
  <2> QED BY <2>1
<1>8. \A c \in 0..u[N] - 1 : \E i \in 1..N : u[i - 1] <= c /\ c < u[i]
  BY <1>1, <1>4 DEF T
<1> QED BY <1>7, <1>8 DEF N

\* The pages claimed from the end of the free list are distinct pages and are the ones cut off.
LEMMA ClaimFacts ==
    ASSUME free \in Seq(Page), Injective(free), NEW k \in 0..Len(free)
    PROVE  LET b == SubSeq(free, Len(free) - k + 1, Len(free)) IN
           /\ b \in Seq(Page) /\ Injective(b)
           /\ \A c \in 0..k - 1 : Claim(c) \in Page
           /\ \A c, d \in 0..k - 1 : Claim(c) = Claim(d) => c = d
           /\ \A p : p \in ToSet(b) <=> \E c \in 0..k - 1 : Claim(c) = p
<1> DEFINE m == Len(free) - k
           b == SubSeq(free, m + 1, Len(free))
<1>1. Len(free) \in Nat /\ m \in 0..Len(free) /\ Len(free) - m = k /\ k \in Nat
  BY SequenceFacts
<1>2. /\ DOMAIN free = 1..Len(free) /\ \A i \in 1..Len(free) : free[i] \in Page
      /\ \A i, j \in 1..Len(free) : free[i] = free[j] => i = j
  BY SequenceFacts DEF Injective
<1> HIDE DEF m
<1>3. /\ b \in Seq(Page) /\ Len(b) = Len(free) - m /\ Injective(b)
      /\ \A i \in 1..Len(free) - m : b[i] = free[m + i]
  BY <1>1, CutFacts
<1> HIDE DEF b
<1>4. /\ Len(b) = k /\ \A i \in 1..k : b[i] = free[m + i]
      /\ ToSet(b) = {b[i] : i \in 1..k}
  BY <1>1, <1>3, SequenceFacts
<1>5. \A c \in 0..k - 1 : Len(free) - c \in 1..Len(free)
  BY <1>1
<1>6. /\ \A c \in 0..k - 1 : Claim(c) \in Page
      /\ \A c, d \in 0..k - 1 : Claim(c) = Claim(d) => c = d
  <2>1. ASSUME NEW c \in 0..k - 1, NEW d \in 0..k - 1, Claim(c) = Claim(d) PROVE c = d
    <3>1. Len(free) - c = Len(free) - d
      BY <1>2, <1>5, <2>1 DEF Claim
    <3> QED BY <1>1, <3>1
  <2> QED BY <1>2, <1>5, <2>1 DEF Claim
<1>7. ASSUME NEW c \in 0..k - 1 PROVE k - c \in 1..k /\ b[k - c] = Claim(c)
  <2>1. k - c \in 1..k /\ m + (k - c) = Len(free) - c
    BY <1>1
  <2>2. b[k - c] = free[m + (k - c)]
    BY <1>4, <2>1
  <2> QED BY <2>1, <2>2 DEF Claim
<1>8. ASSUME NEW i \in 1..k PROVE k - i \in 0..k - 1 /\ Claim(k - i) = b[i]
  <2>1. k - i \in 0..k - 1 /\ Len(free) - (k - i) = m + i
    BY <1>1
  <2>2. b[i] = free[m + i]
    BY <1>4
  <2> QED BY <2>1, <2>2 DEF Claim
<1>9. \A p : p \in ToSet(b) <=> \E c \in 0..k - 1 : Claim(c) = p
  <2>1. ASSUME NEW p, NEW c \in 0..k - 1, Claim(c) = p PROVE p \in ToSet(b)
    BY <1>4, <1>7, <2>1
  <2>2. ASSUME NEW p \in ToSet(b) PROVE \E c \in 0..k - 1 : Claim(c) = p
    <3>1. PICK i \in 1..k : p = b[i]
      BY <1>4
    <3> QED BY <1>8, <3>1
  <2> QED BY <2>1, <2>2
<1> QED BY <1>3, <1>6, <1>9 DEF b, m

\* The parts of the new plan.
LEMMA ReservedParts ==
    ASSUME TablesInv, NEW appends, Asked(appends), NEW i \in 1..Len(appends)
    PROVE  LET plan == ReservedPlan(appends)
               s == appends[i].slot
           IN
           /\ Index(appends, s) = i
           /\ AppendOf(plan, s) = appends[i]
           /\ Places(plan, s) = 1..PagesFor(appends[i].new)
           /\ plan.additions[s] = Additions(appends, i)
           /\ Moves(plan, s) <=> CopiesTail(appends, i)
           /\ Moves(plan, s) =>
                 Move(plan, s) = [slot |-> s, logical |-> rows[s] \div PAGE_ROWS + 1,
                                  source |-> PartialTail(appends[i]),
                                  destination |-> Claim(UsedBefore(appends, i))]
<1> DEFINE plan == ReservedPlan(appends)
           s == appends[i].slot
           works == {appends[n] : n \in DOMAIN appends}
           move(j) == [slot |-> appends[j].slot,
                       logical |-> rows[appends[j].slot] \div PAGE_ROWS + 1,
                       source |-> PartialTail(appends[j]),
                       destination |-> Claim(UsedBefore(appends, j))]
<1>1. /\ DOMAIN appends = 1..Len(appends) /\ s \in SlotsOf(appends)
      /\ \A j \in 1..Len(appends) : appends[j].slot = s => j = i
  BY AskedFacts DEF Asked
<1>2. /\ plan.appends = appends /\ plan.replacements = Replacements(appends)
      /\ plan.additions = [u \in SlotsOf(appends) |-> Additions(appends, Index(appends, u))]
  BY DEF ReservedPlan
<1> HIDE DEF plan
<1>3. Index(appends, s) = i
  BY <1>1 DEF Index
<1>4. AppendOf(plan, s) = appends[i]
  <2>1. AppendOf(plan, s) = CHOOSE a \in works : a.slot = s
    BY <1>2 DEF AppendOf
  <2>2. appends[i] \in works /\ \A a \in works : a.slot = s => a = appends[i]
    BY <1>1
  <2> HIDE DEF works
  <2> QED BY <2>1, <2>2
<1>5. plan.additions[s] = Additions(appends, i)
  BY <1>1, <1>2, <1>3
<1>6. Replacements(appends) = {move(j) : j \in {x \in DOMAIN appends : CopiesTail(appends, x)}}
  BY DEF Replacements
<1>7. \A j : move(j).slot = appends[j].slot
  OBVIOUS
<1>8. ASSUME NEW m \in plan.replacements, m.slot = s
      PROVE  CopiesTail(appends, i) /\ m = move(i)
  <2>1. PICK j \in {x \in DOMAIN appends : CopiesTail(appends, x)} : m = move(j)
    BY <1>2, <1>6
  <2>2. j = i
    BY <1>1, <1>7, <1>8, <2>1
  <2> QED BY <2>1, <2>2
<1>9. CopiesTail(appends, i) => move(i) \in plan.replacements /\ move(i).slot = s
  BY <1>1, <1>2, <1>6
<1>10. Moves(plan, s) <=> CopiesTail(appends, i)
  <2> HIDE DEF move
  <2> QED BY <1>8, <1>9 DEF Moves
<1>11. Moves(plan, s) => Move(plan, s) = move(i)
  <2> HIDE DEF move
  <2> QED BY <1>8 DEF Moves, Move
<1> QED BY <1>3, <1>4, <1>5, <1>10, <1>11 DEF plan, Places

\* The claim that becomes page k of the table of append i.
Number(appends, i, k) ==
    LET held == Len(pages[appends[i].slot]) IN
    IF k <= held THEN UsedBefore(appends, i)
    ELSE UsedBefore(appends, i) + Copies(appends, i) + (k - held) - 1

NewPlace(appends, i, k) ==
    LET s == appends[i].slot IN
    /\ k \in Places(ReservedPlan(appends), s)
    /\ IsNew(ReservedPlan(appends), s, pages[s], k)

\* The claims of append i are those of its numbers, each for one new page.
LEMMA NewNumbers ==
    ASSUME TablesInv, NEW appends, Asked(appends), NEW i \in 1..Len(appends)
    PROVE  LET s == appends[i].slot
               u == Used(appends)
           IN
           /\ \A k : NewPlace(appends, i, k) =>
                 /\ Number(appends, i, k) \in Nat
                 /\ u[i - 1] <= Number(appends, i, k) /\ Number(appends, i, k) < u[i]
                 /\ NewPage(ReservedPlan(appends), s, pages[s], k)
                       = Claim(Number(appends, i, k))
           /\ \A k, j : (/\ NewPlace(appends, i, k) /\ NewPlace(appends, i, j)
                         /\ Number(appends, i, k) = Number(appends, i, j)) => k = j
           /\ \A c \in Nat : u[i - 1] <= c /\ c < u[i] =>
                 \E k : NewPlace(appends, i, k) /\ Number(appends, i, k) = c
<1> DEFINE plan == ReservedPlan(appends)
           s == appends[i].slot
           list == pages[s]
           L == Len(list)
           x == Extra(appends[i])
           e == Copies(appends, i)
           b == UsedBefore(appends, i)
           t == Used(appends)[i]
           P == PagesFor(appends[i].new)
<1>1. /\ i \in DOMAIN appends /\ Table(list, rows[s]) /\ rows[s] \in Nat
      /\ L \in Nat /\ x \in Nat /\ L + x = P
      /\ e \in {0, 1} /\ (CopiesTail(appends, i) <=> e = 1)
      /\ Needed(appends, i) = e + x
  BY AskedFacts
<1>2. b \in Nat /\ t = b + (e + x)
  <2>1. Counts(appends, Used(appends))
    BY UsedCounts
  <2>2. i - 1 \in 0..Len(appends)
    BY AskedFacts
  <2>3. Used(appends)[i - 1] \in Nat /\ t = Used(appends)[i - 1] + Needed(appends, i)
    BY <2>1, <2>2 DEF Counts
  <2> QED BY <1>1, <2>3 DEF UsedBefore
<1>3. /\ Places(plan, s) = 1..P
      /\ plan.additions[s] = [k \in 1..x |-> Claim(b + e + k - 1)]
      /\ Moves(plan, s) <=> CopiesTail(appends, i)
      /\ Moves(plan, s) => /\ Move(plan, s).logical = rows[s] \div PAGE_ROWS + 1
                           /\ Move(plan, s).destination = Claim(b)
  <2>1. /\ Places(plan, s) = 1..P
        /\ plan.additions[s] = Additions(appends, i)
        /\ Moves(plan, s) <=> CopiesTail(appends, i)
        /\ Moves(plan, s) =>
              Move(plan, s) = [slot |-> s, logical |-> rows[s] \div PAGE_ROWS + 1,
                               source |-> PartialTail(appends[i]), destination |-> Claim(b)]
    BY ReservedParts
  <2>2. Additions(appends, i) = [k \in 1..x |-> Claim(b + e + k - 1)]
    BY DEF Additions
  <2> HIDE DEF plan, P, x, b, e, s
  <2> QED BY <2>1, <2>2
<1>4. e = 1 => Move(plan, s).logical = L
  <2> SUFFICES ASSUME e = 1 PROVE Move(plan, s).logical = L
    OBVIOUS
  <2>1. rows[s] % PAGE_ROWS # 0
    BY <1>1 DEF CopiesTail, EntersPartialTail
  <2>2. L = rows[s] \div PAGE_ROWS + 1
    BY <1>1, <2>1, PagesOfRows DEF Table
  <2> QED BY <1>1, <1>3, <2>2
<1>5. \A k : NewPlace(appends, i, k) <=> k \in 1..P /\ ((e = 1 /\ k = L) \/ k > L)
  BY <1>1, <1>3, <1>4 DEF NewPlace, IsNew
<1>6. \A k : Number(appends, i, k) = IF k <= L THEN b ELSE b + e + (k - L) - 1
  BY DEF Number
<1>7. \A k \in 1..P :
          NewPage(plan, s, list, k)
              = IF e = 1 /\ k = L THEN Claim(b)
                ELSE IF k <= L THEN list[k] ELSE plan.additions[s][k - L]
  BY <1>1, <1>3, <1>4 DEF NewPage
<1>8. \A k \in 1..P : k > L => plan.additions[s][k - L] = Claim(b + e + (k - L) - 1)
  <2> SUFFICES ASSUME NEW k \in 1..P, k > L
               PROVE  plan.additions[s][k - L] = Claim(b + e + (k - L) - 1)
    OBVIOUS
  <2>1. k - L \in 1..x
    <3> HIDE DEF L, x, P
    <3> QED BY <1>1
  <2> QED BY <1>3, <2>1
<1> HIDE DEF plan, s, list, L, x, e, b, t, P
<1>9. ASSUME NEW k, NewPlace(appends, i, k)
      PROVE  /\ Number(appends, i, k) \in Nat
             /\ b <= Number(appends, i, k) /\ Number(appends, i, k) < t
             /\ NewPage(plan, s, list, k) = Claim(Number(appends, i, k))
  <2>1. k \in 1..P /\ ((e = 1 /\ k = L) \/ k > L)
    BY <1>5, <1>9
  <2>2. CASE k > L
    <3>1. Number(appends, i, k) = b + e + (k - L) - 1
      BY <1>1, <1>6, <2>1, <2>2
    <3>2. NewPage(plan, s, list, k) = Claim(b + e + (k - L) - 1)
      <4>1. k \in 1..P /\ ~(k <= L) /\ k # L
        BY <1>1, <2>1, <2>2
      <4>2. NewPage(plan, s, list, k) = plan.additions[s][k - L]
        BY ONLY <1>7, <4>1
      <4> QED BY ONLY <1>8, <2>2, <4>1, <4>2
    <3> QED BY <1>1, <1>2, <2>1, <2>2, <3>1, <3>2
  <2>3. CASE e = 1 /\ k = L
    BY <1>1, <1>2, <1>6, <1>7, <2>1, <2>3
  <2> QED BY <2>1, <2>2, <2>3
<1>10. ASSUME NEW k, NEW j, NewPlace(appends, i, k), NewPlace(appends, i, j),
              Number(appends, i, k) = Number(appends, i, j)
       PROVE  k = j
  <2>1. /\ k \in 1..P /\ ((e = 1 /\ k = L) \/ k > L)
        /\ j \in 1..P /\ ((e = 1 /\ j = L) \/ j > L)
    BY <1>5, <1>10
  <2>2. (IF k <= L THEN b ELSE b + e + (k - L) - 1) = IF j <= L THEN b ELSE b + e + (j - L) - 1
    BY <1>6, <1>10
  <2> QED BY <1>1, <1>2, <2>1, <2>2
<1>11. ASSUME NEW c \in Nat, b <= c, c < t
       PROVE  \E k : NewPlace(appends, i, k) /\ Number(appends, i, k) = c
  <2>1. CASE e = 1 /\ c = b
    <3>1. L \in 1..P
      <4>1. L # 0
        <5>1. rows[s] % PAGE_ROWS # 0
          BY <1>1, <2>1 DEF CopiesTail, EntersPartialTail, s
        <5>2. L = rows[s] \div PAGE_ROWS + 1 /\ rows[s] \div PAGE_ROWS \in Nat
          BY <1>1, <5>1, PagesOfRows, RowParts DEF Table, L
        <5> QED BY <5>2
      <4> QED BY <1>1, <4>1
    <3>2. NewPlace(appends, i, L) /\ Number(appends, i, L) = b
      BY <1>1, <1>5, <1>6, <2>1, <3>1
    <3> QED BY <2>1, <3>2
  <2>2. CASE ~(e = 1 /\ c = b)
    <3> DEFINE k == L + 1 + (c - b) - e
    <3>1. k \in 1..P /\ k > L /\ b + e + (k - L) - 1 = c
      BY <1>1, <1>2, <1>11, <2>2
    <3> HIDE DEF k
    <3>2. NewPlace(appends, i, k)
      BY <1>5, <3>1
    <3>3. Number(appends, i, k) = c
      BY <1>1, <1>6, <3>1
    <3> QED BY <3>2, <3>3
  <2> QED BY <2>1, <2>2
<1>12. b = Used(appends)[i - 1] /\ t = Used(appends)[i]
  BY DEF b, t, UsedBefore
<1> QED BY <1>9, <1>10, <1>11, <1>12 DEF plan, s, list

\* The claims fit in the free list.
LEMMA TotalFacts ==
    ASSUME TablesInv, Pool(free, references, plans),
           NEW appends, Asked(appends), Total(appends) <= Len(free)
    PROVE  LET u == Used(appends)
               b == SubSeq(free, Len(free) - Total(appends) + 1, Len(free))
           IN
           /\ Total(appends) \in 0..Len(free) /\ u[Len(appends)] = Total(appends)
           /\ \A i \in 1..Len(appends) :
                 /\ u[i - 1] \in Nat /\ u[i] \in Nat /\ u[i] <= Total(appends)
                 /\ u[i] = u[i - 1] + Copies(appends, i) + Extra(appends[i])
           /\ b \in Seq(Page) /\ Injective(b)
           /\ \A c \in Nat : c < Total(appends) => Claim(c) \in Page
           /\ \A c, d \in Nat : c < Total(appends) /\ d < Total(appends) /\ Claim(c) = Claim(d)
                 => c = d
           /\ \A p : p \in ToSet(b) <=> \E c \in Nat : c < Total(appends) /\ Claim(c) = p
<1> DEFINE u == Used(appends)
           N == Len(appends)
           k == Total(appends)
           b == SubSeq(free, Len(free) - k + 1, Len(free))
<1>1. /\ N \in Nat
      /\ \A i \in 1..N : /\ Copies(appends, i) \in {0, 1} /\ Extra(appends[i]) \in Nat
                         /\ Needed(appends, i) = Copies(appends, i) + Extra(appends[i])
  BY AskedFacts
<1>2. Counts(appends, u)
  BY UsedCounts
<1>3. k = u[N]
  <2>1. k = u[(N + 1) - 1] /\ (N + 1) - 1 = N
    BY <1>1 DEF Total, UsedBefore
  <2> QED BY <2>1
<1>4. free \in Seq(Page) /\ Injective(free) /\ Len(free) \in Nat
  BY SequenceFacts DEF Pool
<1>5. k \in 0..Len(free)
  <2>1. u[N] \in Nat
    BY <1>1, <1>2 DEF Counts
  <2> QED BY <1>3, <1>4, <2>1
<1> HIDE DEF N, u, k
<1>6. ASSUME NEW i \in 1..N
      PROVE  /\ u[i - 1] \in Nat /\ u[i] \in Nat /\ u[i] <= k
             /\ u[i] = u[i - 1] + Copies(appends, i) + Extra(appends[i])
  <2>1. i \in 0..N /\ i - 1 \in 0..N /\ N \in 0..N /\ i <= N
    BY <1>1
  <2>2. /\ \A m \in 1..N : u[m] = u[m - 1] + Needed(appends, m)
        /\ \A m \in 0..N : u[m] \in Nat
        /\ \A m, n \in 0..N : m <= n => u[m] <= u[n]
    BY <1>2 DEF Counts, N
  <2>3. u[i - 1] \in Nat /\ u[i] \in Nat /\ u[i] <= u[N] /\ u[i] = u[i - 1] + Needed(appends, i)
    BY <2>1, <2>2
  <2> QED BY <1>1, <1>3, <2>3
<1>7. /\ b \in Seq(Page) /\ Injective(b)
      /\ \A c \in 0..k - 1 : Claim(c) \in Page
      /\ \A c, d \in 0..k - 1 : Claim(c) = Claim(d) => c = d
      /\ \A p : p \in ToSet(b) <=> \E c \in 0..k - 1 : Claim(c) = p
  BY <1>4, <1>5, ClaimFacts
<1>8. \A c : c \in 0..k - 1 <=> c \in Nat /\ c < k
  BY <1>4, <1>5
<1> HIDE DEF b
<1>9. /\ \A c \in Nat : c < k => Claim(c) \in Page
      /\ \A c, d \in Nat : c < k /\ d < k /\ Claim(c) = Claim(d) => c = d
      /\ \A p : p \in ToSet(b) <=> \E c \in Nat : c < k /\ Claim(c) = p
  BY <1>7, <1>8
<1> QED BY <1>3, <1>5, <1>6, <1>7, <1>9 DEF N, u, k, b

\* The plan reserve makes is well formed and claims exactly the pages it cut off.
LEMMA ReservedType ==
    ASSUME TablesInv, Pool(free, references, plans),
           NEW appends, Asked(appends), Total(appends) <= Len(free)
    PROVE  LET plan == ReservedPlan(appends) IN
           /\ PlanType(plan)
           /\ PlanFits(plan, pages, rows)
           /\ Claimed(plan) = ToSet(SubSeq(free, Len(free) - Total(appends) + 1, Len(free)))
           /\ plan.stage = "reserved" /\ plan.appends = appends
<1> DEFINE plan == ReservedPlan(appends)
           N == Len(appends)
           M == [slot : SlotsOf(appends), logical : Nat, source : Page, destination : Page]
           move(j) == [slot |-> appends[j].slot,
                       logical |-> rows[appends[j].slot] \div PAGE_ROWS + 1,
                       source |-> PartialTail(appends[j]),
                       destination |-> Claim(UsedBefore(appends, j))]
<1>1. /\ DOMAIN plan = {"stage", "appends", "replacements", "additions", "claimed"}
      /\ plan.stage = "reserved" /\ plan.appends = appends
      /\ plan.replacements = Replacements(appends)
      /\ plan.additions = [s \in SlotsOf(appends) |-> Additions(appends, Index(appends, s))]
      /\ plan.claimed = SubSeq(free, Len(free) - Total(appends) + 1, Len(free))
  BY DEF ReservedPlan
<1>2. Claimed(plan) = ToSet(plan.claimed)
  BY <1>1 DEF Claimed
<1>3. \A i \in 1..N : LET s == appends[i].slot IN
          /\ s \in Slot /\ s \in SlotsOf(appends) /\ Table(pages[s], rows[s])
          /\ rows[s] \in Nat /\ rows[s] <= appends[i].new
          /\ Len(pages[s]) \in Nat /\ Extra(appends[i]) \in Nat
          /\ Len(pages[s]) + Extra(appends[i]) = PagesFor(appends[i].new)
          /\ Copies(appends, i) \in {0, 1} /\ (CopiesTail(appends, i) <=> Copies(appends, i) = 1)
  BY AskedFacts
<1>4. /\ \A i \in 1..N :
            /\ Used(appends)[i - 1] \in Nat /\ Used(appends)[i] <= Total(appends)
            /\ Used(appends)[i] = Used(appends)[i - 1] + Copies(appends, i) + Extra(appends[i])
      /\ \A c \in Nat : c < Total(appends) => Claim(c) \in Page
      /\ Total(appends) \in Nat
      /\ plan.claimed \in Seq(Page) /\ Injective(plan.claimed)
  BY <1>1, TotalFacts
<1> DEFINE B(i) == UsedBefore(appends, i)
<1>5. \A i : B(i) = Used(appends)[i - 1]
  BY DEF UsedBefore
<1>6. /\ DOMAIN appends = 1..N
      /\ \A i, j \in 1..N : appends[i].slot = appends[j].slot => i = j
      /\ appends \in Seq([slot : Slot, new : Rows, value : Value])
  BY AskedFacts DEF Asked
<1>7. SlotsOf(appends) = {appends[i].slot : i \in 1..N}
  BY <1>6 DEF SlotsOf
<1>8. Replacements(appends) = {move(j) : j \in {x \in DOMAIN appends : CopiesTail(appends, x)}}
  BY DEF Replacements
<1> HIDE DEF N, plan, B
<1>9. ASSUME NEW i \in 1..N, CopiesTail(appends, i)
      PROVE  /\ rows[appends[i].slot] % PAGE_ROWS # 0
             /\ appends[i].new > rows[appends[i].slot]
             /\ move(i) \in M
  <2> DEFINE s == appends[i].slot
  <2>1. rows[s] % PAGE_ROWS # 0 /\ appends[i].new > rows[s]
    BY <1>9 DEF CopiesTail, EntersPartialTail
  <2>2. rows[s] \in Nat /\ rows[s] \div PAGE_ROWS \in Nat
    BY <1>3, RowParts
  <2>3. /\ pages[s] \in Seq(Page) /\ Len(pages[s]) = rows[s] \div PAGE_ROWS + 1
    BY <1>3, <2>1, <2>2, PagesOfRows DEF Table
  <2>4. PartialTail(appends[i]) \in Page
    <3>1. rows[s] \div PAGE_ROWS + 1 \in 1..Len(pages[s])
      BY <2>2, <2>3
    <3> QED BY <2>3, <3>1, SequenceFacts DEF PartialTail
  <2>5. Claim(B(i)) \in Page
    <3>1. B(i) \in Nat /\ B(i) < Total(appends)
      <4> DEFINE t == Used(appends)[i]
                 x == Extra(appends[i])
                 e == Copies(appends, i)
      <4>1. B(i) \in Nat /\ t = B(i) + e + x /\ t <= Total(appends) /\ Total(appends) \in Nat
        BY <1>4, <1>5
      <4>2. e = 1 /\ x \in Nat
        BY <1>3, <1>9
      <4> HIDE DEF t, x, e
      <4> QED BY <4>1, <4>2
    <3> QED BY <1>4, <3>1
  <2>6. s \in SlotsOf(appends)
    BY <1>3
  <2> QED BY <2>1, <2>2, <2>4, <2>5, <2>6 DEF B
<1>10. \A m \in plan.replacements : \E i \in 1..N : CopiesTail(appends, i) /\ m = move(i)
  BY <1>1, <1>6, <1>8
<1>11. plan.replacements \subseteq M
  <2> HIDE DEF move, M
  <2> QED BY <1>9, <1>10
<1>12. \A m, x \in plan.replacements : m.slot = x.slot => m = x
  <2> SUFFICES ASSUME NEW m \in plan.replacements, NEW x \in plan.replacements, m.slot = x.slot
               PROVE  m = x
    OBVIOUS
  <2>1. PICK i \in 1..N : m = move(i)
    BY <1>10
  <2>2. PICK j \in 1..N : x = move(j)
    BY <1>10
  <2>3. move(i).slot = appends[i].slot /\ move(j).slot = appends[j].slot
    OBVIOUS
  <2> HIDE DEF move
  <2>4. i = j
    BY <1>6, <2>1, <2>2, <2>3
  <2> QED BY <2>1, <2>2, <2>4
<1>13. ASSUME NEW i \in 1..N
       PROVE  /\ Additions(appends, i) \in Seq(Page)
              /\ Len(Additions(appends, i)) = Extra(appends[i])
  <2> DEFINE t == Used(appends)[i]
             x == Extra(appends[i])
             e == Copies(appends, i)
             f == Additions(appends, i)
  <2>1. /\ B(i) \in Nat /\ t = B(i) + e + x /\ t <= Total(appends) /\ Total(appends) \in Nat
        /\ x \in Nat /\ e \in {0, 1}
    BY <1>3, <1>4, <1>5
  <2>2. f = [k \in 1..x |-> Claim(B(i) + e + k - 1)]
    BY DEF Additions, B
  <2> HIDE DEF t, x, e, f
  <2>3. ASSUME NEW k \in 1..x PROVE Claim(B(i) + e + k - 1) \in Page
    <3>1. B(i) + e + k - 1 \in Nat /\ B(i) + e + k - 1 < Total(appends)
      BY <2>1
    <3> QED BY <1>4, <3>1
  <2>4. f \in [1..x -> Page]
    BY <2>2, <2>3
  <2> QED BY <2>1, <2>4 DEF x, f
<1>14. plan.additions \in [SlotsOf(appends) -> Seq(Page)]
  <2>1. \A i \in 1..N : Index(appends, appends[i].slot) = i
    BY ReservedParts DEF N
  <2>2. \A s \in SlotsOf(appends) : Additions(appends, Index(appends, s)) \in Seq(Page)
    BY <1>7, <1>13, <2>1
  <2> QED BY <1>1, <2>2
<1>15. PlanType(plan)
  BY <1>1, <1>4, <1>6, <1>11, <1>12, <1>14 DEF PlanType
<1>16. \A i \in 1..N : LET s == appends[i].slot IN
           /\ AppendOf(plan, s) = appends[i] /\ plan.additions[s] = Additions(appends, i)
  BY ReservedParts DEF plan, N
<1>17. ASSUME NEW s \in SlotsOf(appends)
       PROVE  /\ AppendOf(plan, s).new >= rows[s]
              /\ Len(plan.additions[s]) = PagesFor(AppendOf(plan, s).new) - Len(pages[s])
  <2>1. PICK i \in 1..N : s = appends[i].slot
    BY <1>7
  <2>2. /\ AppendOf(plan, s) = appends[i] /\ Len(plan.additions[s]) = Extra(appends[i])
    BY <1>13, <1>16, <2>1
  <2>3. Extra(appends[i]) = PagesFor(appends[i].new) - Len(pages[s])
    BY <2>1 DEF Extra
  <2>4. appends[i].new >= rows[s]
    BY <1>6, <2>1 DEF Asked
  <2> QED BY <2>2, <2>3, <2>4
<1>18. ASSUME NEW m \in plan.replacements
       PROVE  /\ rows[m.slot] % PAGE_ROWS # 0
              /\ AppendOf(plan, m.slot).new > rows[m.slot]
              /\ m.logical = rows[m.slot] \div PAGE_ROWS + 1
              /\ m.source = pages[m.slot][m.logical]
  <2>1. PICK i \in 1..N : CopiesTail(appends, i) /\ m = move(i)
    BY <1>10
  <2>2. /\ m.slot = appends[i].slot /\ m.logical = rows[m.slot] \div PAGE_ROWS + 1
        /\ m.source = PartialTail(appends[i])
    BY <2>1
  <2>3. AppendOf(plan, m.slot) = appends[i]
    BY <1>16, <2>2
  <2>4. rows[m.slot] % PAGE_ROWS # 0 /\ appends[i].new > rows[m.slot]
    BY <1>9, <2>1, <2>2
  <2> QED BY <2>2, <2>3, <2>4 DEF PartialTail
<1>19. PlanFits(plan, pages, rows)
  BY <1>1, <1>17, <1>18 DEF PlanFits
<1> QED BY <1>1, <1>2, <1>15, <1>19 DEF plan

\* The pages claimed are the new pages, each in one place.
LEMMA ReservedClaims ==
    ASSUME TablesInv, Pool(free, references, plans),
           NEW appends, Asked(appends), Total(appends) <= Len(free)
    PROVE  PlanClaims(ReservedPlan(appends), pages)
<1> DEFINE plan == ReservedPlan(appends)
           N == Len(appends)
           k0 == Total(appends)
           u == Used(appends)
           slot(i) == appends[i].slot
           place(i, k) == NewPlace(appends, i, k)
           number(i, k) == Number(appends, i, k)
           page(s, k) == NewPage(plan, s, pages[s], k)
<1>1. /\ plan.claimed = SubSeq(free, Len(free) - k0 + 1, Len(free)) /\ plan.appends = appends
  BY DEF ReservedPlan
<1>2. /\ k0 \in 0..Len(free) /\ u[N] = k0
      /\ \A i \in 1..N : u[i] \in Nat /\ u[i] <= k0
      /\ \A c, d \in Nat : c < k0 /\ d < k0 /\ Claim(c) = Claim(d) => c = d
      /\ \A p : p \in ToSet(plan.claimed) <=> \E c \in Nat : c < k0 /\ Claim(c) = p
  BY <1>1, TotalFacts
<1>3. /\ \A c \in 0..u[N] - 1 : \E i \in 1..N : u[i - 1] <= c /\ c < u[i]
      /\ \A i, j \in 1..N : \A c \in Int :
            (u[i - 1] <= c /\ c < u[i] /\ u[j - 1] <= c /\ c < u[j]) => i = j
  BY UsedCounts, Numbered
<1>4. SlotsOf(plan.appends) = {slot(i) : i \in 1..N}
  BY <1>1, AskedFacts DEF SlotsOf
<1>5. \A i : \A k : place(i, k) <=> k \in Places(plan, slot(i)) /\ IsNew(plan, slot(i), pages[slot(i)], k)
  BY DEF NewPlace
<1>6. \A i \in 1..N :
          /\ \A k : place(i, k) => /\ number(i, k) \in Nat
                                   /\ u[i - 1] <= number(i, k) /\ number(i, k) < u[i]
                                   /\ page(slot(i), k) = Claim(number(i, k))
          /\ \A k, j : place(i, k) /\ place(i, j) /\ number(i, k) = number(i, j) => k = j
          /\ \A c \in Nat : u[i - 1] <= c /\ c < u[i] => \E k : place(i, k) /\ number(i, k) = c
  BY NewNumbers
<1> HIDE DEF plan, N, k0, u, place, number, page, slot
<1>7. \A i \in 1..N : \A k : place(i, k) =>
          number(i, k) \in Nat /\ number(i, k) < k0 /\ page(slot(i), k) = Claim(number(i, k))
  <2> SUFFICES ASSUME NEW i \in 1..N, NEW k, place(i, k)
               PROVE  number(i, k) \in Nat /\ number(i, k) < k0 /\ page(slot(i), k) = Claim(number(i, k))
    OBVIOUS
  <2>1. number(i, k) \in Nat /\ number(i, k) < u[i] /\ page(slot(i), k) = Claim(number(i, k))
    BY <1>6
  <2>2. u[i] \in Nat /\ u[i] <= k0 /\ k0 \in Int
    BY <1>2
  <2> QED BY <2>1, <2>2
<1>8. ASSUME NEW s \in SlotsOf(plan.appends), NEW k \in Places(plan, s),
             IsNew(plan, s, pages[s], k)
      PROVE  \E i \in 1..N : s = slot(i) /\ place(i, k)
  BY <1>4, <1>5, <1>8
<1>9. ASSUME NEW s \in SlotsOf(plan.appends), NEW k \in Places(plan, s),
             IsNew(plan, s, pages[s], k)
      PROVE  page(s, k) \in ToSet(plan.claimed)
  <2>1. PICK i \in 1..N : s = slot(i) /\ place(i, k)
    BY <1>8, <1>9
  <2> QED BY <1>2, <1>7, <2>1
<1>10. ASSUME NEW s \in SlotsOf(plan.appends), NEW k \in Places(plan, s),
              NEW v \in SlotsOf(plan.appends), NEW j \in Places(plan, v),
              IsNew(plan, s, pages[s], k), IsNew(plan, v, pages[v], j),
              page(s, k) = page(v, j)
       PROVE  s = v /\ k = j
  <2>1. PICK i \in 1..N : s = slot(i) /\ place(i, k)
    BY <1>8, <1>10
  <2>2. PICK m \in 1..N : v = slot(m) /\ place(m, j)
    BY <1>8, <1>10
  <2>3. /\ number(i, k) \in Nat /\ number(i, k) < k0 /\ page(s, k) = Claim(number(i, k))
        /\ number(m, j) \in Nat /\ number(m, j) < k0 /\ page(v, j) = Claim(number(m, j))
    BY <1>7, <2>1, <2>2
  <2>4. number(i, k) = number(m, j)
    BY <1>2, <1>10, <2>3
  <2>5. i = m
    <3>1. /\ u[i - 1] <= number(i, k) /\ number(i, k) < u[i]
          /\ u[m - 1] <= number(m, j) /\ number(m, j) < u[m]
      BY <1>6, <2>1, <2>2
    <3> QED BY <1>3, <2>3, <2>4, <3>1
  <2> QED BY <1>6, <2>1, <2>2, <2>4, <2>5
<1>11. ASSUME NEW p \in ToSet(plan.claimed)
       PROVE  \E s \in SlotsOf(plan.appends) : \E k \in Places(plan, s) :
                  IsNew(plan, s, pages[s], k) /\ page(s, k) = p
  <2>1. PICK c \in Nat : c < k0 /\ Claim(c) = p
    BY <1>2
  <2>2. c \in 0..u[N] - 1
    BY <1>2, <2>1
  <2>3. PICK i \in 1..N : u[i - 1] <= c /\ c < u[i]
    BY <1>3, <2>2
  <2>4. PICK k : place(i, k) /\ number(i, k) = c
    BY <1>6, <2>3
  <2>5. page(slot(i), k) = p
    BY <1>7, <2>1, <2>4
  <2> QED BY <1>4, <1>5, <2>4, <2>5
<1> QED BY <1>9, <1>10, <1>11 DEF PlanClaims, plan, page

\* An append that writes into a shared tail without a copy is the last of the
\* owners of that page.
LEMMA ReservedAlone ==
    ASSUME TablesInv, Counted(references, pages, prefixes), Pool(free, references, plans),
           NEW appends, Asked(appends)
    PROVE  PlanAlone(ReservedPlan(appends), pages, rows, prefixes)
<1> DEFINE plan == ReservedPlan(appends)
           N == Len(appends)
           slot(i) == appends[i].slot
<1>1. /\ plan.appends = appends /\ DOMAIN appends = 1..N /\ N \in Nat
      /\ SlotsOf(appends) = {slot(i) : i \in 1..N}
      /\ \A i, j \in 1..N : slot(i) = slot(j) => i = j
  BY AskedFacts DEF ReservedPlan, SlotsOf, Asked
<1>2. \A i \in 1..N :
          /\ AppendOf(plan, slot(i)) = appends[i]
          /\ Moves(plan, slot(i)) <=> CopiesTail(appends, i)
          /\ Moves(plan, slot(i)) => Move(plan, slot(i)).source = PartialTail(appends[i])
  <2> SUFFICES ASSUME NEW i \in 1..N
               PROVE  /\ AppendOf(plan, slot(i)) = appends[i]
                      /\ Moves(plan, slot(i)) <=> CopiesTail(appends, i)
                      /\ Moves(plan, slot(i)) => Move(plan, slot(i)).source = PartialTail(appends[i])
    OBVIOUS
  <2>1. /\ AppendOf(plan, slot(i)) = appends[i]
        /\ Moves(plan, slot(i)) <=> CopiesTail(appends, i)
        /\ Moves(plan, slot(i)) =>
              Move(plan, slot(i)) = [slot |-> slot(i), logical |-> rows[slot(i)] \div PAGE_ROWS + 1,
                                     source |-> PartialTail(appends[i]),
                                     destination |-> Claim(UsedBefore(appends, i))]
    BY ReservedParts
  <2> HIDE DEF plan, slot
  <2> QED BY <2>1
<1>3. \A i \in 1..N : /\ slot(i) \in Slot /\ Table(pages[slot(i)], rows[slot(i)])
                      /\ rows[slot(i)] \in Nat
  BY AskedFacts
<1> HIDE DEF plan, N
<1>4. ASSUME NEW i \in 1..N, EntersPartialTail(appends[i])
      PROVE  /\ PartialTail(appends[i]) \in Page
             /\ slot(i) \in SlotsWith(pages, PartialTail(appends[i]))
  <2> DEFINE s == slot(i)
             k == rows[s] \div PAGE_ROWS + 1
  <2>1. rows[s] % PAGE_ROWS # 0
    BY <1>4 DEF EntersPartialTail
  <2>2. Len(pages[s]) = k /\ pages[s] \in Seq(Page) /\ k \in 1..Len(pages[s])
    <3>1. rows[s] \in Nat /\ Table(pages[s], rows[s])
      BY <1>3
    <3> HIDE DEF s
    <3>2. PagesFor(rows[s]) = k /\ rows[s] \div PAGE_ROWS \in Nat
      BY <2>1, <3>1, PagesOfRows, RowParts
    <3>3. Len(pages[s]) = k /\ pages[s] \in Seq(Page)
      BY <3>1, <3>2 DEF Table
    <3> HIDE DEF k
    <3>4. k \in 1..k
      BY <3>2 DEF k
    <3> QED BY <3>3, <3>4
  <2>3. PartialTail(appends[i]) = pages[s][k]
    BY DEF PartialTail
  <2> HIDE DEF s, k
  <2>4. pages[s][k] \in Page /\ pages[s][k] \in ToSet(pages[s])
    BY <2>2, SequenceFacts
  <2> QED BY <1>3, <2>3, <2>4 DEF SlotsWith, s
<1>5. SUFFICES ASSUME NEW i \in 1..N, EntersPartialTail(appends[i]), ~CopiesTail(appends, i)
               PROVE  LET p == PartialTail(appends[i]) IN
                      /\ PrefixesWith(prefixes, p) = {}
                      /\ \A v \in SlotsWith(pages, p) :
                            v = slot(i) \/ (Moves(plan, v) /\ Move(plan, v).source = p)
  <2>1. \A i \in 1..N :
            AppendOf(plan, slot(i)).new > rows[slot(i)] /\ rows[slot(i)] % PAGE_ROWS # 0
                <=> EntersPartialTail(appends[i])
    BY <1>2 DEF EntersPartialTail
  <2>2. \A i \in 1..N : PartialTail(appends[i]) = pages[slot(i)][rows[slot(i)] \div PAGE_ROWS + 1]
    BY DEF PartialTail
  <2> HIDE DEF slot
  <2>3. ASSUME NEW i \in 1..N,
               AppendOf(plan, slot(i)).new > rows[slot(i)], rows[slot(i)] % PAGE_ROWS # 0,
               ~Moves(plan, slot(i))
        PROVE  LET p == pages[slot(i)][rows[slot(i)] \div PAGE_ROWS + 1] IN
               /\ PrefixesWith(prefixes, p) = {}
               /\ \A v \in SlotsWith(pages, p) :
                     v = slot(i) \/ (Moves(plan, v) /\ Move(plan, v).source = p)
    BY <1>2, <1>5, <2>1, <2>2, <2>3
  <2>4. PlanAlone(plan, pages, rows, prefixes)
    <3> SUFFICES ASSUME NEW s \in SlotsOf(plan.appends),
                        AppendOf(plan, s).new > rows[s], rows[s] % PAGE_ROWS # 0, ~Moves(plan, s)
                 PROVE  LET p == pages[s][rows[s] \div PAGE_ROWS + 1] IN
                        /\ PrefixesWith(prefixes, p) = {}
                        /\ \A v \in SlotsWith(pages, p) :
                              v = s \/ (Moves(plan, v) /\ Move(plan, v).source = p)
      BY DEF PlanAlone
    <3>1. PICK i \in 1..N : slot(i) = s
      BY <1>1
    <3> QED BY <2>3, <3>1
  <2> QED BY <2>4 DEF plan
<1> DEFINE p == PartialTail(appends[i])
           A == SlotsWith(pages, p)
           B == PrefixesWith(prefixes, p)
           W == Writers(appends, p)
<1>6. /\ IsFiniteSet(A) /\ Cardinality(A) \in Nat /\ IsFiniteSet(B) /\ Cardinality(B) \in Nat
  BY OwnersFinite
<1>7. p \in Page /\ slot(i) \in A
  BY <1>4, <1>5
<1>8. references[p] = Cardinality(A) + Cardinality(B)
  BY <1>7 DEF Counted
<1>9. references[p] > 1 => Cardinality(W) = references[p] /\ i = Max(W)
  <2>1. ~(/\ references[p] > 1 /\ (Cardinality(W) # references[p] \/ i # Max(W)))
    BY <1>5 DEF CopiesTail
  <2> QED BY <2>1
<1>10. W = {j \in 1..N : EntersPartialTail(appends[j]) /\ PartialTail(appends[j]) = p}
  BY <1>1 DEF Writers
<1> HIDE DEF p, A, B, W, slot
<1>11. CASE ~(references[p] > 1)
  <2>1. Cardinality(A) # 0
    BY <1>6, <1>7, CountOne
  <2>2. Cardinality(A) = 1 /\ Cardinality(B) = 0
    BY <1>6, <1>8, <1>11, <2>1
  <2>3. B = {} /\ \E x : A = {x}
    BY <1>6, <2>2, CountOne
  <2> QED BY <1>7, <2>3 DEF A, B, p
<1>12. CASE references[p] > 1
  <2> DEFINE f == [j \in W |-> slot(j)]
  <2>1. W \subseteq 1..N /\ i \in W
    BY <1>5, <1>10 DEF p
  <2>2. IsFiniteSet(1..N)
    BY <1>1, FS_Interval
  <2>3. IsFiniteSet(W) /\ Cardinality(W) \in Nat
    BY <2>1, <2>2, FS_Subset, FS_CardinalityType
  <2>4. f \in [W -> A]
    BY <1>4, <1>10 DEF A
  <2>5. \A j, m \in W : f[j] = f[m] => j = m
    BY <1>1, <2>1
  <2>6. f \in Injection(W, A)
    BY <2>4, <2>5 DEF Injection, IsInjective
  <2> HIDE DEF f
  <2>7. Cardinality(W) <= Cardinality(A) /\ (Cardinality(W) = Cardinality(A) <=> f \in Surjection(W, A))
    BY <1>6, <2>6, FS_Injection
  <2>8. Cardinality(B) = 0 /\ Cardinality(W) = Cardinality(A)
    BY <1>6, <1>8, <1>9, <1>12, <2>3, <2>7
  <2>9. B = {} /\ \A v \in A : \E j \in W : f[j] = v
    BY <1>6, <2>7, <2>8, CountOne DEF Surjection
  <2>10. ASSUME NEW v \in A, v # slot(i)
         PROVE  Moves(plan, v) /\ Move(plan, v).source = p
    <3>1. PICK j \in W : slot(j) = v
      BY <2>9 DEF f
    <3>2. j # i /\ j \in 1..N
      BY <2>1, <2>10, <3>1
    <3>3. EntersPartialTail(appends[j]) /\ PartialTail(appends[j]) = p
      BY <1>10
    <3>4. j # Max(Writers(appends, PartialTail(appends[j])))
      BY <1>9, <1>12, <3>2, <3>3 DEF W
    <3>5. CopiesTail(appends, j)
      BY <1>12, <3>3, <3>4 DEF CopiesTail
    <3> QED BY <1>2, <3>1, <3>2, <3>3, <3>5
  <2> QED BY <2>9, <2>10 DEF A, B, p
<1> QED BY <1>11, <1>12

\* The appends the model offers pass the call's own checks.
LEMMA AskedFor ==
    ASSUME TablesInv, NEW appends \in Appends
    PROVE  Asked(appends)
<1> DEFINE works == UNION {WorkOf(s) : s \in Slot \ writing}
<1>1. PICK n \in 1..Cardinality(Slot) :
          /\ appends \in [1..n -> works]
          /\ \A i, j \in 1..n : appends[i].slot = appends[j].slot => i = j
  BY DEF Appends
<1>2. ASSUME NEW w \in works
      PROVE  w \in [slot : Slot, new : Rows, value : Value] /\ w.new >= rows[w.slot]
  <2>1. PICK s \in Slot \ writing : w \in [slot : {s}, new : rows[s]..MaxRows, value : Value]
    BY <1>2 DEF WorkOf
  <2>2. rows[s] \in Nat /\ MaxRows \in Nat
    BY PageShape DEF TablesInv, Rows
  <2> QED BY <2>1, <2>2 DEF Rows
<1> HIDE DEF works
<1>3. n \in Nat /\ DOMAIN appends = 1..n
  <2>1. IsFiniteSet(Slot) /\ Cardinality(Slot) \in Nat
    BY PageShape, FS_CardinalityType
  <2> QED BY <1>1, <2>1
<1>4. appends \in [1..n -> [slot : Slot, new : Rows, value : Value]]
  BY <1>1, <1>2
<1>5. appends \in Seq([slot : Slot, new : Rows, value : Value])
  <2> DEFINE work == [slot : Slot, new : Rows, value : Value]
  <2>1. appends \in [1..n -> work]
    BY <1>4
  <2> HIDE DEF work
  <2>2. appends \in Seq(work)
    BY <1>3, <2>1
  <2> QED BY <2>2 DEF work
<1>6. \A i \in 1..n : appends[i].new >= rows[appends[i].slot]
  BY <1>1, <1>2
<1> QED BY <1>1, <1>3, <1>5, <1>6 DEF Asked

\* A reservation takes free pages only, and tells every append which of them
\* it gets and whether it may write into its tail.
LEMMA ReserveStep ==
    ASSUME Shape, RowsInv, NEW l \in Lane, NEW appends \in Appends, Reserve(l, appends)
    PROVE  Shape' /\ RowsInv'
<1> DEFINE q == ReservedPlan(appends)
           kept == Len(free) - Total(appends)
<1>0. /\ TablesInv /\ Counted(references, pages, prefixes) /\ Pool(free, references, plans)
      /\ WritingInv /\ PlansInv
  BY DEF Shape
<1>1. Asked(appends)
  BY <1>0, AskedFor
<1>2. /\ plans[l].stage = "none"
      /\ \A i \in DOMAIN appends : appends[i].slot \notin writing
      /\ Total(appends) <= Len(free)
      /\ free' = SubSeq(free, 1, kept)
      /\ writing' = writing \cup SlotsOf(appends)
      /\ references' = references /\ pages' = pages /\ rows' = rows
      /\ prefixes' = prefixes /\ cells' = cells /\ hist' = hist
  BY DEF Reserve
<1>3. plans' = [plans EXCEPT ![l] = q]
  BY DEF Reserve, ReservedPlan, Index
<1>4. /\ PlanType(q) /\ PlanFits(q, pages, rows)
      /\ Claimed(q) = ToSet(SubSeq(free, Len(free) - Total(appends) + 1, Len(free)))
      /\ q.stage = "reserved" /\ q.appends = appends
  BY <1>0, <1>1, <1>2, ReservedType
<1>5. PlanClaims(q, pages)
  BY <1>0, <1>1, <1>2, ReservedClaims
<1>6. PlanAlone(q, pages, rows, prefixes)
  BY <1>0, <1>1, ReservedAlone
<1>7. kept \in 0..Len(free)
  <2>1. Total(appends) \in 0..Len(free) /\ Len(free) \in Nat
    BY <1>0, <1>1, <1>2, TotalFacts, SequenceFacts DEF Pool
  <2> QED BY <2>1
<1> HIDE DEF q
<1>8. DOMAIN plans = Lane
  BY <1>0 DEF PlansInv
<1>9. Pool(free', references', plans')
  <2>1. Claimed(plans[l]) = {}
    BY <1>2 DEF Claimed
  <2> HIDE DEF kept
  <2>2. Claimed(q) = ToSet(SubSeq(free, kept + 1, Len(free)))
    BY <1>4 DEF kept
  <2>3. Pool(SubSeq(free, 1, kept), references, [plans EXCEPT ![l] = q])
    BY <1>0, <1>7, <1>8, <2>1, <2>2, PoolTake
  <2> QED BY <1>2, <1>3, <2>3
<1>10. DOMAIN plans' = Lane /\ plans'[l] = q /\ \A k \in Lane \ {l} : plans'[k] = plans[k]
  BY <1>3, <1>8
<1>11. TablesInv'
  BY <1>0, <1>2 DEF TablesInv, Table
<1>12. Counted(references', pages', prefixes')
  BY <1>0, <1>2
<1>13. SlotsIn(plans'[l]) = SlotsOf(appends) /\ SlotsIn(plans[l]) = {}
  BY <1>2, <1>4, <1>10 DEF SlotsIn
<1>14. SlotsOf(appends) \cap writing = {} /\ SlotsOf(appends) \subseteq Slot
  <2>1. \A s \in SlotsOf(appends) : s \notin writing
    BY <1>2 DEF SlotsOf
  <2>2. \A s \in SlotsOf(q.appends) : s \in Slot
    BY <1>4, AppendOfFacts
  <2> QED BY <1>4, <2>1, <2>2
<1>15. \A k \in Lane \ {l} : SlotsIn(plans'[k]) = SlotsIn(plans[k])
  BY <1>10
<1>16. WritingInv'
  <2>1. /\ writing \subseteq Slot
        /\ \A s \in Slot : s \in writing <=> \E k \in Lane : s \in SlotsIn(plans[k])
        /\ \A k, m \in Lane : k # m => SlotsIn(plans[k]) \cap SlotsIn(plans[m]) = {}
    BY <1>0 DEF WritingInv
  <2>2. ASSUME NEW s \in Slot
        PROVE  s \in writing' <=> \E k \in Lane : s \in SlotsIn(plans'[k])
    <3>1. (\E k \in Lane : s \in SlotsIn(plans'[k])) <=>
              s \in SlotsIn(plans'[l]) \/ \E k \in Lane \ {l} : s \in SlotsIn(plans'[k])
      OBVIOUS
    <3>2. (\E k \in Lane : s \in SlotsIn(plans[k])) <=>
              \E k \in Lane \ {l} : s \in SlotsIn(plans[k])
      BY <1>13
    <3>3. (\E k \in Lane \ {l} : s \in SlotsIn(plans'[k])) <=>
              \E k \in Lane \ {l} : s \in SlotsIn(plans[k])
      BY <1>15
    <3> QED BY <1>2, <1>13, <2>1, <3>1, <3>2, <3>3
  <2>3. ASSUME NEW k \in Lane, NEW m \in Lane, k # m, NEW s \in SlotsIn(plans'[k])
        PROVE  s \notin SlotsIn(plans'[m])
    <3>1. ASSUME NEW n \in Lane \ {l} PROVE SlotsIn(plans'[n]) \cap SlotsOf(appends) = {}
      <4>1. SUFFICES ASSUME NEW t \in SlotsIn(plans[n]), t \in SlotsOf(appends) PROVE FALSE
        BY <1>15, <3>1
      <4>2. t \in Slot
        BY <1>14, <4>1
      <4>3. t \in writing
        BY <2>1, <4>2
      <4> QED BY <1>14, <4>1, <4>3
    <3>2. CASE k = l
      BY <1>13, <2>3, <3>1, <3>2
    <3>3. CASE m = l
      BY <1>13, <2>3, <3>1, <3>3
    <3>4. CASE k # l /\ m # l
      BY <1>15, <2>1, <2>3, <3>4
    <3> QED BY <3>2, <3>3, <3>4
  <2>4. writing' \subseteq Slot
    BY <1>2, <1>14, <2>1
  <2> QED BY <2>2, <2>3, <2>4 DEF WritingInv
<1>17. PlansInv'
  <2>1. ASSUME NEW k \in Lane, plans'[k].stage # "none"
        PROVE  /\ PlanType(plans'[k]) /\ PlanFits(plans'[k], pages, rows)
               /\ PlanClaims(plans'[k], pages) /\ PlanAlone(plans'[k], pages, rows, prefixes)
    <3>1. CASE k = l
      BY <1>4, <1>5, <1>6, <1>10, <3>1
    <3>2. CASE k # l
      BY <1>0, <1>10, <2>1, <3>2 DEF PlansInv
    <3> QED BY <3>1, <3>2
  <2>2. ASSUME NEW k \in Lane, plans'[k].stage = "none" PROVE plans'[k] = NoPlan
    <3>1. k # l
      BY <1>4, <1>10, <2>2
    <3> QED BY <1>0, <1>10, <2>2, <3>1 DEF PlansInv
  <2> QED BY <1>2, <1>10, <2>1, <2>2 DEF PlansInv
<1>18. RowsInv'
  <2>1. \A k \in Lane : plans'[k].stage = "written" => k # l
    BY <1>4, <1>10
  <2>2. ASSUME NEW s \in Slot, Unwritten(s)' PROVE Unwritten(s)
    <3>1. \A k \in Lane : plans[k].stage = "written" => k # l
      BY <1>2
    <3> QED BY <1>10, <1>15, <2>2, <3>1 DEF Unwritten
  <2>3. ASSUME NEW k \in Lane PROVE PlanRows(plans'[k], cells, hist, pages, rows)
    <3>1. CASE k = l
      BY <1>4, <1>10, <3>1 DEF PlanRows
    <3>2. CASE k # l
      BY <1>10, <3>2 DEF RowsInv
    <3> QED BY <3>1, <3>2
  <2> QED BY <1>2, <2>2, <2>3 DEF RowsInv
<1> QED BY <1>9, <1>11, <1>12, <1>16, <1>17, <1>18 DEF Shape

-----------------------------------------------------------------------------
(* The invariant holds. *)

\* The empty cache satisfies the inductive invariant.
LEMMA InitCacheInv == Init => CacheInv
<1> SUFFICES ASSUME Init PROVE CacheInv
  OBVIOUS
<1> DEFINE N == Cardinality(Page)
<1>1. /\ references = [p \in Page |-> 0]
      /\ pages = [s \in Slot |-> <<>>] /\ rows = [s \in Slot |-> 0]
      /\ writing = {} /\ plans = [l \in Lane |-> NoPlan]
      /\ prefixes = [h \in Handle |-> NoPrefix]
      /\ hist = [s \in Slot |-> <<>>]
  BY DEF Init
<1>2. /\ free \in [1..N -> Page]
      /\ \A i, j \in 1..N : i # j => free[i] # free[j]
  BY DEF Init, SetToSeqs
<1>3. N \in Nat /\ IsFiniteSet(Page)
  BY PageShape, FS_CardinalityType
<1> HIDE DEF N
<1>4. free \in Seq(Page) /\ Len(free) = N /\ Injective(free) /\ ToSet(free) = {free[i] : i \in 1..N}
  <2>1. free \in Seq(Page) /\ Len(free) = N
    BY <1>2, <1>3
  <2>2. ToSet(free) = {free[i] : i \in 1..N}
    BY <2>1, SequenceFacts
  <2>3. Injective(free)
    BY <1>2, <2>1 DEF Injective
  <2> QED BY <2>1, <2>2, <2>3
<1>5. \A p \in Page : p \in ToSet(free)
  <2>1. free \in Injection(1..N, Page)
    BY <1>2 DEF Injection, IsInjective
  <2>2. Cardinality(1..N) = N
    BY <1>3, FS_Interval
  <2>3. free \in Surjection(1..N, Page)
    BY <1>3, <2>1, <2>2, FS_Injection DEF N
  <2> QED BY <1>4, <2>3 DEF Surjection
<1>6. /\ DOMAIN plans = Lane
      /\ \A l \in Lane : plans[l] = NoPlan /\ plans[l].stage = "none"
      /\ \A l \in Lane : Claimed(plans[l]) = {} /\ SlotsIn(plans[l]) = {}
  BY <1>1 DEF NoPlan, Claimed, SlotsIn
<1>7. \A h \in Handle : prefixes[h].live = FALSE
  BY <1>1 DEF NoPrefix
<1>8. TablesInv
  <2>1. pages \in [Slot -> Seq(Page)] /\ rows \in [Slot -> Rows]
    BY <1>1, EmptyTable DEF Table
  <2>2. \A s \in Slot : Table(pages[s], rows[s])
    BY <1>1, EmptyTable
  <2>3. DOMAIN prefixes = Handle
    BY <1>1
  <2> QED BY <1>7, <2>1, <2>2, <2>3 DEF TablesInv
<1>9. Counted(references, pages, prefixes)
  <2> SUFFICES ASSUME NEW p \in Page
               PROVE  references[p] = Cardinality(SlotsWith(pages, p))
                                      + Cardinality(PrefixesWith(prefixes, p))
    BY DEF Counted
  <2>1. SlotsWith(pages, p) = {}
    BY <1>1, EmptyTable DEF SlotsWith
  <2>2. PrefixesWith(prefixes, p) = {}
    BY <1>7 DEF PrefixesWith
  <2>3. Cardinality(SlotsWith(pages, p)) = 0 /\ Cardinality(PrefixesWith(prefixes, p)) = 0
    BY <2>1, <2>2, FS_EmptySet
  <2>4. references[p] = 0
    BY <1>1
  <2> QED BY <2>3, <2>4
<1>10. Pool(free, references, plans)
  <2>1. references \in [Page -> Nat] /\ \A p \in Page : references[p] = 0
    BY <1>1
  <2> QED BY <1>4, <1>5, <1>6, <2>1 DEF Pool
<1>11. WritingInv
  BY <1>1, <1>6 DEF WritingInv
<1>12. PlansInv
  BY <1>6 DEF PlansInv
<1>13. RowsInv
  <2>1. cells \in [Page -> [0..PAGE_ROWS - 1 -> Value]]
    <3>1. PICK v \in Value : cells = [p \in Page |-> [i \in 0..PAGE_ROWS - 1 |-> v]]
      BY DEF Init
    <3> QED BY <3>1
  <2>2. hist \in [Slot -> Seq(Value)]
    BY <1>1
  <2>3. \A s \in Slot : Shows(cells, pages[s], rows[s], hist[s])
    BY <1>1, EmptyTable
  <2>4. \A l \in Lane : PlanRows(plans[l], cells, hist, pages, rows)
    BY <1>6 DEF PlanRows
  <2> QED BY <1>7, <2>1, <2>2, <2>3, <2>4 DEF RowsInv
<1> QED BY <1>8, <1>9, <1>10, <1>11, <1>12, <1>13 DEF CacheInv

\* The inductive invariant, split into what is about pages and what is about rows.
LEMMA CacheInvParts == CacheInv <=> Shape /\ RowsInv
  BY DEF CacheInv, Shape

\* Every operation keeps the inductive invariant.
LEMMA NextKeepsInv ==
    ASSUME Shape, RowsInv, Next
    PROVE  Shape' /\ RowsInv'
<1>1. ASSUME NEW l \in Lane \ InFlight, NEW a \in Appends, Reserve(l, a)
      PROVE  Shape' /\ RowsInv'
  BY <1>1, ReserveStep
<1>2. ASSUME NEW l \in InFlight, CopySharedTails(l) \/ WriteRows(l) \/ Apply(l) \/ Abort(l)
      PROVE  Shape' /\ RowsInv'
  <2>1. l \in Lane
    BY DEF InFlight
  <2> QED BY <1>2, <2>1, CopySharedTailsStep, WriteRowsStep, ApplyStep, AbortStep
<1>3. ASSUME NEW s \in Slot, ReleaseSlot(s) PROVE Shape' /\ RowsInv'
  BY <1>3, ReleaseSlotStep
<1>4. ASSUME NEW h \in Handle, NEW s \in Slot, RetainPrefix(h, s) PROVE Shape' /\ RowsInv'
  BY <1>4, RetainPrefixStep
<1>5. ASSUME NEW h \in Handle, DropPrefix(h) PROVE Shape' /\ RowsInv'
  BY <1>5, DropPrefixStep
<1>6. ASSUME NEW s \in Slot, NEW h \in Handle, NEW n \in Rows, RestorePrefix(s, h, n)
      PROVE  Shape' /\ RowsInv'
  BY <1>6, RestorePrefixStep
<1>7. ASSUME NEW h \in Handle, NEW n \in 1..MaxRows, NEW v \in Value,
             AllocatePrefix(h, [i \in 1..n |-> v])
      PROVE  Shape' /\ RowsInv'
  BY <1>7, AllocatePrefixStep
<1> QED BY <1>1, <1>2, <1>3, <1>4, <1>5, <1>6, <1>7 DEF Next

\* Every step of the cache, stuttering included, keeps the inductive invariant.
LEMMA NextCacheInv == CacheInv /\ [Next]_vars => CacheInv'
<1>1. ASSUME CacheInv, Next PROVE CacheInv'
  <2>1. Shape' /\ RowsInv'
    BY <1>1, CacheInvParts, NextKeepsInv
  <2> QED BY <2>1 DEF CacheInv, Shape
<1>2. ASSUME CacheInv, UNCHANGED vars PROVE CacheInv'
  <2>1. /\ free' = free /\ references' = references /\ pages' = pages /\ rows' = rows
        /\ writing' = writing /\ plans' = plans /\ prefixes' = prefixes
        /\ cells' = cells /\ hist' = hist
    BY <1>2 DEF vars
  <2>2. \A s : Unwritten(s)' <=> Unwritten(s)
    BY <2>1 DEF Unwritten
  <2> QED BY <1>2, <2>1, <2>2 DEF CacheInv, TablesInv, WritingInv, PlansInv, RowsInv
<1> QED BY <1>1, <1>2

\* In every state of the cache the tables, the counts, the pool, the claims of
\* the transactions and what the tables show are right together
\* (source_cache.rs, ownership.rs, reservation.rs).
THEOREM SourceInvariant == Spec => []CacheInv
BY InitCacheInv, NextCacheInv, PTL DEF Spec

\* The variables have their types: pages stay pages, tables no longer than the
\* rows allow, histories sequences of row values.
THEOREM SourceTypeOK == Spec => []TypeOK
BY SourceInvariant, CacheInvParts, InvTypeOK, PTL

\* References count owners, and a page without one is free or claimed by one
\* transaction, exactly once (ownership.rs, reservation.rs).
THEOREM SourcePagesAccounted == Spec => []PagesAccounted
BY SourceInvariant, CacheInvParts, InvAccounted, PTL

\* No table is too short or too long for its rows, so reserve never finds that
\* its binding differs.
THEOREM SourceTablesCover == Spec => []TablesCoverTheirRows
BY SourceInvariant, CacheInvParts, InvTablesCover, PTL DEF Shape

\* No transaction stores to a row another one stores, or a prefix or a table
\* outside it shows: the copies reserve plans are enough.
THEOREM SourceWritesPrivate == Spec => []WritesArePrivate
BY SourceInvariant, CacheInvParts, ShapePrivate, PTL

\* A retained prefix reads the rows it was taken with until it is dropped.
THEOREM SourcePrefixesKept == Spec => []PrefixesKeepTheirRows
BY SourceInvariant, CacheInvParts, InvPrefixRows, PTL

\* A slot with no append in flight reads exactly the rows committed to it.
THEOREM SourceSlotsKept == Spec => []IdleSlotsReadTheirRows
BY SourceInvariant, CacheInvParts, InvIdleRows, PTL

=============================================================================
