--------------------------- MODULE LibraryLemmas ---------------------------
(***************************************************************************)
(* Facts about numbers, finite sets and the sequence operators of the      *)
(* community modules that several of the project's proofs need.            *)
(***************************************************************************)
EXTENDS Integers, SequencesExt, FiniteSetTheorems, SequenceTheorems,
        WellFoundedInduction, TLAPS

-----------------------------------------------------------------------------
(* Induction.  The library states that < is well founded on Nat; from that a *)
(* set of numbers has a least element, which is what the proofs by induction *)
(* use: the least number for which a claim fails.                            *)

\* A nonempty set of numbers has a least one; the inductions below start from this.
LEMMA LeastNat ==
    ASSUME NEW T \in SUBSET Nat, T # {}
    PROVE  \E x \in T : \A y \in T : x <= y
<1>1. IsWellFoundedOn(OpToRel(<, Nat), Nat)
  BY NatLessThanWellFounded
<1>2. PICK x \in T : \A y \in T : ~(<<y, x>> \in OpToRel(<, Nat))
  BY <1>1, WFMin
<1>3. \A y \in T : ~(y < x)
  BY <1>2 DEF OpToRel
<1> QED BY <1>3

\* A set that holds 0 and the successor of each member holds every number.
LEMMA SetInduction ==
    ASSUME NEW T, 0 \in T, \A n \in Nat : n \in T => n + 1 \in T
    PROVE  Nat \subseteq T
<1> DEFINE out == {n \in Nat : n \notin T}
<1> SUFFICES ASSUME out # {} PROVE FALSE
  OBVIOUS
<1>1. PICK m \in out : \A y \in out : m <= y
  <2>1. out \in SUBSET Nat /\ out # {}
    OBVIOUS
  <2> HIDE DEF out
  <2> QED BY <2>1, LeastNat
<1>2. m # 0 /\ m - 1 \in Nat
  OBVIOUS
<1>3. m - 1 \notin out
  BY <1>1, <1>2
<1> QED BY <1>2, <1>3

\* Min of a nonempty set of numbers is its least member.
LEMMA MinProperties ==
    ASSUME NEW T \in SUBSET Nat, T # {}
    PROVE  Min(T) \in T /\ \A y \in T : Min(T) <= y
  BY LeastNat DEF Min

\* Max of a nonempty bounded set of numbers is its greatest member.
LEMMA MaxProperties ==
    ASSUME NEW T \in SUBSET Nat, T # {}, NEW n \in Nat, \A y \in T : y <= n
    PROVE  Max(T) \in T /\ \A y \in T : Max(T) >= y
<1> DEFINE gaps == {n - y : y \in T}
<1>1. gaps \in SUBSET Nat /\ gaps # {}
  <2>1. \A y \in T : n - y \in Nat
    OBVIOUS
  <2> QED BY <2>1
<1>2. PICK g \in gaps : \A h \in gaps : g <= h
  <2> HIDE DEF gaps
  <2> QED BY <1>1, LeastNat
<1>3. \E x \in T : \A y \in T : x >= y
  <2>1. PICK x \in T : g = n - x
    BY <1>2
  <2>2. \A y \in T : n - x <= n - y
    BY <1>2, <2>1
  <2>3. \A y \in T : x >= y
    BY <2>2
  <2> QED BY <2>3
<1> QED BY <1>3 DEF Max

-----------------------------------------------------------------------------
(* Counting. *)

\* The next two lemmas are stated for the count of the members of a finite set
\* when members are added or taken away.
LEMMA CountAdded ==
    ASSUME NEW A, NEW B, IsFiniteSet(A), IsFiniteSet(B), A \intersect B = {}
    PROVE  /\ IsFiniteSet(A \cup B)
           /\ Cardinality(A \cup B) = Cardinality(A) + Cardinality(B)
           /\ Cardinality(A) \in Nat /\ Cardinality(B) \in Nat
<1>1. /\ IsFiniteSet(A \cup B)
      /\ Cardinality(A \cup B) = Cardinality(A) + Cardinality(B) - Cardinality(A \cap B)
  BY FS_Union
<1>2. Cardinality(A \cap B) = 0
  BY FS_EmptySet
<1>3. Cardinality(A) \in Nat /\ Cardinality(B) \in Nat
  BY FS_CardinalityType
<1> QED BY <1>1, <1>2, <1>3

\* Removing a part of a finite set subtracts the part's size.
LEMMA CountRemoved ==
    ASSUME NEW A, NEW B, IsFiniteSet(A), B \subseteq A
    PROVE  /\ IsFiniteSet(A \ B) /\ IsFiniteSet(B)
           /\ Cardinality(A \ B) = Cardinality(A) - Cardinality(B)
           /\ Cardinality(A) \in Nat /\ Cardinality(B) \in Nat
           /\ Cardinality(A \ B) \in Nat
<1>1. IsFiniteSet(A \ B) /\ IsFiniteSet(B)
  BY FS_Subset
<1>2. (A \ B) \cup B = A /\ (A \ B) \cap B = {}
  OBVIOUS
<1>3. /\ Cardinality(A) = Cardinality(A \ B) + Cardinality(B)
      /\ Cardinality(A \ B) \in Nat /\ Cardinality(B) \in Nat
  BY <1>1, <1>2, CountAdded
<1>4. Cardinality(A) \in Nat
  BY FS_CardinalityType
<1> QED BY <1>1, <1>3, <1>4

\* The sets of size zero and one.
LEMMA CountOne ==
    ASSUME NEW A, IsFiniteSet(A)
    PROVE  /\ Cardinality(A) = 0 <=> A = {}
           /\ Cardinality(A) = 1 <=> \E x : A = {x}
  BY FS_EmptySet, FS_Singleton

\* A one-to-one map between sets keeps their size.
LEMMA SameCount ==
    ASSUME NEW A, NEW B, IsFiniteSet(A), NEW f \in [A -> B],
           \A x, y \in A : f[x] = f[y] => x = y,
           \A z \in B : \E x \in A : f[x] = z
    PROVE  IsFiniteSet(B) /\ Cardinality(B) = Cardinality(A)
<1>1. ExistsBijection(A, B)
  BY DEF ExistsBijection, Bijection, Injection, Surjection, IsInjective
<1> QED BY <1>1, FS_Bijection

\* The values of a function on a finite set are finitely many.
LEMMA ImageFinite ==
    ASSUME NEW A, IsFiniteSet(A), NEW f, DOMAIN f = A
    PROVE  IsFiniteSet({f[x] : x \in A})
<1> DEFINE B == {f[x] : x \in A}
           g == [x \in A |-> f[x]]
<1>1. g \in Surjection(A, B)
  BY DEF Surjection
<1> HIDE DEF B, g
<1>2. IsFiniteSet(B)
  BY <1>1, FS_Surjection
<1> QED BY <1>2 DEF B

\* An image has at most as many members, and a union of sets of at most n members
\* at most n for each.
LEMMA ImageCount ==
    ASSUME NEW A, IsFiniteSet(A), NEW f, DOMAIN f = A
    PROVE  /\ IsFiniteSet({f[x] : x \in A}) /\ Cardinality({f[x] : x \in A}) \in Nat
           /\ Cardinality({f[x] : x \in A}) <= Cardinality(A)
<1> DEFINE B == {f[x] : x \in A}
           g == [x \in A |-> f[x]]
<1>1. g \in Surjection(A, B)
  BY DEF Surjection
<1> HIDE DEF B, g
<1>2. IsFiniteSet(B) /\ Cardinality(B) <= Cardinality(A)
  BY <1>1, FS_Surjection
<1>3. Cardinality(B) \in Nat
  BY <1>2, FS_CardinalityType
<1> QED BY <1>2, <1>3 DEF B

Bounded(f, X, m) ==
    IsFiniteSet(UNION {f[x] : x \in X}) /\ Cardinality(UNION {f[x] : x \in X}) <= m

\* A union of sets of at most n members each has at most n times as many members as there are
\* sets.
LEMMA UnionCount ==
    ASSUME NEW A, IsFiniteSet(A), NEW f, NEW n \in Nat,
           \A x \in A : IsFiniteSet(f[x]) /\ Cardinality(f[x]) <= n
    PROVE  Bounded(f, A, n * Cardinality(A))
<1> DEFINE T == {k \in Nat : \A X \in SUBSET A : Cardinality(X) = k => Bounded(f, X, n * k)}
<1>1. 0 \in T
  <2> SUFFICES ASSUME NEW X \in SUBSET A, Cardinality(X) = 0 PROVE Bounded(f, X, n * 0)
    OBVIOUS
  <2>1. X = {}
    BY FS_Subset, FS_EmptySet
  <2>2. UNION {f[x] : x \in X} = {} /\ n * 0 = 0
    BY <2>1
  <2> QED BY <2>2, FS_EmptySet DEF Bounded
<1>2. ASSUME NEW k \in Nat, k \in T PROVE k + 1 \in T
  <2> SUFFICES ASSUME NEW X \in SUBSET A, Cardinality(X) = k + 1
               PROVE  Bounded(f, X, n * (k + 1))
    OBVIOUS
  <2>1. IsFiniteSet(X)
    BY FS_Subset
  <2>2. X # {}
    BY <2>1, FS_EmptySet
  <2>3. PICK y \in X : TRUE
    BY <2>2
  <2> DEFINE Y == X \ {y}
             U == UNION {f[x] : x \in Y}
  <2>4. Cardinality(Y) = k
    <3>1. Cardinality(Y) = Cardinality(X) - 1
      BY <2>1, <2>3, FS_RemoveElement
    <3> HIDE DEF Y
    <3> QED BY <3>1
  <2>5. Bounded(f, Y, n * k)
    BY <1>2, <2>4
  <2>6. UNION {f[x] : x \in X} = U \cup f[y]
    BY <2>3
  <2>7. IsFiniteSet(U) /\ Cardinality(U) <= n * k
    BY <2>5 DEF Bounded
  <2>8. IsFiniteSet(f[y]) /\ Cardinality(f[y]) <= n
    BY <2>3
  <2> HIDE DEF U, T
  <2>9. /\ IsFiniteSet(U \cup f[y])
        /\ Cardinality(U \cup f[y])
              = Cardinality(U) + Cardinality(f[y]) - Cardinality(U \cap f[y])
        /\ IsFiniteSet(U \cap f[y])
    BY <2>7, <2>8, FS_Union, FS_Intersection
  <2>10. /\ Cardinality(U) \in Nat /\ Cardinality(f[y]) \in Nat
         /\ Cardinality(U \cap f[y]) \in Nat
    BY <2>7, <2>8, <2>9, FS_CardinalityType
  <2>11. n * (k + 1) = n * k + n /\ n * k \in Nat
    OBVIOUS
  <2>12. Cardinality(U \cup f[y]) <= n * (k + 1)
    BY <2>7, <2>8, <2>9, <2>10, <2>11
  <2> QED BY <2>6, <2>9, <2>12 DEF Bounded
<1>3. Nat \subseteq T
  <2> HIDE DEF T
  <2> QED BY <1>1, <1>2, SetInduction
<1>4. Cardinality(A) \in Nat
  BY FS_CardinalityType
<1> QED BY <1>3, <1>4

-----------------------------------------------------------------------------
(* Sequences. *)

Injective(s) == \A i, j \in 1..Len(s) : s[i] = s[j] => i = j

\* The length, domain and members of a sequence.
LEMMA SequenceFacts ==
    ASSUME NEW S, NEW s \in Seq(S)
    PROVE  /\ Len(s) \in Nat
           /\ DOMAIN s = 1..Len(s)
           /\ IsFiniteSet(DOMAIN s)
           /\ Cardinality(DOMAIN s) = Len(s)
           /\ \A i \in 1..Len(s) : s[i] \in S
           /\ ToSet(s) = {s[i] : i \in 1..Len(s)}
<1>1. /\ Len(s) \in Nat
      /\ DOMAIN s = 1..Len(s)
      /\ \A i \in 1..Len(s) : s[i] \in S
  OBVIOUS
<1>2. /\ IsFiniteSet(1..Len(s))
      /\ Cardinality(1..Len(s)) = IF 1 > Len(s) THEN 0 ELSE Len(s) - 1 + 1
  BY <1>1, 1 \in Int, Len(s) \in Int, FS_Interval
<1>3. ToSet(s) = {s[i] : i \in 1..Len(s)}
  BY <1>1 DEF ToSet
<1> QED BY <1>1, <1>2, <1>3

\* What Append adds to the members of a sequence, and when it keeps them apart.
LEMMA AppendFacts ==
    ASSUME NEW S, NEW s \in Seq(S), NEW e \in S
    PROVE  /\ Append(s, e) \in Seq(S)
           /\ ToSet(Append(s, e)) = ToSet(s) \cup {e}
           /\ Injective(s) /\ e \notin ToSet(s) => Injective(Append(s, e))
<1>1. /\ Append(s, e) \in Seq(S)
      /\ Len(Append(s, e)) = Len(s) + 1
      /\ \A i \in 1..Len(s) : Append(s, e)[i] = s[i]
      /\ Append(s, e)[Len(s) + 1] = e
  OBVIOUS
<1>2. Len(s) \in Nat /\ 1..Len(s) + 1 = 1..Len(s) \cup {Len(s) + 1}
  OBVIOUS
<1>3. /\ ToSet(s) = {s[i] : i \in 1..Len(s)}
      /\ ToSet(Append(s, e)) = {Append(s, e)[i] : i \in 1..Len(s) + 1}
  BY <1>1, SequenceFacts
<1>4. ToSet(Append(s, e)) = ToSet(s) \cup {e}
  BY <1>1, <1>2, <1>3
<1>5. ASSUME Injective(s), e \notin ToSet(s)
      PROVE  Injective(Append(s, e))
  BY <1>1, <1>2, <1>3, <1>5 DEF Injective
<1> QED BY <1>1, <1>4, <1>5

\* What RemoveAt leaves: one place less, the later places moved down by one.
LEMMA RemoveAtFacts ==
    ASSUME NEW S, NEW s \in Seq(S), NEW n \in 1..Len(s)
    PROVE  LET t == RemoveAt(s, n) IN
           /\ t \in Seq(S)
           /\ Len(t) = Len(s) - 1
           /\ \A i \in 1..Len(s) - 1 : t[i] = IF i < n THEN s[i] ELSE s[i + 1]
<1> DEFINE a == SubSeq(s, 1, n - 1)
           b == SubSeq(s, n + 1, Len(s))
<1>1. Len(s) \in Nat /\ n \in Nat /\ n <= Len(s) /\ n >= 1
  OBVIOUS
<1>2. /\ a \in Seq(S) /\ Len(a) = n - 1
      /\ \A i \in 1..n - 1 : a[i] = s[i]
  BY <1>1
<1>3. /\ b \in Seq(S) /\ Len(b) = Len(s) - n
      /\ \A i \in 1..Len(s) - n : b[i] = s[n + i]
  BY <1>1
<1>4. RemoveAt(s, n) = a \o b
  BY DEF RemoveAt
<1> HIDE DEF a, b
<1>5. /\ a \o b \in Seq(S) /\ Len(a \o b) = Len(s) - 1
      /\ \A i \in 1..Len(s) - 1 : (a \o b)[i] = IF i < n THEN a[i] ELSE b[i - (n - 1)]
  <2>1. /\ a \o b \in Seq(S) /\ Len(a \o b) = Len(a) + Len(b)
        /\ \A i \in 1..Len(a) + Len(b) :
              (a \o b)[i] = IF i <= Len(a) THEN a[i] ELSE b[i - Len(a)]
    BY <1>2, <1>3, ConcatProperties
  <2>2. Len(a) + Len(b) = Len(s) - 1
    BY <1>1, <1>2, <1>3
  <2>3. \A i \in 1..Len(s) - 1 : i <= n - 1 <=> i < n
    BY <1>1
  <2> QED BY <1>2, <2>1, <2>2, <2>3
<1>6. \A i \in 1..Len(s) - 1 : (a \o b)[i] = IF i < n THEN s[i] ELSE s[i + 1]
  <2> TAKE i \in 1..Len(s) - 1
  <2>1. CASE i < n
    BY <2>1, <1>1, <1>2, <1>5
  <2>2. CASE ~(i < n)
    <3>1. i - (n - 1) \in 1..Len(s) - n /\ n + (i - (n - 1)) = i + 1
      BY <2>2, <1>1
    <3> QED BY <2>2, <3>1, <1>3, <1>5
  <2> QED BY <2>1, <2>2
<1> QED BY <1>4, <1>5, <1>6

\* Without repetition, removing a position takes its element away and no other.
LEMMA RemoveAtSet ==
    ASSUME NEW S, NEW s \in Seq(S), Injective(s), NEW n \in 1..Len(s)
    PROVE  /\ RemoveAt(s, n) \in Seq(S)
           /\ ToSet(RemoveAt(s, n)) = ToSet(s) \ {s[n]}
           /\ Injective(RemoveAt(s, n))
<1> DEFINE t == RemoveAt(s, n)
<1>1. Len(s) \in Nat /\ ToSet(s) = {s[i] : i \in 1..Len(s)} /\ n \in Nat
  BY SequenceFacts
<1>2. /\ t \in Seq(S)
      /\ Len(t) = Len(s) - 1
      /\ \A i \in 1..Len(s) - 1 : t[i] = IF i < n THEN s[i] ELSE s[i + 1]
  BY RemoveAtFacts
<1> HIDE DEF t
<1>3. \A i \in 1..Len(s) : s[i] = s[n] <=> i = n
  BY DEF Injective
<1>4. ToSet(t) = {t[i] : i \in 1..Len(s) - 1}
  BY <1>2, SequenceFacts
<1>5. ASSUME NEW x \in ToSet(t) PROVE x \in ToSet(s) \ {s[n]}
  <2>1. PICK i \in 1..Len(s) - 1 : x = t[i]
    BY <1>4, <1>5
  <2>2. CASE i < n
    BY <1>1, <1>2, <1>3, <2>1, <2>2
  <2>3. CASE ~(i < n)
    <3>1. i + 1 \in 1..Len(s) /\ i + 1 # n
      BY <1>1, <2>3
    <3> QED BY <1>1, <1>2, <1>3, <2>1, <2>3, <3>1
  <2> QED BY <2>2, <2>3
<1>6. ASSUME NEW x \in ToSet(s) \ {s[n]} PROVE x \in ToSet(t)
  <2>1. PICK i \in 1..Len(s) : x = s[i] /\ i # n
    BY <1>1, <1>6
  <2>2. CASE i < n
    <3>1. i \in 1..Len(s) - 1 /\ t[i] = x
      BY <1>1, <1>2, <2>1, <2>2
    <3> QED BY <1>4, <3>1
  <2>3. CASE i > n
    <3>1. i - 1 \in 1..Len(s) - 1 /\ ~(i - 1 < n) /\ (i - 1) + 1 = i
      BY <1>1, <2>1, <2>3
    <3>2. t[i - 1] = x
      BY <1>2, <2>1, <3>1
    <3> QED BY <1>4, <3>1, <3>2
  <2> QED BY <1>1, <2>1, <2>2, <2>3
<1>7. Injective(t)
  <2> SUFFICES ASSUME NEW i \in 1..Len(t), NEW j \in 1..Len(t), t[i] = t[j]
               PROVE  i = j
    BY DEF Injective
  <2>0. i \in 1..Len(s) - 1 /\ j \in 1..Len(s) - 1
    BY <1>2
  <2> DEFINE back(k) == IF k < n THEN k ELSE k + 1
  <2>1. back(i) \in 1..Len(s) /\ back(j) \in 1..Len(s)
    BY <1>1, <2>0
  <2>2. t[i] = s[back(i)] /\ t[j] = s[back(j)]
    BY <1>2, <2>0
  <2>3. back(i) = back(j)
    <3> HIDE DEF back
    <3> QED BY <2>1, <2>2 DEF Injective
  <2> QED BY <1>1, <2>0, <2>3
<1> QED BY <1>2, <1>5, <1>6, <1>7 DEF t

\* From a sequence without repetition, RemoveFirst takes e away and nothing else.
LEMMA RemoveFirstFacts ==
    ASSUME NEW S, NEW s \in Seq(S), NEW e, Injective(s)
    PROVE  LET t == RemoveFirst(s, e) IN
           /\ t \in Seq(S)
           /\ ToSet(t) = ToSet(s) \ {e}
           /\ Injective(t)
<1> DEFINE at == {i \in 1..Len(s) : s[i] = e}
<1>0. Len(s) \in Nat /\ ToSet(s) = {s[i] : i \in 1..Len(s)}
  BY SequenceFacts
<1>1. CASE at = {}
  <2>1. RemoveFirst(s, e) = s
    BY <1>1 DEF RemoveFirst
  <2> QED BY <1>0, <1>1, <2>1
<1>2. CASE at # {}
  <2> DEFINE n == Min(at)
  <2>1. at \in SUBSET Nat
    OBVIOUS
  <2>2. n \in at
    <3> HIDE DEF at
    <3> QED BY <1>2, <2>1, MinProperties
  <2>3. RemoveFirst(s, e) = RemoveAt(s, n)
    BY <1>2 DEF RemoveFirst, SelectInSeq
  <2>4. n \in 1..Len(s) /\ s[n] = e
    BY <2>2
  <2> HIDE DEF n
  <2> QED BY <2>3, <2>4, RemoveAtSet
<1> QED BY <1>1, <1>2

\* The length, places and members of a concatenation, and when it keeps its members apart.
LEMMA ConcatFacts ==
    ASSUME NEW S, NEW s \in Seq(S), NEW t \in Seq(S)
    PROVE  /\ s \o t \in Seq(S)
           /\ Len(s \o t) = Len(s) + Len(t)
           /\ \A i \in 1..Len(s) : (s \o t)[i] = s[i]
           /\ \A i \in 1..Len(t) : (s \o t)[Len(s) + i] = t[i]
           /\ ToSet(s \o t) = ToSet(s) \cup ToSet(t)
           /\ Injective(s) /\ Injective(t) /\ ToSet(s) \cap ToSet(t) = {}
                 => Injective(s \o t)
<1> DEFINE u == s \o t
<1>1. /\ u \in Seq(S) /\ Len(u) = Len(s) + Len(t)
      /\ Len(s) \in Nat /\ Len(t) \in Nat
      /\ DOMAIN s = 1..Len(s) /\ DOMAIN t = 1..Len(t) /\ DOMAIN u = 1..Len(u)
  OBVIOUS
<1>2. \A i \in 1..Len(s) : i \in 1..Len(u) /\ u[i] = s[i]
  BY <1>1
<1>3. \A i \in 1..Len(t) : Len(s) + i \in 1..Len(u) /\ u[Len(s) + i] = t[i]
  BY <1>1
<1> HIDE DEF u
<1>4. \A i \in 1..Len(u) : i \in 1..Len(s) \/ (i - Len(s) \in 1..Len(t) /\ i = Len(s) + (i - Len(s)))
  BY <1>1
<1>5. \A i \in 1..Len(u) : \/ i \in 1..Len(s) /\ u[i] = s[i]
                           \/ i - Len(s) \in 1..Len(t) /\ u[i] = t[i - Len(s)]
  BY <1>2, <1>3, <1>4
<1>6. ToSet(u) = ToSet(s) \cup ToSet(t)
  <2>1. /\ ToSet(u) = {u[i] : i \in 1..Len(u)}
        /\ ToSet(s) = {s[i] : i \in 1..Len(s)} /\ ToSet(t) = {t[i] : i \in 1..Len(t)}
    BY <1>1 DEF ToSet
  <2>2. \A i \in 1..Len(s) : s[i] \in ToSet(u)
    BY <1>2, <2>1
  <2>3. \A i \in 1..Len(t) : t[i] \in ToSet(u)
    BY <1>3, <2>1
  <2>4. \A i \in 1..Len(u) : u[i] \in ToSet(s) \cup ToSet(t)
    BY <1>5, <2>1
  <2> QED BY <2>1, <2>2, <2>3, <2>4
<1>7. ASSUME Injective(s), Injective(t), ToSet(s) \cap ToSet(t) = {}
      PROVE  Injective(u)
  <2> SUFFICES ASSUME NEW i \in 1..Len(u), NEW j \in 1..Len(u), u[i] = u[j] PROVE i = j
    BY <1>1 DEF Injective
  <2>1. \A a \in 1..Len(s), b \in 1..Len(t) : s[a] # t[b]
    BY <1>1, <1>7 DEF ToSet
  <2>2. CASE i \in 1..Len(s) /\ j \in 1..Len(s)
    BY <1>1, <1>2, <1>7, <2>2 DEF Injective
  <2>3. CASE ~(i \in 1..Len(s)) /\ ~(j \in 1..Len(s))
    <3>1. i - Len(s) = j - Len(s)
      BY <1>1, <1>5, <1>7, <2>3 DEF Injective
    <3> QED BY <1>1, <3>1
  <2> QED BY <1>5, <2>1, <2>2, <2>3
<1> QED BY <1>1, <1>2, <1>3, <1>6, <1>7 DEF u

\* A sequence cut in two.
LEMMA CutFacts ==
    ASSUME NEW S, NEW s \in Seq(S), NEW k \in 0..Len(s)
    PROVE  LET a == SubSeq(s, 1, k)
               b == SubSeq(s, k + 1, Len(s))
           IN
           /\ a \in Seq(S) /\ Len(a) = k
           /\ b \in Seq(S) /\ Len(b) = Len(s) - k
           /\ \A i \in 1..k : a[i] = s[i]
           /\ \A i \in 1..Len(s) - k : b[i] = s[k + i]
           /\ ToSet(s) = ToSet(a) \cup ToSet(b)
           /\ Injective(s) => /\ Injective(a) /\ Injective(b)
                              /\ ToSet(a) \cap ToSet(b) = {}
<1> DEFINE a == SubSeq(s, 1, k)
           b == SubSeq(s, k + 1, Len(s))
<1>1. Len(s) \in Nat /\ k \in Nat /\ k <= Len(s) /\ DOMAIN s = 1..Len(s)
  OBVIOUS
<1>2. /\ a \in Seq(S) /\ Len(a) = k /\ DOMAIN a = 1..k
      /\ \A i \in 1..k : a[i] = s[i]
  BY <1>1
<1>3. /\ b \in Seq(S) /\ Len(b) = Len(s) - k /\ DOMAIN b = 1..Len(s) - k
      /\ \A i \in 1..Len(s) - k : b[i] = s[k + i]
  <2>1. k + 1 \in 1..Len(s) + 1 /\ Len(s) \in Nat
    BY <1>1
  <2>2. \A i \in k + 1..Len(s) : s[i] \in S
    BY <1>1
  <2>3. b = [i \in 1..Len(s) - k |-> s[k + i]]
    <3>1. b = [i \in 1..(Len(s) - (k + 1) + 1) |-> s[i + (k + 1) - 1]]
      BY <1>1
    <3>2. Len(s) - (k + 1) + 1 = Len(s) - k /\ \A i \in 1..Len(s) - k : i + (k + 1) - 1 = k + i
      BY <1>1
    <3> HIDE DEF b
    <3> QED BY <3>1, <3>2
  <2>4. Len(s) - k \in Nat /\ \A i \in 1..Len(s) - k : k + i \in k + 1..Len(s)
    BY <1>1
  <2> HIDE DEF b
  <2>5. b \in [1..Len(s) - k -> S]
    BY <2>2, <2>3, <2>4
  <2> QED BY <2>3, <2>4, <2>5
<1> HIDE DEF a, b
<1>4. \A i \in 1..Len(s) : i \in 1..k \/ (i - k \in 1..Len(s) - k /\ i = k + (i - k))
  BY <1>1
<1>5. /\ \A i \in 1..k : i \in 1..Len(s)
      /\ \A i \in 1..Len(s) - k : k + i \in 1..Len(s) /\ ~(k + i \in 1..k)
  BY <1>1
<1>6. ToSet(s) = ToSet(a) \cup ToSet(b)
  <2>1. /\ ToSet(a) = {a[i] : i \in 1..k} /\ ToSet(b) = {b[i] : i \in 1..Len(s) - k}
        /\ ToSet(s) = {s[i] : i \in 1..Len(s)}
    BY <1>1, <1>2, <1>3 DEF ToSet
  <2>2. \A i \in 1..k : a[i] \in ToSet(s)
    BY <1>2, <1>5, <2>1
  <2>3. \A i \in 1..Len(s) - k : b[i] \in ToSet(s)
    BY <1>3, <1>5, <2>1
  <2>4. \A i \in 1..Len(s) : s[i] \in ToSet(a) \cup ToSet(b)
    <3>1. \A i \in 1..k : s[i] \in ToSet(a)
      BY <1>2, <2>1
    <3>2. \A i \in 1..Len(s) - k : s[k + i] \in ToSet(b)
      BY <1>3, <2>1
    <3> QED BY <1>4, <3>1, <3>2
  <2> QED BY <2>1, <2>2, <2>3, <2>4
<1>7. ASSUME Injective(s)
      PROVE  Injective(a) /\ Injective(b) /\ ToSet(a) \cap ToSet(b) = {}
  <2>1. Injective(a)
    BY <1>1, <1>2, <1>5, <1>7 DEF Injective
  <2>2. \A i, j \in 1..Len(s) - k : b[i] = b[j] => k + i = k + j
    BY <1>1, <1>3, <1>5, <1>7 DEF Injective
  <2>3. \A i, j \in 1..Len(s) - k : k + i = k + j => i = j
    BY <1>1
  <2>4. Injective(b)
    BY <1>3, <2>2, <2>3 DEF Injective
  <2>5. \A i \in 1..k, j \in 1..Len(s) - k : a[i] # b[j]
    BY <1>1, <1>2, <1>3, <1>5, <1>7 DEF Injective
  <2> QED BY <1>2, <1>3, <2>1, <2>4, <2>5 DEF ToSet
<1> QED BY <1>2, <1>3, <1>6, <1>7 DEF a, b

\* The members of a sequence over S are in S.
LEMMA SeqSet ==
    ASSUME NEW S, NEW s \in Seq(S)
    PROVE  ToSet(s) \subseteq S
<1>1. ToSet(s) = {s[i] : i \in 1..Len(s)} /\ \A i \in 1..Len(s) : s[i] \in S
  BY SequenceFacts
<1> QED BY <1>1

-----------------------------------------------------------------------------
(* Sequences made of sets.                                                  *)

\* An injective function from 1..n is a sequence of n different members; with
\* as many members as the set, it has all of them.
LEMMA EnumerationFacts ==
    ASSUME NEW S, IsFiniteSet(S), NEW q \in [1..Cardinality(S) -> S],
           \A i, j \in 1..Cardinality(S) : q[i] = q[j] => i = j
    PROVE  /\ q \in Seq(S) /\ Len(q) = Cardinality(S) /\ DOMAIN q = 1..Cardinality(S)
           /\ Injective(q) /\ ToSet(q) = S
<1> DEFINE n == Cardinality(S)
<1>1. n \in Nat
  BY FS_CardinalityType
<1>2. q \in [1..n -> S] /\ \A i, j \in 1..n : q[i] = q[j] => i = j
  OBVIOUS
<1>3. IsFiniteSet(1..n) /\ Cardinality(1..n) = n
  <2> HIDE DEF n
  <2>1. Cardinality(1..n) = (IF 1 > n THEN 0 ELSE n - 1 + 1) /\ IsFiniteSet(1..n)
    BY <1>1, 1 \in Int, n \in Int, FS_Interval
  <2> QED BY <1>1, <2>1
<1>4. q \in Injection(1..n, S)
  BY <1>2 DEF Injection, IsInjective
<1>5. q \in Surjection(1..n, S)
  BY <1>3, <1>4, FS_Injection
<1>6. \A x \in S : \E i \in 1..n : q[i] = x
  BY <1>5 DEF Surjection
<1> HIDE DEF n
<1>7. q \in Seq(S) /\ Len(q) = n /\ DOMAIN q = 1..n
  BY <1>1, <1>2
<1>8. ToSet(q) = S
  <2>1. ToSet(q) = {q[i] : i \in 1..n}
    BY <1>7, SequenceFacts
  <2>2. \A i \in 1..n : q[i] \in S
    BY <1>2
  <2>3. \A x : x \in ToSet(q) <=> x \in S
    BY <1>6, <2>1, <2>2
  <2> QED BY <2>3
<1>9. Injective(q)
  BY <1>2, <1>7 DEF Injective
<1> QED BY <1>7, <1>8, <1>9 DEF n

\* SetToSeq lists a finite set, each member once.
LEMMA SetToSeqFacts ==
    ASSUME NEW S, IsFiniteSet(S)
    PROVE  LET q == SetToSeq(S) IN
           /\ q \in Seq(S) /\ Len(q) = Cardinality(S) /\ DOMAIN q = 1..Cardinality(S)
           /\ Injective(q) /\ ToSet(q) = S
<1> DEFINE n == Cardinality(S)
           q == SetToSeq(S)
<1>1. PICK f \in Bijection(1..n, S) : TRUE
  BY FS_CardinalityType DEF ExistsBijection
<1>2. f \in [1..n -> S] /\ IsInjective(f)
  BY <1>1 DEF Bijection, Injection
<1>3. q = CHOOSE g \in [1..n -> S] : IsInjective(g)
  BY DEF SetToSeq
<1> HIDE DEF q, n
<1>4. q \in [1..n -> S] /\ IsInjective(q)
  BY <1>2, <1>3
<1>5. \A i, j \in 1..n : q[i] = q[j] => i = j
  BY <1>4 DEF IsInjective
<1> QED BY <1>4, <1>5, EnumerationFacts DEF q, n

\* The members of S in ascending order, if q is a function of their ranks.
Increasing(q, S) ==
    /\ q \in [1..Cardinality(S) -> S]
    /\ \A i, j \in 1..Cardinality(S) : i < j => q[i] < q[j]

\* A finite set of numbers has an ascending enumeration.
LEMMA IncreasingExists ==
    ASSUME NEW n \in Nat
    PROVE  \A S \in SUBSET (1..n) : IsFiniteSet(S) /\ \E q : Increasing(q, S)
<1> DEFINE T == {m \in Nat : \A S \in SUBSET (1..m) : IsFiniteSet(S) /\ \E q : Increasing(q, S)}
<1>1. 0 \in T
  <2> SUFFICES ASSUME NEW S \in SUBSET (1..0) PROVE IsFiniteSet(S) /\ \E q : Increasing(q, S)
    OBVIOUS
  <2>1. S = {}
    OBVIOUS
  <2>2. IsFiniteSet(S) /\ Cardinality(S) = 0
    BY <2>1, FS_EmptySet
  <2>3. Increasing([i \in 1..0 |-> 0], S)
    BY <2>2 DEF Increasing
  <2> QED BY <2>2, <2>3
<1>2. ASSUME NEW m \in Nat, m \in T PROVE m + 1 \in T
  <2> SUFFICES ASSUME NEW S \in SUBSET (1..m + 1)
               PROVE  IsFiniteSet(S) /\ \E q : Increasing(q, S)
    OBVIOUS
  <2> DEFINE R == S \ {m + 1}
             k == Cardinality(R)
  <2>1. R \in SUBSET (1..m)
    OBVIOUS
  <2>2. IsFiniteSet(R) /\ \E q : Increasing(q, R)
    BY <1>2, <2>1
  <2>3. k \in Nat
    BY <2>2, FS_CardinalityType
  <2>4. CASE m + 1 \notin S
    BY <2>2, <2>4
  <2>5. CASE m + 1 \in S
    <3>1. S = R \cup {m + 1} /\ m + 1 \notin R
      BY <2>5
    <3>2. IsFiniteSet(S) /\ Cardinality(S) = k + 1
      BY <2>2, <3>1, FS_AddElement
    <3>3. PICK q : Increasing(q, R)
      BY <2>2
    <3> HIDE DEF R, k
    <3> DEFINE p == [i \in 1..k + 1 |-> IF i = k + 1 THEN m + 1 ELSE q[i]]
    <3>4. q \in [1..k -> R] /\ \A i, j \in 1..k : i < j => q[i] < q[j]
      BY <3>3 DEF Increasing, k
    <3>5. \A i \in 1..k + 1 : i # k + 1 => i \in 1..k
      BY <2>3
    <3>6. p \in [1..k + 1 -> S]
      BY <3>1, <3>4, <3>5
    <3>7. ASSUME NEW i \in 1..k + 1, NEW j \in 1..k + 1, i < j PROVE p[i] < p[j]
      <4>1. i \in 1..k
        BY <2>3, <3>7
      <4>2. q[i] \in R /\ p[i] = q[i]
        BY <2>3, <3>4, <4>1
      <4>5. q[i] \in 1..m
        BY <2>1, <4>2
      <4>3. CASE j = k + 1
        BY <4>2, <4>3, <4>5
      <4>4. CASE j # k + 1
        BY <3>4, <3>5, <3>7, <4>1, <4>2, <4>4
      <4> QED BY <4>3, <4>4
    <3> HIDE DEF p
    <3>8. Increasing(p, S)
      BY <3>2, <3>6, <3>7 DEF Increasing
    <3> QED BY <3>2, <3>8
  <2> QED BY <2>4, <2>5
<1> HIDE DEF T
<1>3. n \in T
  BY <1>1, <1>2, SetInduction
<1> QED BY <1>3 DEF T

\* The ascending enumeration lists a set of numbers, each once.
LEMMA IncreasingFacts ==
    ASSUME NEW n \in Nat, NEW S \in SUBSET (1..n), NEW q, Increasing(q, S)
    PROVE  /\ q \in Seq(S) /\ Len(q) = Cardinality(S) /\ DOMAIN q = 1..Cardinality(S)
           /\ Injective(q) /\ ToSet(q) = S
<1>1. IsFiniteSet(S) /\ q \in [1..Cardinality(S) -> S]
  BY IncreasingExists DEF Increasing
<1>2. Cardinality(S) \in Nat
  BY <1>1, FS_CardinalityType
<1>3. ASSUME NEW i \in 1..Cardinality(S), NEW j \in 1..Cardinality(S), q[i] = q[j] PROVE i = j
  <2>1. q[i] \in S /\ q[j] \in S
    BY <1>1
  <2>4. q[i] \in 1..n /\ q[j] \in 1..n
    BY <2>1, S \in SUBSET (1..n)
  <2>3. q[i] \in Nat /\ q[j] \in Nat
    BY <2>4
  <2>2. ~(i < j) /\ ~(j < i)
    BY <1>3, <2>3 DEF Increasing
  <2> QED BY <1>2, <2>2
<1> QED BY <1>1, <1>3, EnumerationFacts

=============================================================================
