------------------------ MODULE HostSnapshotsProofs ------------------------
(***************************************************************************)
(* The host snapshot store accounts for every slab and keeps its identity  *)
(* map and its banks exact, for any number of slabs, device pages and      *)
(* snapshots.  The lemmas are about the store's operators, so they hold    *)
(* for any caller.                                                         *)
(***************************************************************************)
EXTENDS HostSnapshots, LibraryLemmas

(***************************************************************************)
(* Slabs and claims.  A claim <<k, i, b>> says that page i of holder k is  *)
(* slab b; a part <<k, b>> that b is one of k's own slabs.                 *)
(***************************************************************************)
On(claims, b) == {x \in claims : x[3] = b}

\* The reference counts and the free list agree with the claims and parts.
Balanced(refs, free, claims, parts) ==
    /\ claims \subseteq Key \X Nat \X Slab
    /\ parts \subseteq Key \X Slab
    /\ IsFiniteSet(claims)
    /\ \A b \in Slab : refs[b] = Cardinality(On(claims, b))
    /\ \A b \in free : On(claims, b) = {} /\ \A k \in Key : <<k, b>> \notin parts
    /\ \A x, y \in parts : x[2] = y[2] => x = y
    /\ \A x \in parts : On(claims, x[2]) = {}
    /\ \A b \in Slab : b \in free \/ On(claims, b) # {} \/ \E k \in Key : <<k, b>> \in parts

\* The claims on one slab are finitely many, and none exactly when their number is zero.
LEMMA OnIsCounted ==
    ASSUME NEW claims, IsFiniteSet(claims), NEW b
    PROVE  /\ IsFiniteSet(On(claims, b))
           /\ Cardinality(On(claims, b)) \in Nat
           /\ Cardinality(On(claims, b)) = 0 <=> On(claims, b) = {}
<1>1. On(claims, b) \subseteq claims
  BY DEF On
<1>2. IsFiniteSet(On(claims, b))
  BY <1>1, FS_Subset
<1> QED BY <1>2, FS_CardinalityType, FS_EmptySet

\* A list of pages mentions a slab as often as the claims for its positions.
ClaimsOf(k, list) == {<<k, i, list[i]>> : i \in DOMAIN list}

MentionedAs(list, claims) == \A b \in Slab : Times(list, b) = Cardinality(On(claims, b))

\* A finite list of pages makes finitely many claims, and mentions a slab once per claim on it.
LEMMA TimesAreClaims ==
    ASSUME NEW k, NEW list, IsFiniteSet(DOMAIN list)
    PROVE  /\ IsFiniteSet(ClaimsOf(k, list))
           /\ MentionedAs(list, ClaimsOf(k, list))
<1>1. IsFiniteSet(ClaimsOf(k, list))
  <2> DEFINE f == [i \in DOMAIN list |-> <<k, i, list[i]>>]
  <2>1. ClaimsOf(k, list) = {f[i] : i \in DOMAIN list}
    BY DEF ClaimsOf
  <2>2. DOMAIN f = DOMAIN list
    OBVIOUS
  <2> HIDE DEF f
  <2> QED BY <2>1, <2>2, ImageFinite
<1>2. ASSUME NEW b PROVE Times(list, b) = Cardinality(On(ClaimsOf(k, list), b))
  <2> DEFINE A == {i \in DOMAIN list : list[i] = b}
             B == On(ClaimsOf(k, list), b)
             f == [i \in A |-> <<k, i, list[i]>>]
  <2>1. IsFiniteSet(A)
    BY FS_Subset
  <2>2. f \in [A -> B]
    BY DEF On, ClaimsOf
  <2>3. \A x, y \in A : f[x] = f[y] => x = y
    OBVIOUS
  <2>4. \A z \in B : \E x \in A : f[x] = z
    BY DEF On, ClaimsOf
  <2>5. Times(list, b) = Cardinality(A)
    BY DEF Times
  <2> HIDE DEF A, B, f
  <2>6. Cardinality(B) = Cardinality(A)
    BY <2>1, <2>2, <2>3, <2>4, SameCount
  <2> QED BY <2>5, <2>6 DEF B
<1> QED BY <1>1, <1>2 DEF MentionedAs

\* Claims and parts given up: a slab returns to the pool when it was a part, or
\* when its last claim goes.
GivesUp(refs, gone, dropped, left, back) ==
    /\ \A b \in Slab : left[b] = refs[b] - Cardinality(On(gone, b))
    /\ back \subseteq Slab
    /\ \A b \in Slab : b \in back <=> \/ refs[b] > 0 /\ left[b] = 0
                                     \/ \E x \in dropped : x[2] = b

\* Giving up claims and own slabs, returning the slabs nobody claims any more, keeps the books
\* balanced.
LEMMA ClaimLess ==
    ASSUME NEW refs, NEW free \in SUBSET Slab, NEW claims, NEW parts,
           Balanced(refs, free, claims, parts),
           NEW gone \in SUBSET claims, NEW dropped \in SUBSET parts,
           NEW left, NEW back, GivesUp(refs, gone, dropped, left, back)
    PROVE  /\ Balanced(left, free \cup back, claims \ gone, parts \ dropped)
           /\ \A b \in Slab : left[b] \in Nat
<1> USE DEF GivesUp
<1>1. ASSUME NEW b \in Slab
      PROVE  /\ left[b] = Cardinality(On(claims \ gone, b))
             /\ left[b] \in Nat
             /\ left[b] = 0 <=> On(claims \ gone, b) = {}
             /\ refs[b] > 0 <=> On(claims, b) # {}
  <2>1. /\ On(gone, b) \subseteq On(claims, b)
        /\ On(claims \ gone, b) = On(claims, b) \ On(gone, b)
    BY DEF On
  <2>2. IsFiniteSet(claims) /\ IsFiniteSet(claims \ gone)
    BY FS_Subset DEF Balanced
  <2>3. Cardinality(On(claims \ gone, b)) = Cardinality(On(claims, b)) - Cardinality(On(gone, b))
    <3>1. IsFiniteSet(On(claims, b))
      BY <2>2, OnIsCounted
    <3> QED BY <2>1, <3>1, CountRemoved
  <2>4. refs[b] = Cardinality(On(claims, b))
    BY DEF Balanced
  <2>5. /\ Cardinality(On(claims, b)) \in Nat
        /\ Cardinality(On(claims, b)) = 0 <=> On(claims, b) = {}
    BY <2>2, OnIsCounted
  <2>6. /\ Cardinality(On(claims \ gone, b)) \in Nat
        /\ Cardinality(On(claims \ gone, b)) = 0 <=> On(claims \ gone, b) = {}
    BY <2>2, OnIsCounted
  <2>7. left[b] = refs[b] - Cardinality(On(gone, b))
    OBVIOUS
  <2>8. left[b] = Cardinality(On(claims \ gone, b))
    BY <2>3, <2>4, <2>7
  <2>9. refs[b] > 0 <=> On(claims, b) # {}
    BY <2>4, <2>5
  <2> QED BY <2>6, <2>8, <2>9
<1>2. IsFiniteSet(claims \ gone)
  BY FS_Subset DEF Balanced
<1>3. \A x \in parts : x \in Key \X Slab /\ x = <<x[1], x[2]>>
  BY DEF Balanced
<1>4. \A b \in Slab : On(claims \ gone, b) \subseteq On(claims, b)
  BY DEF On
<1>5. ASSUME NEW b \in free \cup back
      PROVE  On(claims \ gone, b) = {} /\ \A k \in Key : <<k, b>> \notin parts \ dropped
  <2>1. CASE b \in free
    BY <2>1, <1>4 DEF Balanced
  <2>2. CASE \E x \in dropped : b = x[2]
    <3>1. PICK x \in dropped : b = x[2]
      BY <2>2
    <3>2. On(claims, b) = {} /\ b \in Slab
      BY <3>1, <1>3 DEF Balanced
    <3>3. \A k \in Key : <<k, b>> \in parts => <<k, b>> = x
      BY <3>1 DEF Balanced
    <3> QED BY <3>1, <3>2, <3>3, <1>4
  <2>3. CASE b \in Slab /\ refs[b] > 0 /\ left[b] = 0
    <3>1. On(claims, b) # {} /\ On(claims \ gone, b) = {}
      BY <2>3, <1>1
    <3>2. \A k \in Key : <<k, b>> \notin parts
      BY <3>1 DEF Balanced
    <3> QED BY <3>1, <3>2
  <2> QED BY <1>5, <2>1, <2>2, <2>3
<1>6. ASSUME NEW b \in Slab
      PROVE  \/ b \in free \cup back \/ On(claims \ gone, b) # {}
             \/ \E k \in Key : <<k, b>> \in parts \ dropped
  <2>1. CASE b \in free
    BY <2>1
  <2>2. CASE On(claims, b) # {}
    BY <2>2, <1>1
  <2>3. CASE \E k \in Key : <<k, b>> \in parts
    BY <2>3
  <2> QED BY <2>1, <2>2, <2>3 DEF Balanced
<1>7. \A x \in parts \ dropped : On(claims \ gone, x[2]) = {}
  BY <1>3, <1>4 DEF Balanced
<1> QED BY <1>1, <1>2, <1>5, <1>6, <1>7 DEF Balanced

\* New claims and parts: a slab is taken off the free list for one part or for
\* claims, and other new claims are on slabs already referenced.
TakesUp(refs, claims, fresh, copied, more) ==
    /\ \A b \in Slab : more[b] = refs[b] + Cardinality(On(fresh, b))
    /\ \A x \in fresh : x[3] \in copied \/ On(claims, x[3]) # {}
    /\ \A b \in copied : On(fresh, b) # {}

\* Claiming shared slabs again and free ones for the first time keeps the books balanced.
LEMMA ClaimMore ==
    ASSUME NEW refs, NEW free \in SUBSET Slab, NEW claims, NEW parts,
           Balanced(refs, free, claims, parts),
           NEW fresh \in SUBSET (Key \X Nat \X Slab), IsFiniteSet(fresh),
           fresh \intersect claims = {},
           NEW own \in SUBSET free, NEW copied \in SUBSET free, own \intersect copied = {},
           NEW k \in Key,
           NEW more, TakesUp(refs, claims, fresh, copied, more)
    PROVE  Balanced(more, free \ (own \cup copied), claims \cup fresh,
                    parts \cup ({k} \X own))
<1> USE DEF TakesUp
<1> DEFINE claims2 == claims \cup fresh
           parts2 == parts \cup ({k} \X own)
           free2 == free \ (own \cup copied)
<1>1. \A b : On(claims2, b) = On(claims, b) \cup On(fresh, b)
  BY DEF On
<1>2. ASSUME NEW b \in Slab PROVE more[b] = Cardinality(On(claims2, b))
  <2>1. On(claims, b) \intersect On(fresh, b) = {}
    BY DEF On
  <2>2. Cardinality(On(claims2, b)) = Cardinality(On(claims, b)) + Cardinality(On(fresh, b))
    <3>1. IsFiniteSet(On(claims, b)) /\ IsFiniteSet(On(fresh, b))
      BY OnIsCounted DEF Balanced
    <3> QED BY <1>1, <2>1, <3>1, CountAdded
  <2>3. refs[b] = Cardinality(On(claims, b))
    BY DEF Balanced
  <2> QED BY <2>2, <2>3
<1>3. /\ claims2 \subseteq Key \X Nat \X Slab
      /\ parts2 \subseteq Key \X Slab
      /\ IsFiniteSet(claims2)
  BY CountAdded DEF Balanced
<1>4. \A b \in free : On(claims, b) = {} /\ \A j \in Key : <<j, b>> \notin parts
  BY DEF Balanced
<1>5. \A b \in Slab : On(fresh, b) # {} => b \in copied \/ On(claims, b) # {}
  BY DEF On
<1>6. \A b \in free2 : On(claims2, b) = {} /\ \A j \in Key : <<j, b>> \notin parts2
  BY <1>1, <1>4, <1>5
<1>7. \A x \in parts : x \in Key \X Slab /\ x = <<x[1], x[2]>> /\ x[2] \notin free
  BY <1>4 DEF Balanced
<1>8. \A x \in {k} \X own : x = <<k, x[2]>> /\ x[2] \in own
  OBVIOUS
<1>9. \A x, y \in parts2 : x[2] = y[2] => x = y
  BY <1>7, <1>8 DEF Balanced
<1>10. \A x \in parts2 : On(claims2, x[2]) = {}
  <2>1. ASSUME NEW x \in parts PROVE On(claims2, x[2]) = {}
    BY <1>1, <1>5, <1>7 DEF Balanced
  <2>2. ASSUME NEW b \in own PROVE On(claims2, b) = {}
    BY <1>1, <1>4, <1>5
  <2> QED BY <2>1, <2>2, <1>8
<1>11. ASSUME NEW b \in Slab
       PROVE  b \in free2 \/ On(claims2, b) # {} \/ \E j \in Key : <<j, b>> \in parts2
  <2>1. CASE b \in own
    BY <2>1
  <2>2. CASE b \in copied
    BY <2>2, <1>1
  <2>3. CASE b \notin own /\ b \notin copied
    BY <2>3, <1>1 DEF Balanced
  <2> QED BY <2>1, <2>2, <2>3
<1> HIDE DEF claims2, parts2, free2
<1>12. Balanced(more, free2, claims2, parts2)
  BY <1>2, <1>3, <1>6, <1>9, <1>10, <1>11 DEF Balanced
<1> QED BY <1>12 DEF claims2, parts2, free2

-----------------------------------------------------------------------------
(* The store. *)

SnapshotRecords ==
    [resident : {TRUE}, meta : Meta, own : SUBSET Slab, pins : Nat, pages : Seq(Slab)]

PlanRecords ==
    [key : Key, meta : Meta, own : SUBSET Slab, copies : SUBSET Nat, pages : Seq(Slab)]

StoreRecords ==
    [free : SUBSET Slab,
     refs : [Slab -> Nat],
     device : [Slab -> PageId \cup {NoId}],
     map : [PageId -> Slab \cup {NoSlab}],
     snapshots : [Key -> SnapshotRecords \cup {Absent}],
     bank : [Kind -> Seq(Key)],
     next_key : 0..MaxKeys]

MapExact(st) ==
    /\ \A id \in PageId : st.map[id] # NoSlab =>
          st.refs[st.map[id]] > 0 /\ st.device[st.map[id]] = id
    /\ \A b \in Slab : st.device[b] # NoId => st.map[st.device[b]] = b

\* A bank lists each resident snapshot of its kind once, and no two of them
\* have the same tokens.
Lists(st, n, order) ==
    /\ order \in Seq(Key)
    /\ Injective(order)
    /\ ToSet(order) = {k \in Resident(st) : st.snapshots[k].meta.kind = n}
    /\ \A j, k \in ToSet(order) : Tokens(st, j) = Tokens(st, k) => j = k

BanksExact(st) == \A n \in Kind : Lists(st, n, st.bank[n])

\* What giving up references leaves: t is st but for its books, which balance,
\* and for device identities that are gone.
LetGo(st, t, claims, parts) ==
    /\ t \in StoreRecords
    /\ t.snapshots = st.snapshots /\ t.bank = st.bank /\ t.next_key = st.next_key
    /\ Balanced(t.refs, t.free, claims, parts)
    /\ MapExact(t)
    /\ \A b \in Slab : t.device[b] \in {st.device[b], NoId}
    /\ \A id \in PageId : t.map[id] \in {st.map[id], NoSlab}

\* Giving up the references of a list releases the slabs nobody else claims and
\* takes them out of the identity map.
LEMMA ReleasePagesBalance ==
    ASSUME NEW st \in StoreRecords, NEW claims, NEW parts,
           Balanced(st.refs, st.free, claims, parts), MapExact(st),
           NEW gone \in SUBSET claims, NEW list,
           MentionedAs(list, gone)
    PROVE  LetGo(st, ReleasePages(st, list), claims \ gone, parts)
<1> DEFINE left == [b \in Slab |-> st.refs[b] - Times(list, b)]
           out == {b \in Slab : st.refs[b] > 0 /\ left[b] = 0}
           map == [id \in PageId |->
                      IF st.map[id] \in out /\ st.device[st.map[id]] = id THEN NoSlab
                      ELSE st.map[id]]
           device == [b \in Slab |-> IF b \in out THEN NoId ELSE st.device[b]]
           t == ReleasePages(st, list)
<1>1. t = [st EXCEPT !.refs = left, !.free = @ \cup out, !.map = map, !.device = device]
  BY DEF ReleasePages, StoreRecords
<1>2. /\ t.refs = left /\ t.free = st.free \cup out /\ t.map = map /\ t.device = device
  BY <1>1 DEF StoreRecords
<1>3. /\ st.free \in SUBSET Slab /\ st.refs \in [Slab -> Nat]
      /\ st.device \in [Slab -> PageId \cup {NoId}]
      /\ st.map \in [PageId -> Slab \cup {NoSlab}]
  BY DEF StoreRecords
<1>4. /\ Balanced(left, st.free \cup out, claims \ gone, parts)
      /\ \A b \in Slab : left[b] \in Nat
  <2>1. GivesUp(st.refs, gone, {}, left, out)
    BY DEF GivesUp, MentionedAs
  <2>2. {} \in SUBSET parts /\ parts \ {} = parts
    OBVIOUS
  <2> HIDE DEF left, out
  <2>3. /\ Balanced(left, st.free \cup out, claims \ gone, parts \ {})
        /\ \A b \in Slab : left[b] \in Nat
    BY <1>3, <2>1, <2>2, ClaimLess
  <2> QED BY <2>2, <2>3
<1>5. out \intersect st.free = {}
  <2>1. \A b \in st.free : Cardinality(On(claims, b)) = 0
    BY FS_EmptySet DEF Balanced
  <2> QED BY <1>3, <2>1 DEF Balanced
<1>6. map \in [PageId -> Slab \cup {NoSlab}] /\ device \in [Slab -> PageId \cup {NoId}]
  BY <1>3
<1>7. \A id \in PageId : map[id] = IF st.map[id] \in out THEN NoSlab ELSE st.map[id]
  BY <1>3, StoreShape DEF MapExact
<1>8. MapExact(t)
  <2>1. ASSUME NEW id \in PageId, map[id] # NoSlab
        PROVE  left[map[id]] > 0 /\ device[map[id]] = id
    <3>1. map[id] = st.map[id] /\ st.map[id] \in Slab \ out
      BY <1>3, <1>7, <2>1
    <3>2. st.refs[map[id]] > 0 /\ st.device[map[id]] = id
      BY <3>1, <2>1 DEF MapExact
    <3>3. left[map[id]] \in Nat /\ left[map[id]] # 0
      BY <1>4, <3>1, <3>2
    <3>4. device[map[id]] = id
      BY <3>1, <3>2
    <3>5. left[map[id]] > 0
      <4> HIDE DEF left, map
      <4> QED BY <3>3
    <3> QED BY <3>4, <3>5
  <2>2. ASSUME NEW b \in Slab, device[b] # NoId
        PROVE  map[device[b]] = b
    <3>1. b \notin out /\ device[b] = st.device[b] /\ st.device[b] \in PageId
      BY <1>3, <2>2
    <3>2. st.map[st.device[b]] = b
      BY <2>2, <3>1 DEF MapExact
    <3> QED BY <1>7, <3>1, <3>2
  <2> HIDE DEF map, device, left, out, t
  <2> QED BY <1>2, <2>1, <2>2 DEF MapExact
<1>9. t \in StoreRecords
  <2>1. left \in [Slab -> Nat]
    BY <1>4
  <2>2. st.free \cup out \in SUBSET Slab
    BY <1>3
  <2> HIDE DEF map, device, left, out, t
  <2> QED BY <1>1, <1>6, <2>1, <2>2 DEF StoreRecords
<1>10. t.snapshots = st.snapshots /\ t.bank = st.bank /\ t.next_key = st.next_key
  BY <1>1 DEF StoreRecords
<1>11. /\ \A b \in Slab : t.device[b] \in {st.device[b], NoId}
       /\ \A id \in PageId : t.map[id] \in {st.map[id], NoSlab}
  BY <1>2
<1> HIDE DEF left, out, map, device, t
<1>12. LetGo(st, t, claims \ gone, parts)
  BY <1>2, <1>4, <1>8, <1>9, <1>10, <1>11 DEF LetGo
<1> QED BY <1>12 DEF t

\* Release of all that holder k has.
LEMMA ReleaseBalance ==
    ASSUME NEW st \in StoreRecords, NEW claims, NEW parts,
           Balanced(st.refs, st.free, claims, parts), MapExact(st),
           NEW k \in Key, NEW h, h.pages \in Seq(Slab), h.own \in SUBSET Slab,
           ClaimsOf(k, h.pages) \subseteq claims, {k} \X h.own \subseteq parts
    PROVE  LetGo(st, Release(st, h), claims \ ClaimsOf(k, h.pages),
                 parts \ ({k} \X h.own))
<1> DEFINE gone == ClaimsOf(k, h.pages)
           dropped == {k} \X h.own
           r == ReleasePages(st, h.pages)
           t == Release(st, h)
<1>1. MentionedAs(h.pages, gone)
  <2>1. IsFiniteSet(DOMAIN h.pages)
    BY SequenceFacts
  <2> QED BY <2>1, TimesAreClaims
<1>2. LetGo(st, r, claims \ gone, parts)
  <2>1. gone \in SUBSET claims
    OBVIOUS
  <2> HIDE DEF gone
  <2> QED BY <1>1, <2>1, ReleasePagesBalance
<1>3. t = [r EXCEPT !.free = @ \cup h.own]
  BY DEF Release
<1> HIDE DEF r, t, gone
<1>4. /\ t.free = r.free \cup h.own /\ t.refs = r.refs /\ t.map = r.map /\ t.device = r.device
      /\ t.snapshots = r.snapshots /\ t.bank = r.bank /\ t.next_key = r.next_key
      /\ t \in StoreRecords
  BY <1>2, <1>3 DEF StoreRecords, LetGo
<1>5. MapExact(t)
  BY <1>2, <1>4 DEF MapExact, LetGo
<1>6. Balanced(r.refs, r.free \cup h.own, (claims \ gone) \ {}, parts \ dropped)
  <2>1. GivesUp(r.refs, {}, dropped, r.refs, h.own)
    <3>1. ASSUME NEW b \in Slab PROVE r.refs[b] = r.refs[b] - Cardinality(On({}, b))
      <4>1. On({}, b) = {}
        BY DEF On
      <4>2. r.refs[b] \in Nat
        BY <1>2 DEF StoreRecords, LetGo
      <4>3. Cardinality(On({}, b)) = 0
        BY <4>1, FS_EmptySet
      <4> HIDE DEF On
      <4> QED BY <4>1, <4>2, <4>3
    <3>2. ASSUME NEW b \in Slab PROVE b \in h.own <=> \E x \in dropped : x[2] = b
      <4>1. b \in h.own => <<k, b>> \in dropped /\ <<k, b>>[2] = b
        OBVIOUS
      <4>2. \A x \in dropped : x[2] \in h.own
        OBVIOUS
      <4> QED BY <4>1, <4>2
    <3>3. \A b \in Slab : ~(r.refs[b] > 0 /\ r.refs[b] = 0)
      OBVIOUS
    <3> QED BY <3>1, <3>2, <3>3 DEF GivesUp
  <2>2. dropped \in SUBSET parts /\ {} \in SUBSET (claims \ gone) /\ r.free \in SUBSET Slab
    BY <1>2 DEF StoreRecords, LetGo
  <2>3. Balanced(r.refs, r.free, claims \ gone, parts)
    BY <1>2 DEF LetGo
  <2> HIDE DEF dropped
  <2> QED BY <2>1, <2>2, <2>3, ClaimLess
<1>7. (claims \ gone) \ {} = claims \ gone
  OBVIOUS
<1>8. LetGo(st, t, claims \ gone, parts \ dropped)
  BY <1>2, <1>4, <1>5, <1>6, <1>7 DEF LetGo
<1> QED BY <1>8 DEF t, gone

-----------------------------------------------------------------------------
(* The holders, and the invariant of the store with its outstanding plans. *)

HasPlan(pl) == {k \in Key : pl[k] # Absent}

Holding(st, pl) == Resident(st) \cup HasPlan(pl)

HolderOf(st, pl, k) == IF k \in HasPlan(pl) THEN pl[k] ELSE st.snapshots[k]

ClaimsIn(st, pl) ==
    UNION {ClaimsOf(k, HolderOf(st, pl, k).pages) : k \in Holding(st, pl)}

PartsIn(st, pl) == UNION {{k} \X HolderOf(st, pl, k).own : k \in Holding(st, pl)}

PlansExact(st, pl) ==
    /\ pl \in [Key -> PlanRecords \cup {Absent}]
    /\ \A k \in HasPlan(pl) :
          /\ pl[k].key = k /\ k < st.next_key
          /\ DOMAIN pl[k].pages = DOMAIN pl[k].meta.pages
          /\ pl[k].copies \subseteq DOMAIN pl[k].pages
          /\ Cardinality(pl[k].own) = pl[k].meta.parts
    /\ \A k \in Resident(st) :
          /\ k < st.next_key
          /\ Cardinality(st.snapshots[k].own) = st.snapshots[k].meta.parts
          /\ DOMAIN st.snapshots[k].pages = DOMAIN st.snapshots[k].meta.pages
    /\ Resident(st) \intersect HasPlan(pl) = {}

\* A page a plan copies is nobody else's and stands for no device page yet.
CopiesPrivate(st, pl) ==
    \A k \in HasPlan(pl) : \A i \in pl[k].copies :
        /\ st.device[pl[k].pages[i]] = NoId
        /\ \A x \in On(ClaimsIn(st, pl), pl[k].pages[i]) : x = <<k, i, pl[k].pages[i]>>

StoreInv(st, pl) ==
    /\ st \in StoreRecords
    /\ PlansExact(st, pl)
    /\ Balanced(st.refs, st.free, ClaimsIn(st, pl), PartsIn(st, pl))
    /\ MapExact(st)
    /\ CopiesPrivate(st, pl)
    /\ BanksExact(st)

\* What the types say of residents and plans, in the form the steps below use.
LEMMA Shapes ==
    ASSUME NEW st \in StoreRecords, NEW pl, PlansExact(st, pl)
    PROVE  /\ \A k \in Resident(st) :
                 st.snapshots[k] \in SnapshotRecords /\ k \notin HasPlan(pl)
           /\ \A k \in Key \ Resident(st) : st.snapshots[k] = Absent
           /\ \A k \in HasPlan(pl) : pl[k] \in PlanRecords
           /\ \A k \in Holding(st, pl) :
                 /\ k \in Key
                 /\ HolderOf(st, pl, k).pages \in Seq(Slab)
                 /\ HolderOf(st, pl, k).own \in SUBSET Slab
<1>1. \A k \in Key : st.snapshots[k] \in SnapshotRecords \cup {Absent}
  BY DEF StoreRecords
<1>2. ~Absent.resident
  BY DEF Absent
<1>3. \A r \in SnapshotRecords : r.resident
  BY DEF SnapshotRecords
<1>4. \A k \in Key : k \in Resident(st) <=> st.snapshots[k].resident
  BY DEF Resident
<1>5. /\ \A k \in Resident(st) : st.snapshots[k] \in SnapshotRecords
      /\ \A k \in Key \ Resident(st) : st.snapshots[k] = Absent
  BY <1>1, <1>2, <1>3, <1>4 DEF Resident
<1>6. \A k \in HasPlan(pl) : k \in Key /\ pl[k] \in PlanRecords
  BY DEF PlansExact, HasPlan
<1>7. /\ \A r \in SnapshotRecords : r.pages \in Seq(Slab) /\ r.own \in SUBSET Slab
      /\ \A r \in PlanRecords : r.pages \in Seq(Slab) /\ r.own \in SUBSET Slab
  BY DEF SnapshotRecords, PlanRecords
<1>8. \A k \in Resident(st) : k \in Key /\ k \notin HasPlan(pl)
  BY DEF Resident, PlansExact
<1> QED BY <1>5, <1>6, <1>7, <1>8 DEF Holding, HolderOf


\* Claims and parts when a holder leaves, when one joins, and when all keep
\* what they have.
SamePages(st, pl, st2, pl2, holders) ==
    \A j \in holders :
        /\ HolderOf(st2, pl2, j).pages = HolderOf(st, pl, j).pages
        /\ HolderOf(st2, pl2, j).own = HolderOf(st, pl, j).own

\* When one snapshot or plan leaves, its claims and its own slabs are what leaves.
LEMMA HolderLeaves ==
    ASSUME NEW st, NEW pl, NEW st2, NEW pl2, NEW k \in Holding(st, pl),
           Holding(st2, pl2) = Holding(st, pl) \ {k},
           SamePages(st, pl, st2, pl2, Holding(st2, pl2))
    PROVE  /\ ClaimsOf(k, HolderOf(st, pl, k).pages) \subseteq ClaimsIn(st, pl)
           /\ {k} \X HolderOf(st, pl, k).own \subseteq PartsIn(st, pl)
           /\ ClaimsIn(st2, pl2) = ClaimsIn(st, pl) \ ClaimsOf(k, HolderOf(st, pl, k).pages)
           /\ PartsIn(st2, pl2) = PartsIn(st, pl) \ ({k} \X HolderOf(st, pl, k).own)
<1>1. \A j \in Holding(st2, pl2) :
        /\ j \in Holding(st, pl) /\ j # k
        /\ ClaimsOf(j, HolderOf(st2, pl2, j).pages) = ClaimsOf(j, HolderOf(st, pl, j).pages)
        /\ {j} \X HolderOf(st2, pl2, j).own = {j} \X HolderOf(st, pl, j).own
  BY DEF SamePages
<1>2. \A j, list : \A x \in ClaimsOf(j, list) : x[1] = j
  BY DEF ClaimsOf
<1>3. \A j, own : \A x \in {j} \X own : x[1] = j
  OBVIOUS
<1> QED BY <1>1, <1>2, <1>3 DEF ClaimsIn, PartsIn

Joins(st, pl, st2, pl2, k) ==
    /\ Holding(st2, pl2) = Holding(st, pl) \cup {k}
    /\ k \notin Holding(st, pl)
    /\ SamePages(st, pl, st2, pl2, Holding(st, pl))

\* When a plan joins, its claims and its own slabs are what joins, and none of them was there.
LEMMA HolderJoins ==
    ASSUME NEW st, NEW pl, NEW st2, NEW pl2, NEW k, Joins(st, pl, st2, pl2, k)
    PROVE  /\ ClaimsIn(st2, pl2) = ClaimsIn(st, pl) \cup ClaimsOf(k, HolderOf(st2, pl2, k).pages)
           /\ PartsIn(st2, pl2) = PartsIn(st, pl) \cup ({k} \X HolderOf(st2, pl2, k).own)
           /\ ClaimsIn(st, pl) \intersect ClaimsOf(k, HolderOf(st2, pl2, k).pages) = {}
<1> USE DEF Joins
<1>1. \A j \in Holding(st, pl) :
        /\ j # k
        /\ ClaimsOf(j, HolderOf(st2, pl2, j).pages) = ClaimsOf(j, HolderOf(st, pl, j).pages)
        /\ {j} \X HolderOf(st2, pl2, j).own = {j} \X HolderOf(st, pl, j).own
  BY DEF SamePages
<1>2. \A j, list : \A x \in ClaimsOf(j, list) : x[1] = j
  BY DEF ClaimsOf
<1> QED BY <1>1, <1>2 DEF ClaimsIn, PartsIn

\* When nobody leaves, joins or changes pages, the claims and own slabs stay what they were.
LEMMA SameHolders ==
    ASSUME NEW st, NEW pl, NEW st2, NEW pl2, Holding(st2, pl2) = Holding(st, pl),
           SamePages(st, pl, st2, pl2, Holding(st, pl))
    PROVE  ClaimsIn(st2, pl2) = ClaimsIn(st, pl) /\ PartsIn(st2, pl2) = PartsIn(st, pl)
<1>1. \A j \in Holding(st, pl) :
        /\ ClaimsOf(j, HolderOf(st2, pl2, j).pages) = ClaimsOf(j, HolderOf(st, pl, j).pages)
        /\ {j} \X HolderOf(st2, pl2, j).own = {j} \X HolderOf(st, pl, j).own
  BY DEF SamePages
<1> QED BY <1>1 DEF ClaimsIn, PartsIn

\* Fewer claims and fewer device identities leave a plan's copies private.
LEMMA StillPrivate ==
    ASSUME NEW st, NEW pl, CopiesPrivate(st, pl), PlansExact(st, pl),
           NEW st2, NEW pl2, \A k \in HasPlan(pl2) : k \in HasPlan(pl) /\ pl2[k] = pl[k],
           ClaimsIn(st2, pl2) \subseteq ClaimsIn(st, pl),
           \A b \in Slab : st2.device[b] \in {st.device[b], NoId}
    PROVE  CopiesPrivate(st2, pl2)
<1> SUFFICES ASSUME NEW k \in HasPlan(pl2), NEW i \in pl2[k].copies
             PROVE  /\ st2.device[pl2[k].pages[i]] = NoId
                    /\ \A x \in On(ClaimsIn(st2, pl2), pl2[k].pages[i]) :
                          x = <<k, i, pl2[k].pages[i]>>
  BY DEF CopiesPrivate
<1>1. k \in HasPlan(pl) /\ pl2[k] = pl[k]
  OBVIOUS
<1>2. pl[k] \in PlanRecords /\ pl[k].pages \in Seq(Slab) /\ i \in DOMAIN pl[k].pages
  BY <1>1 DEF PlansExact, HasPlan, PlanRecords
<1>3. pl[k].pages[i] \in Slab
  BY <1>2
<1>4. /\ st.device[pl[k].pages[i]] = NoId
      /\ \A x \in On(ClaimsIn(st, pl), pl[k].pages[i]) : x = <<k, i, pl[k].pages[i]>>
  BY <1>1 DEF CopiesPrivate
<1>5. On(ClaimsIn(st2, pl2), pl[k].pages[i]) \subseteq On(ClaimsIn(st, pl), pl[k].pages[i])
  BY DEF On
<1> QED BY <1>1, <1>3, <1>4, <1>5

-----------------------------------------------------------------------------
(* Each operation of the store keeps its invariant. *)

\* remove and the evictions: the snapshot leaves its bank and gives up its slabs
\* and page references.
LEMMA RemovedKeeps ==
    ASSUME NEW st, NEW pl, StoreInv(st, pl), NEW k \in Resident(st)
    PROVE  /\ StoreInv(Removed(st, k), pl)
           /\ Resident(Removed(st, k)) = Resident(st) \ {k}
           /\ \A j \in Resident(st) \ {k} : Removed(st, k).snapshots[j] = st.snapshots[j]
           /\ Removed(st, k).next_key = st.next_key
           /\ \A n \in Kind : Removed(st, k).bank[n] = RemoveFirst(st.bank[n], k)
<1> DEFINE h == st.snapshots[k]
           banks == [n \in Kind |-> RemoveFirst(st.bank[n], k)]
           s1 == [st EXCEPT !.snapshots[k] = Absent, !.bank = banks]
           t == Removed(st, k)
<1> USE DEF StoreInv
<1>1. t = Release(s1, h)
  BY DEF Removed, StoreRecords
<1>2. /\ k \in Key /\ k \in Holding(st, pl) /\ k \notin HasPlan(pl)
      /\ h \in SnapshotRecords /\ h.pages \in Seq(Slab) /\ h.own \in SUBSET Slab
      /\ HolderOf(st, pl, k) = h
  BY Shapes DEF HolderOf, Resident, Holding, SnapshotRecords
<1>3. \A n \in Kind : /\ Injective(st.bank[n]) /\ st.bank[n] \in Seq(Key)
                      /\ banks[n] \in Seq(Key) /\ Injective(banks[n])
                      /\ ToSet(banks[n]) = ToSet(st.bank[n]) \ {k}
  <2> SUFFICES ASSUME NEW n \in Kind
               PROVE  /\ Injective(st.bank[n]) /\ st.bank[n] \in Seq(Key)
                      /\ banks[n] \in Seq(Key) /\ Injective(banks[n])
                      /\ ToSet(banks[n]) = ToSet(st.bank[n]) \ {k}
    OBVIOUS
  <2>1. Injective(st.bank[n]) /\ st.bank[n] \in Seq(Key)
    BY DEF BanksExact, Lists
  <2>2. banks[n] = RemoveFirst(st.bank[n], k)
    OBVIOUS
  <2> QED BY <2>1, <2>2, RemoveFirstFacts
<1>4. /\ s1.free = st.free /\ s1.refs = st.refs /\ s1.map = st.map /\ s1.device = st.device
      /\ s1.next_key = st.next_key /\ s1.bank = banks
      /\ s1.snapshots = [st.snapshots EXCEPT ![k] = Absent]
  BY DEF StoreRecords
<1>5. s1 \in StoreRecords
  <2>1. banks \in [Kind -> Seq(Key)]
    BY <1>3
  <2> HIDE DEF banks
  <2> QED BY <1>2, <2>1 DEF StoreRecords
<1>6. MapExact(s1) /\ Balanced(s1.refs, s1.free, ClaimsIn(st, pl), PartsIn(st, pl))
  BY <1>4 DEF MapExact
<1> HIDE DEF s1, t, h, banks
<1>7. /\ Resident(s1) = Resident(st) \ {k}
      /\ \A j \in Resident(st) \ {k} : s1.snapshots[j] = st.snapshots[j]
  <2>1. /\ s1.snapshots[k] = Absent
        /\ \A j \in Key \ {k} : s1.snapshots[j] = st.snapshots[j]
    BY <1>2, <1>4 DEF StoreRecords
  <2>2. ~Absent.resident
    BY DEF Absent
  <2> QED BY <2>1, <2>2 DEF Resident
<1> DEFINE gone == ClaimsOf(k, h.pages)
           dropped == {k} \X h.own
<1>8. /\ gone \subseteq ClaimsIn(st, pl) /\ dropped \subseteq PartsIn(st, pl)
      /\ \A u : Resident(u) = Resident(s1) /\ u.snapshots = s1.snapshots =>
            /\ ClaimsIn(u, pl) = ClaimsIn(st, pl) \ gone
            /\ PartsIn(u, pl) = PartsIn(st, pl) \ dropped
  <2> SUFFICES ASSUME NEW u, Resident(u) = Resident(s1), u.snapshots = s1.snapshots
               PROVE /\ gone \subseteq ClaimsIn(st, pl) /\ dropped \subseteq PartsIn(st, pl)
                     /\ ClaimsIn(u, pl) = ClaimsIn(st, pl) \ gone
                     /\ PartsIn(u, pl) = PartsIn(st, pl) \ dropped
    OBVIOUS
  <2>1. Holding(u, pl) = Holding(st, pl) \ {k}
    BY <1>2, <1>7 DEF Holding
  <2>2. SamePages(st, pl, u, pl, Holding(u, pl))
    BY <1>7, <2>1 DEF SamePages, HolderOf, Holding
  <2>3. /\ ClaimsOf(k, HolderOf(st, pl, k).pages) \subseteq ClaimsIn(st, pl)
        /\ {k} \X HolderOf(st, pl, k).own \subseteq PartsIn(st, pl)
        /\ ClaimsIn(u, pl) = ClaimsIn(st, pl) \ ClaimsOf(k, HolderOf(st, pl, k).pages)
        /\ PartsIn(u, pl) = PartsIn(st, pl) \ ({k} \X HolderOf(st, pl, k).own)
    <3>1. k \in Holding(st, pl)
      BY <1>2
    <3> HIDE DEF StoreInv, gone, dropped
    <3> QED BY ONLY <3>1, <2>1, <2>2, HolderLeaves
  <2> QED BY <1>2, <2>3
<1>9. LetGo(s1, t, ClaimsIn(st, pl) \ gone, PartsIn(st, pl) \ dropped)
  BY <1>1, <1>2, <1>5, <1>6, <1>8, ReleaseBalance
<1>10. /\ t.snapshots = s1.snapshots /\ t.bank = banks /\ t.next_key = st.next_key
       /\ t \in StoreRecords
  BY <1>4, <1>9 DEF LetGo
<1>11. Resident(t) = Resident(st) \ {k}
  BY <1>7, <1>10 DEF Resident
<1>12. ClaimsIn(t, pl) = ClaimsIn(st, pl) \ gone /\ PartsIn(t, pl) = PartsIn(st, pl) \ dropped
  BY <1>7, <1>8, <1>10, <1>11
<1>13. PlansExact(t, pl)
  BY <1>7, <1>10, <1>11 DEF PlansExact
<1>14. CopiesPrivate(t, pl)
  <2>1. \A b \in Slab : t.device[b] \in {st.device[b], NoId}
    BY <1>4, <1>9 DEF LetGo
  <2> QED BY <1>12, <2>1, StillPrivate
<1>15. BanksExact(t)
  <2> SUFFICES ASSUME NEW n \in Kind PROVE Lists(t, n, banks[n])
    BY <1>10 DEF BanksExact
  <2>1. Lists(st, n, st.bank[n])
    BY DEF BanksExact
  <2>2. \A j \in Resident(st) \ {k} :
            t.snapshots[j] = st.snapshots[j] /\ Tokens(t, j) = Tokens(st, j)
    BY <1>7, <1>10 DEF Tokens
  <2>3. ToSet(banks[n]) = {j \in Resident(t) : t.snapshots[j].meta.kind = n}
    <3>1. ToSet(st.bank[n]) = {j \in Resident(st) : st.snapshots[j].meta.kind = n}
      BY <2>1 DEF Lists
    <3>2. ToSet(banks[n]) = {j \in Resident(st) \ {k} : st.snapshots[j].meta.kind = n}
      BY <1>3, <3>1
    <3>3. \A j \in Resident(st) \ {k} : t.snapshots[j].meta.kind = st.snapshots[j].meta.kind
      BY <2>2
    <3> QED BY <1>11, <3>2, <3>3
  <2>4. \A j, i \in ToSet(banks[n]) : Tokens(t, j) = Tokens(t, i) => j = i
    <3>1. \A j \in ToSet(banks[n]) : j \in ToSet(st.bank[n]) /\ Tokens(t, j) = Tokens(st, j)
      BY <1>3, <2>1, <2>2 DEF Lists
    <3> QED BY <2>1, <3>1 DEF Lists
  <2> QED BY <1>3, <2>3, <2>4 DEF Lists
<1>16. StoreInv(t, pl)
  BY <1>9, <1>10, <1>12, <1>13, <1>14, <1>15 DEF LetGo
<1> QED BY <1>7, <1>10, <1>11, <1>16 DEF t, banks

\* Nothing but the order of a bank and the pins of a snapshot differs.
SameBooks(st, t) ==
    /\ t \in StoreRecords
    /\ t.free = st.free /\ t.refs = st.refs /\ t.map = st.map /\ t.device = st.device
    /\ t.next_key = st.next_key
    /\ Resident(t) = Resident(st)
    /\ \A j \in Resident(st) :
          /\ t.snapshots[j].pages = st.snapshots[j].pages
          /\ t.snapshots[j].own = st.snapshots[j].own
          /\ t.snapshots[j].meta = st.snapshots[j].meta
    /\ \A n \in Kind : Injective(t.bank[n]) /\ ToSet(t.bank[n]) = ToSet(st.bank[n])

\* A change of ages and device identities alone keeps the store's invariant.
LEMMA SameBooksKeeps ==
    ASSUME NEW st, NEW pl, StoreInv(st, pl), NEW t, SameBooks(st, t)
    PROVE  StoreInv(t, pl)
<1> USE DEF StoreInv, SameBooks
<1>1. Holding(t, pl) = Holding(st, pl) /\ SamePages(st, pl, t, pl, Holding(st, pl))
  <2>1. Holding(t, pl) = Holding(st, pl)
    BY DEF Holding
  <2>2. \A j \in Holding(st, pl) : j \in HasPlan(pl) \/ j \in Resident(st)
    BY DEF Holding
  <2> QED BY <2>1, <2>2 DEF SamePages, HolderOf
<1>2. ClaimsIn(t, pl) = ClaimsIn(st, pl) /\ PartsIn(t, pl) = PartsIn(st, pl)
  BY ONLY <1>1, SameHolders
<1>3. PlansExact(t, pl)
  BY DEF PlansExact
<1>4. CopiesPrivate(t, pl)
  BY <1>2 DEF CopiesPrivate
<1>5. BanksExact(t)
  <2> SUFFICES ASSUME NEW n \in Kind PROVE Lists(t, n, t.bank[n])
    BY DEF BanksExact
  <2>1. Lists(st, n, st.bank[n])
    BY DEF BanksExact
  <2>2. \A j \in Resident(st) :
            t.snapshots[j].meta = st.snapshots[j].meta /\ Tokens(t, j) = Tokens(st, j)
    BY DEF Tokens
  <2>3. t.bank[n] \in Seq(Key) /\ ToSet(t.bank[n]) = ToSet(st.bank[n])
    BY DEF StoreRecords
  <2>4. \A j \in ToSet(st.bank[n]) : j \in Resident(st)
    BY <2>1 DEF Lists
  <2>5. ToSet(t.bank[n]) = {j \in Resident(t) : t.snapshots[j].meta.kind = n}
    BY <2>1, <2>2, <2>3 DEF Lists
  <2>6. \A j, i \in ToSet(t.bank[n]) : Tokens(t, j) = Tokens(t, i) => j = i
    BY <2>1, <2>2, <2>3, <2>4 DEF Lists
  <2> QED BY <2>3, <2>5, <2>6 DEF Lists
<1>6. MapExact(t) /\ Balanced(t.refs, t.free, ClaimsIn(t, pl), PartsIn(t, pl))
  BY <1>2 DEF MapExact
<1> QED BY <1>3, <1>4, <1>5, <1>6

\* A hit moves its snapshot to the young end of its bank.
LEMMA AccessedKeeps ==
    ASSUME NEW st, NEW pl, StoreInv(st, pl), NEW n \in Kind, NEW k \in ToSet(st.bank[n])
    PROVE  LET t == [st EXCEPT !.bank[n] = Accessed(@, k)] IN
           SameBooks(st, t) /\ StoreInv(t, pl)
<1> DEFINE order == Accessed(st.bank[n], k)
           t == [st EXCEPT !.bank[n] = Accessed(@, k)]
<1>1. Lists(st, n, st.bank[n]) /\ st \in StoreRecords
  BY DEF StoreInv, BanksExact
<1>2. k \in Key /\ k \in ToSet(st.bank[n])
  BY <1>1 DEF Lists, Resident
<1>3. /\ RemoveFirst(st.bank[n], k) \in Seq(Key)
      /\ Injective(RemoveFirst(st.bank[n], k))
      /\ ToSet(RemoveFirst(st.bank[n], k)) = ToSet(st.bank[n]) \ {k}
  BY <1>1, RemoveFirstFacts DEF Lists
<1>4. order \in Seq(Key) /\ Injective(order) /\ ToSet(order) = ToSet(st.bank[n])
  <2> DEFINE rest == RemoveFirst(st.bank[n], k)
  <2>1. order = Append(rest, k)
    BY DEF Accessed
  <2> HIDE DEF rest, order
  <2>2. /\ Append(rest, k) \in Seq(Key)
        /\ ToSet(Append(rest, k)) = ToSet(rest) \cup {k}
        /\ Injective(Append(rest, k))
    <3>1. rest \in Seq(Key) /\ Injective(rest) /\ k \notin ToSet(rest)
      BY <1>3 DEF rest
    <3> QED BY <1>2, <3>1, AppendFacts
  <2>3. ToSet(rest) = ToSet(st.bank[n]) \ {k}
    BY <1>3 DEF rest
  <2> QED BY <1>2, <2>1, <2>2, <2>3
<1>5. \A j \in Kind : Injective(st.bank[j])
  BY DEF StoreInv, BanksExact, Lists
<1>6. /\ t.free = st.free /\ t.refs = st.refs /\ t.map = st.map /\ t.device = st.device
      /\ t.next_key = st.next_key /\ t.snapshots = st.snapshots
      /\ t.bank = [st.bank EXCEPT ![n] = order]
  BY <1>1 DEF StoreRecords
<1> HIDE DEF order
<1>7. t \in StoreRecords
  <2>1. t = [st EXCEPT !.bank = [st.bank EXCEPT ![n] = order]]
    BY DEF order
  <2>2. [st.bank EXCEPT ![n] = order] \in [Kind -> Seq(Key)]
    BY <1>1, <1>4 DEF StoreRecords
  <2> HIDE DEF t
  <2> QED BY <1>1, <2>1, <2>2 DEF StoreRecords
<1> HIDE DEF t
<1>8. \A j \in Kind : Injective(t.bank[j]) /\ ToSet(t.bank[j]) = ToSet(st.bank[j])
  BY <1>1, <1>4, <1>5, <1>6 DEF StoreRecords
<1>9. SameBooks(st, t)
  BY <1>6, <1>7, <1>8 DEF SameBooks, Resident
<1>10. StoreInv(t, pl)
  BY ONLY <1>9, SameBooksKeeps, StoreInv(st, pl)
<1> QED BY <1>9, <1>10 DEF t

\* pin and unpin.
LEMMA WithPinsKeeps ==
    ASSUME NEW st, NEW pl, StoreInv(st, pl), NEW k \in Resident(st),
           NEW n \in Int, st.snapshots[k].pins + n \in Nat
    PROVE  SameBooks(st, WithPins(st, k, n)) /\ StoreInv(WithPins(st, k, n), pl)
<1> DEFINE snapshot == [st.snapshots[k] EXCEPT !.pins = @ + n]
           t == WithPins(st, k, n)
<1>1. st \in StoreRecords /\ st.snapshots[k] \in SnapshotRecords /\ k \in Key
  BY Shapes DEF StoreInv, Resident
<1>2. /\ snapshot \in SnapshotRecords
      /\ snapshot.resident = st.snapshots[k].resident
      /\ snapshot.pages = st.snapshots[k].pages /\ snapshot.own = st.snapshots[k].own
      /\ snapshot.meta = st.snapshots[k].meta
  BY <1>1 DEF SnapshotRecords
<1>3. t = [st EXCEPT !.snapshots = [st.snapshots EXCEPT ![k] = snapshot]]
  BY <1>1 DEF WithPins, StoreRecords
<1> HIDE DEF snapshot, t
<1>4. [st.snapshots EXCEPT ![k] = snapshot] \in [Key -> SnapshotRecords \cup {Absent}]
  BY <1>1, <1>2 DEF StoreRecords
<1>5. /\ t \in StoreRecords
      /\ t.free = st.free /\ t.refs = st.refs /\ t.map = st.map /\ t.device = st.device
      /\ t.next_key = st.next_key /\ t.bank = st.bank
      /\ t.snapshots = [st.snapshots EXCEPT ![k] = snapshot]
  BY <1>1, <1>3, <1>4 DEF StoreRecords
<1>6. \A j \in Key :
        /\ t.snapshots[j].resident = st.snapshots[j].resident
        /\ j \in Resident(st) =>
             /\ t.snapshots[j].pages = st.snapshots[j].pages
             /\ t.snapshots[j].own = st.snapshots[j].own
             /\ t.snapshots[j].meta = st.snapshots[j].meta
  BY <1>1, <1>2, <1>5 DEF StoreRecords
<1>7. Resident(t) = Resident(st)
  BY <1>6 DEF Resident
<1>8. \A j \in Kind : Injective(st.bank[j])
  BY DEF StoreInv, BanksExact, Lists
<1>9. SameBooks(st, t)
  BY <1>5, <1>6, <1>7, <1>8 DEF SameBooks, Resident
<1>10. StoreInv(t, pl)
  BY ONLY <1>9, SameBooksKeeps, StoreInv(st, pl)
<1> QED BY <1>9, <1>10 DEF t

\* abort_store, and the plan a cache gives up.
LEMMA AbortedKeeps ==
    ASSUME NEW st, NEW pl, StoreInv(st, pl), NEW k \in HasPlan(pl)
    PROVE  /\ StoreInv(Aborted(st, pl[k]), [pl EXCEPT ![k] = Absent])
           /\ Aborted(st, pl[k]).snapshots = st.snapshots
           /\ Aborted(st, pl[k]).next_key = st.next_key
           /\ Aborted(st, pl[k]).bank = st.bank
<1> DEFINE pl2 == [pl EXCEPT ![k] = Absent]
           t == Aborted(st, pl[k])
           gone == ClaimsOf(k, pl[k].pages)
           dropped == {k} \X pl[k].own
<1> USE DEF StoreInv
<1>1. /\ k \in Key /\ k \in Holding(st, pl)
      /\ pl[k].pages \in Seq(Slab) /\ pl[k].own \in SUBSET Slab
      /\ HolderOf(st, pl, k) = pl[k]
      /\ pl \in [Key -> PlanRecords \cup {Absent}]
      /\ k \notin Resident(st)
  BY Shapes DEF HolderOf, Holding, PlanRecords, HasPlan, PlansExact
<1>2. /\ HasPlan(pl2) = HasPlan(pl) \ {k}
      /\ \A j \in HasPlan(pl2) : j \in HasPlan(pl) /\ pl2[j] = pl[j]
      /\ pl2 \in [Key -> PlanRecords \cup {Absent}]
  BY <1>1 DEF HasPlan
<1>3. t = Release(st, pl[k])
  BY DEF Aborted
<1> HIDE DEF t, pl2
<1>4. /\ gone \subseteq ClaimsIn(st, pl) /\ dropped \subseteq PartsIn(st, pl)
      /\ \A u : u.snapshots = st.snapshots =>
            /\ ClaimsIn(u, pl2) = ClaimsIn(st, pl) \ gone
            /\ PartsIn(u, pl2) = PartsIn(st, pl) \ dropped
  <2> SUFFICES ASSUME NEW u, u.snapshots = st.snapshots
               PROVE /\ gone \subseteq ClaimsIn(st, pl) /\ dropped \subseteq PartsIn(st, pl)
                     /\ ClaimsIn(u, pl2) = ClaimsIn(st, pl) \ gone
                     /\ PartsIn(u, pl2) = PartsIn(st, pl) \ dropped
    OBVIOUS
  <2>1. Holding(u, pl2) = Holding(st, pl) \ {k}
    BY <1>1, <1>2 DEF Holding, Resident
  <2>2. SamePages(st, pl, u, pl2, Holding(u, pl2))
    BY <1>2, <2>1 DEF SamePages, HolderOf, Holding, Resident
  <2>3. /\ ClaimsOf(k, HolderOf(st, pl, k).pages) \subseteq ClaimsIn(st, pl)
        /\ {k} \X HolderOf(st, pl, k).own \subseteq PartsIn(st, pl)
        /\ ClaimsIn(u, pl2) = ClaimsIn(st, pl) \ ClaimsOf(k, HolderOf(st, pl, k).pages)
        /\ PartsIn(u, pl2) = PartsIn(st, pl) \ ({k} \X HolderOf(st, pl, k).own)
    <3>1. k \in Holding(st, pl)
      BY <1>1
    <3> HIDE DEF StoreInv, gone, dropped
    <3> QED BY ONLY <3>1, <2>1, <2>2, HolderLeaves
  <2> QED BY <1>1, <2>3
<1>5. LetGo(st, t, ClaimsIn(st, pl) \ gone, PartsIn(st, pl) \ dropped)
  <2> DEFINE h == pl[k]
  <2>1. /\ h.pages \in Seq(Slab) /\ h.own \in SUBSET Slab
        /\ ClaimsOf(k, h.pages) \subseteq ClaimsIn(st, pl)
        /\ {k} \X h.own \subseteq PartsIn(st, pl)
    BY <1>1, <1>4
  <2>2. gone = ClaimsOf(k, h.pages) /\ dropped = {k} \X h.own /\ t = Release(st, h)
    BY <1>3
  <2> HIDE DEF h, gone, dropped
  <2> QED BY <1>1, <2>1, <2>2, ReleaseBalance
<1> HIDE DEF gone, dropped
<1>6. /\ t.snapshots = st.snapshots /\ t.bank = st.bank /\ t.next_key = st.next_key
      /\ t \in StoreRecords /\ Resident(t) = Resident(st)
  BY <1>5 DEF LetGo, Resident
<1>7. ClaimsIn(t, pl2) = ClaimsIn(st, pl) \ gone /\ PartsIn(t, pl2) = PartsIn(st, pl) \ dropped
  BY <1>4, <1>6
<1>8. PlansExact(t, pl2)
  BY <1>2, <1>6 DEF PlansExact
<1>9. CopiesPrivate(t, pl2)
  <2>1. \A b \in Slab : t.device[b] \in {st.device[b], NoId}
    BY <1>5 DEF LetGo
  <2>2. ClaimsIn(t, pl2) \subseteq ClaimsIn(st, pl)
    BY <1>7
  <2>3. CopiesPrivate(st, pl) /\ PlansExact(st, pl)
    OBVIOUS
  <2> QED BY ONLY <1>2, <2>1, <2>2, <2>3, StillPrivate
<1>10. BanksExact(t)
  BY <1>6 DEF BanksExact, Lists, Tokens
<1>11. StoreInv(t, pl2)
  BY <1>5, <1>6, <1>7, <1>8, <1>9, <1>10 DEF LetGo
<1> QED BY <1>6, <1>11 DEF t, pl2

\* device_page_freed.
LEMMA FreedKeeps ==
    ASSUME NEW st, NEW pl, StoreInv(st, pl), NEW id \in PageId
    PROVE  /\ StoreInv(Freed(st, id), pl)
           /\ Freed(st, id).snapshots = st.snapshots
           /\ Freed(st, id).next_key = st.next_key
           /\ Freed(st, id).bank = st.bank
<1> DEFINE b == st.map[id]
           t == Freed(st, id)
<1> USE DEF StoreInv
<1>1. CASE b = NoSlab
  BY <1>1 DEF Freed
<1>2. CASE b # NoSlab
  <2>1. b \in Slab /\ st.device[b] = id
    BY <1>2 DEF StoreRecords, MapExact
  <2>2. t = [st EXCEPT !.map = [st.map EXCEPT ![id] = NoSlab],
                       !.device = [st.device EXCEPT ![b] = NoId]]
    BY <1>2 DEF Freed, StoreRecords
  <2> HIDE DEF t
  <2>3. /\ t.map = [st.map EXCEPT ![id] = NoSlab]
        /\ t.device = [st.device EXCEPT ![b] = NoId]
        /\ t.free = st.free /\ t.refs = st.refs /\ t.bank = st.bank
        /\ t.snapshots = st.snapshots /\ t.next_key = st.next_key
        /\ t \in StoreRecords
    BY <2>1, <2>2 DEF StoreRecords
  <2>4. MapExact(t)
    <3>1. ASSUME NEW i \in PageId, t.map[i] # NoSlab
          PROVE  t.refs[t.map[i]] > 0 /\ t.device[t.map[i]] = i
      <4>1. i # id /\ t.map[i] = st.map[i]
        BY <2>3, <3>1 DEF StoreRecords
      <4>2. st.map[i] \in Slab /\ st.device[st.map[i]] = i /\ st.refs[st.map[i]] > 0
        BY <3>1, <4>1 DEF StoreRecords, MapExact
      <4> QED BY <2>1, <2>3, <4>1, <4>2 DEF StoreRecords
    <3>2. ASSUME NEW c \in Slab, t.device[c] # NoId PROVE t.map[t.device[c]] = c
      <4>1. c # b /\ t.device[c] = st.device[c] /\ st.device[c] \in PageId
        BY <2>3, <3>2 DEF StoreRecords
      <4>2. st.map[st.device[c]] = c
        BY <3>2, <4>1 DEF MapExact
      <4> QED BY <2>1, <2>3, <4>1, <4>2 DEF StoreRecords
    <3> QED BY <3>1, <3>2 DEF MapExact
  <2>5. Holding(t, pl) = Holding(st, pl) /\ SamePages(st, pl, t, pl, Holding(st, pl))
    BY <2>3 DEF Holding, Resident, SamePages, HolderOf
  <2>6. ClaimsIn(t, pl) = ClaimsIn(st, pl) /\ PartsIn(t, pl) = PartsIn(st, pl)
    BY ONLY <2>5, SameHolders
  <2>7. PlansExact(t, pl)
    BY <2>3 DEF PlansExact, Resident
  <2>8. CopiesPrivate(t, pl)
    <3>1. \A c \in Slab : t.device[c] \in {st.device[c], NoId}
      BY <2>3 DEF StoreRecords
    <3>2. ClaimsIn(t, pl) \subseteq ClaimsIn(st, pl)
      BY <2>6
    <3> QED BY <3>1, <3>2, StillPrivate
  <2>9. BanksExact(t)
    BY <2>3 DEF BanksExact, Lists, Tokens, Resident
  <2> QED BY <2>3, <2>4, <2>6, <2>7, <2>8, <2>9 DEF t
<1> QED BY <1>1, <1>2

\* register_device_page, of page i of a resident snapshot.
LEMMA RegisteredKeeps ==
    ASSUME NEW st, NEW pl, StoreInv(st, pl), NEW k \in Resident(st),
           NEW i \in DOMAIN st.snapshots[k].pages, NEW id \in PageId
    PROVE  LET t == Registered(st, id, st.snapshots[k].pages[i]) IN
           /\ StoreInv(t, pl)
           /\ t.snapshots = st.snapshots /\ t.bank = st.bank
           /\ t.next_key = st.next_key
<1> DEFINE b == st.snapshots[k].pages[i]
           t == Registered(st, id, b)
           map == [x \in PageId |->
                     IF x = id THEN b
                     ELSE IF x = st.device[b] /\ st.map[x] = b THEN NoSlab ELSE st.map[x]]
           device == [c \in Slab |->
                        IF c = b THEN id ELSE IF c = st.map[id] THEN NoId ELSE st.device[c]]
<1> USE DEF StoreInv
<1>1. /\ k \in Key /\ k \in Holding(st, pl) /\ k \notin HasPlan(pl)
      /\ st.snapshots[k].pages \in Seq(Slab)
      /\ HolderOf(st, pl, k) = st.snapshots[k]
  BY Shapes DEF HolderOf, Resident, Holding, SnapshotRecords
<1>2. b \in Slab
  BY <1>1
<1>3. <<k, i, b>> \in On(ClaimsIn(st, pl), b)
  <2>1. <<k, i, b>> \in ClaimsOf(k, HolderOf(st, pl, k).pages)
    BY <1>1 DEF ClaimsOf
  <2> QED BY <1>1, <2>1 DEF ClaimsIn, On
<1>4. st.refs[b] > 0
  <2>1. st.refs[b] = Cardinality(On(ClaimsIn(st, pl), b)) /\ st.refs[b] \in Nat
    BY <1>2 DEF Balanced, StoreRecords
  <2>2. IsFiniteSet(ClaimsIn(st, pl))
    BY DEF Balanced
  <2>3. Cardinality(On(ClaimsIn(st, pl), b)) # 0
    BY <1>3, <2>2, OnIsCounted
  <2> HIDE DEF b
  <2> QED BY <2>1, <2>3
<1>5. t = [st EXCEPT !.map = map, !.device = device]
  BY DEF Registered, StoreRecords
<1> HIDE DEF t, b
<1>6. /\ map \in [PageId -> Slab \cup {NoSlab}]
      /\ device \in [Slab -> PageId \cup {NoId}]
  BY <1>2 DEF StoreRecords
<1>7. /\ t \in StoreRecords
      /\ t.map = map /\ t.device = device
      /\ t.free = st.free /\ t.refs = st.refs /\ t.bank = st.bank
      /\ t.snapshots = st.snapshots /\ t.next_key = st.next_key
  <2> HIDE DEF map, device
  <2> QED BY <1>5, <1>6 DEF StoreRecords
<1>8. MapExact(t)
  <2>1. ASSUME NEW x \in PageId, map[x] # NoSlab
        PROVE  st.refs[map[x]] > 0 /\ device[map[x]] = x
    <3>1. CASE x = id
      BY <1>2, <1>4, <3>1
    <3>2. CASE x # id
      <4>1. map[x] = st.map[x] /\ st.map[x] \in Slab
        BY <2>1, <3>2 DEF StoreRecords
      <4>2. st.device[st.map[x]] = x /\ st.refs[st.map[x]] > 0
        BY <2>1, <4>1 DEF MapExact
      <4>3. st.map[x] # b
        BY <2>1, <3>2, <4>1, <4>2
      <4>4. st.map[x] # st.map[id]
        BY <3>2, <4>1, <4>2, StoreShape DEF MapExact
      <4> QED BY <4>1, <4>2, <4>3, <4>4
    <3> QED BY <3>1, <3>2
  <2>2. ASSUME NEW c \in Slab, device[c] # NoId PROVE map[device[c]] = c
    <3>1. CASE c = b
      BY <3>1
    <3>2. CASE c # b
      <4>1. c # st.map[id] /\ device[c] = st.device[c] /\ st.device[c] \in PageId
        BY <2>2, <3>2 DEF StoreRecords
      <4>2. st.map[st.device[c]] = c
        BY <2>2, <4>1 DEF MapExact
      <4> QED BY <3>2, <4>1, <4>2
    <3> QED BY <3>1, <3>2
  <2> HIDE DEF map, device
  <2> QED BY <1>7, <2>1, <2>2 DEF MapExact
<1>9. Holding(t, pl) = Holding(st, pl) /\ SamePages(st, pl, t, pl, Holding(st, pl))
  BY <1>7 DEF Holding, Resident, SamePages, HolderOf
<1>10. ClaimsIn(t, pl) = ClaimsIn(st, pl) /\ PartsIn(t, pl) = PartsIn(st, pl)
  BY ONLY <1>9, SameHolders
<1>11. PlansExact(t, pl)
  BY <1>7 DEF PlansExact, Resident
<1>12. CopiesPrivate(t, pl)
  <2> SUFFICES ASSUME NEW j \in HasPlan(pl), NEW n \in pl[j].copies
               PROVE  device[pl[j].pages[n]] = NoId
    BY <1>7, <1>10 DEF CopiesPrivate
  <2>1. /\ st.device[pl[j].pages[n]] = NoId
        /\ \A x \in On(ClaimsIn(st, pl), pl[j].pages[n]) : x = <<j, n, pl[j].pages[n]>>
    BY DEF CopiesPrivate
  <2>2. pl[j].pages[n] \in Slab
    <3>1. pl[j].pages \in Seq(Slab) /\ n \in DOMAIN pl[j].pages
      BY DEF PlansExact, HasPlan, PlanRecords
    <3> QED BY <3>1
  <2>3. pl[j].pages[n] # b
    BY <1>1, <1>3, <2>1
  <2> QED BY <2>1, <2>2, <2>3
<1>13. BanksExact(t)
  BY <1>7 DEF BanksExact, Lists, Tokens, Resident
<1>14. StoreInv(t, pl)
  BY <1>7, <1>8, <1>10, <1>11, <1>12, <1>13
<1> QED BY <1>7, <1>14 DEF t, b

\* What a plan from plan_store is: its parts and copies take free slabs, each
\* one, and its other pages are those the identity map has.
PlanFrom(st, meta, plan) ==
    /\ plan \in PlanRecords
    /\ plan.key = st.next_key /\ plan.meta = meta
    /\ DOMAIN plan.pages = DOMAIN meta.pages
    /\ plan.copies = Unmapped(st, meta)
    /\ plan.own \in SUBSET st.free /\ Cardinality(plan.own) = meta.parts
    /\ \A i \in DOMAIN plan.pages :
          plan.pages[i] \in IF i \in plan.copies THEN st.free \ plan.own
                            ELSE {st.map[meta.pages[i]]}
    /\ \A i, j \in plan.copies : plan.pages[i] = plan.pages[j] => i = j

\* Every plan reserve can make shares what is resident and takes only free slabs for the rest.
LEMMA PlansForFacts ==
    ASSUME NEW st \in StoreRecords, NEW meta \in Meta, st.next_key < MaxKeys,
           NEW plan \in PlansFor(st, meta)
    PROVE  PlanFrom(st, meta, plan)
<1> DEFINE copies == Unmapped(st, meta)
           chosen(own, f) ==
               [key |-> st.next_key, meta |-> meta, own |-> own, copies |-> copies,
                pages |-> [i \in DOMAIN meta.pages |->
                              IF i \in copies THEN f[i] ELSE st.map[meta.pages[i]]]]
<1>a. PICK own \in kSubset(meta.parts, st.free) :
         \E f \in Injection(copies, st.free \ own) : plan = chosen(own, f)
  BY DEF PlansFor
<1>1. PICK f \in Injection(copies, st.free \ own) : plan = chosen(own, f)
  BY <1>a
<1>2. /\ own \in SUBSET st.free /\ Cardinality(own) = meta.parts
      /\ f \in [copies -> st.free \ own]
      /\ \A i, j \in copies : f[i] = f[j] => i = j
  BY DEF kSubset, Injection, IsInjective
<1>3. /\ meta.pages \in Seq(PageId)
      /\ st.free \in SUBSET Slab
      /\ st.map \in [PageId -> Slab \cup {NoSlab}]
      /\ st.next_key \in Key
  BY MetaShape, StoreShape DEF StoreRecords, Key
<1>4. /\ copies \subseteq DOMAIN meta.pages
      /\ \A i \in DOMAIN meta.pages \ copies : st.map[meta.pages[i]] \in Slab
  BY <1>3 DEF Unmapped
<1>5. plan.key = st.next_key /\ plan.meta = meta /\ plan.own = own /\ plan.copies = copies
      /\ plan.pages = [i \in DOMAIN meta.pages |->
                         IF i \in copies THEN f[i] ELSE st.map[meta.pages[i]]]
  BY <1>1
<1>6. /\ DOMAIN plan.pages = DOMAIN meta.pages
      /\ \A i \in DOMAIN plan.pages :
            plan.pages[i] \in IF i \in copies THEN st.free \ own ELSE {st.map[meta.pages[i]]}
      /\ \A i, j \in copies : plan.pages[i] = plan.pages[j] => i = j
  BY <1>2, <1>4, <1>5
<1>7. plan.pages \in Seq(Slab)
  <2>1. PICK n \in Nat : DOMAIN meta.pages = 1..n
    BY <1>3
  <2>2. plan.pages \in [1..n -> Slab]
    BY <1>2, <1>3, <1>4, <1>5, <2>1
  <2> QED BY <2>2
<1>8. copies \in SUBSET Nat
  BY <1>3, <1>4
<1>9. plan \in PlanRecords
  <2>1. plan = [key |-> plan.key, meta |-> plan.meta, own |-> plan.own,
                copies |-> plan.copies, pages |-> plan.pages]
    BY <1>1
  <2> HIDE DEF copies
  <2> QED BY <1>2, <1>3, <1>5, <1>7, <1>8, <2>1 DEF PlanRecords
<1> QED BY <1>2, <1>5, <1>6, <1>9 DEF PlanFrom

\* plan_store.
LEMMA PlannedKeeps ==
    ASSUME NEW st, NEW pl, StoreInv(st, pl), NEW meta \in Meta, st.next_key < MaxKeys,
           NEW plan \in PlansFor(st, meta)
    PROVE  /\ StoreInv(Planned(st, plan), [pl EXCEPT ![plan.key] = plan])
           /\ plan.key = st.next_key /\ plan.meta = meta /\ plan \in PlanRecords
           /\ Planned(st, plan).snapshots = st.snapshots
           /\ Planned(st, plan).bank = st.bank
           /\ Planned(st, plan).next_key = st.next_key + 1
           /\ plan.key \notin Holding(st, pl)
<1> DEFINE k == plan.key
           pl2 == [pl EXCEPT ![k] = plan]
           t == Planned(st, plan)
           C == ClaimsIn(st, pl)
           P == PartsIn(st, pl)
           fresh == ClaimsOf(k, plan.pages)
           copied == {plan.pages[i] : i \in plan.copies}
           more == [b \in Slab |-> st.refs[b] + Times(plan.pages, b)]
<1> USE DEF StoreInv
<1>1. st \in StoreRecords /\ PlanFrom(st, meta, plan)
  BY PlansForFacts
<1>2. /\ plan \in PlanRecords /\ k = st.next_key /\ plan.meta = meta
      /\ k \in Key /\ plan.pages \in Seq(Slab) /\ plan.own \in SUBSET Slab
      /\ plan.own \in SUBSET st.free /\ st.free \in SUBSET Slab
      /\ pl \in [Key -> PlanRecords \cup {Absent}]
  BY <1>1 DEF PlanFrom, PlanRecords, PlansExact, StoreRecords
<1>3. /\ copied \in SUBSET st.free /\ plan.own \intersect copied = {}
      /\ plan.copies \subseteq DOMAIN plan.pages
      /\ \A i \in plan.copies : plan.pages[i] \in st.free
  <2>1. plan.copies \subseteq DOMAIN plan.pages
    BY <1>1 DEF PlanFrom, Unmapped
  <2>2. \A i \in plan.copies : plan.pages[i] \in st.free \ plan.own
    BY <1>1, <2>1 DEF PlanFrom
  <2> QED BY <2>1, <2>2
<1>4. /\ IsFiniteSet(fresh) /\ MentionedAs(plan.pages, fresh)
      /\ fresh \in SUBSET (Key \X Nat \X Slab)
  <2>1. IsFiniteSet(DOMAIN plan.pages)
    BY <1>2, SequenceFacts
  <2>2. fresh \in SUBSET (Key \X Nat \X Slab)
    BY <1>2 DEF ClaimsOf
  <2> QED BY <2>1, <2>2, TimesAreClaims
<1>5. \A b \in st.free : On(C, b) = {} /\ st.refs[b] = 0 /\ st.device[b] = NoId
  <2> SUFFICES ASSUME NEW b \in st.free
               PROVE  On(C, b) = {} /\ st.refs[b] = 0 /\ st.device[b] = NoId
    OBVIOUS
  <2>1. On(C, b) = {} /\ st.refs[b] = Cardinality(On(C, b))
    BY <1>2 DEF Balanced
  <2>2. st.refs[b] = 0
    BY <2>1, FS_EmptySet
  <2>3. st.device[b] = NoId
    BY <1>2, <2>2, StoreShape DEF MapExact, StoreRecords
  <2> QED BY <2>1, <2>2, <2>3
<1>6. \A i \in DOMAIN plan.pages \ plan.copies :
         /\ st.device[plan.pages[i]] # NoId
         /\ st.refs[plan.pages[i]] > 0
         /\ plan.pages[i] \notin st.free
  <2> SUFFICES ASSUME NEW i \in DOMAIN plan.pages \ plan.copies
               PROVE  st.device[plan.pages[i]] # NoId /\ st.refs[plan.pages[i]] > 0
                      /\ plan.pages[i] \notin st.free
    OBVIOUS
  <2>1. meta.pages[i] \in PageId /\ plan.pages[i] = st.map[meta.pages[i]]
        /\ st.map[meta.pages[i]] # NoSlab
    <3>1. meta.pages \in Seq(PageId)
      BY MetaShape
    <3>2. i \in DOMAIN meta.pages /\ i \notin Unmapped(st, meta)
      BY <1>1 DEF PlanFrom
    <3>3. plan.pages[i] = st.map[meta.pages[i]]
      BY <1>1 DEF PlanFrom
    <3> QED BY <3>1, <3>2, <3>3 DEF Unmapped
  <2>2. st.device[plan.pages[i]] = meta.pages[i] /\ st.refs[plan.pages[i]] > 0
    BY <2>1 DEF MapExact
  <2> QED BY <1>5, <2>1, <2>2, StoreShape
<1>7. /\ \A x \in fresh : x[3] \in copied \/ On(C, x[3]) # {}
      /\ \A x \in fresh : x[3] \in st.free \/ st.device[x[3]] # NoId
  <2> SUFFICES ASSUME NEW i \in DOMAIN plan.pages
               PROVE  /\ plan.pages[i] \in copied \/ On(C, plan.pages[i]) # {}
                      /\ plan.pages[i] \in st.free \/ st.device[plan.pages[i]] # NoId
    BY DEF ClaimsOf
  <2>1. CASE i \in plan.copies
    BY <1>3, <2>1
  <2>2. CASE i \notin plan.copies
    <3>1. st.device[plan.pages[i]] # NoId /\ st.refs[plan.pages[i]] > 0
      BY <1>6, <2>2
    <3>2. plan.pages[i] \in Slab
      BY <1>2
    <3>3. st.refs[plan.pages[i]] = Cardinality(On(C, plan.pages[i]))
      BY <3>2 DEF Balanced
    <3>4. On(C, plan.pages[i]) # {}
      BY <3>1, <3>3, FS_EmptySet
    <3> QED BY <3>1, <3>4
  <2> QED BY <2>1, <2>2
<1>8. \A b \in copied : On(fresh, b) # {}
  <2> SUFFICES ASSUME NEW i \in plan.copies PROVE On(fresh, plan.pages[i]) # {}
    OBVIOUS
  <2>1. <<k, i, plan.pages[i]>> \in fresh
    BY <1>3 DEF ClaimsOf
  <2>2. <<k, i, plan.pages[i]>> \in On(fresh, plan.pages[i])
    BY <2>1 DEF On
  <2> QED BY <2>2
<1>9. TakesUp(st.refs, C, fresh, copied, more)
  <2>1. \A b \in Slab : more[b] = st.refs[b] + Cardinality(On(fresh, b))
    BY <1>4 DEF MentionedAs
  <2> QED BY <1>7, <1>8, <2>1 DEF TakesUp
<1>10. k \notin Holding(st, pl)
  BY <1>2 DEF Holding, PlansExact, Resident, Key
<1>11. /\ HasPlan(pl2) = HasPlan(pl) \cup {k} /\ pl2[k] = plan
       /\ \A j \in HasPlan(pl) : j # k /\ pl2[j] = pl[j]
       /\ pl2 \in [Key -> PlanRecords \cup {Absent}]
  <2>1. plan # Absent
    <3>1. "key" \in DOMAIN plan
      BY <1>2 DEF PlanRecords
    <3>2. "key" \notin DOMAIN Absent
      BY DEF Absent
    <3> QED BY <3>1, <3>2
  <2> QED BY <1>2, <1>10, <2>1 DEF HasPlan, Holding
<1>12. t = [st EXCEPT !.refs = more, !.free = @ \ (plan.own \cup copied),
                      !.next_key = @ + 1]
  BY DEF Planned, AddPageRefs, StoreRecords
<1>13. Balanced(more, st.free \ (plan.own \cup copied), C \cup fresh,
                P \cup ({k} \X plan.own))
  <2>1. fresh \intersect C = {}
    <3>1. \A x \in fresh : x[1] = k
      BY DEF ClaimsOf
    <3>2. \A x \in C : x[1] \in Holding(st, pl)
      BY DEF ClaimsOf, ClaimsIn
    <3> QED BY <1>10, <3>1, <3>2
  <2>2. Balanced(st.refs, st.free, C, P)
    OBVIOUS
  <2> DEFINE own == plan.own
  <2>3. own \in SUBSET st.free /\ own \intersect copied = {}
    BY <1>2, <1>3
  <2> HIDE DEF more, fresh, copied, C, P, k, own, StoreInv
  <2>4. Balanced(more, st.free \ (own \cup copied), C \cup fresh, P \cup ({k} \X own))
    BY <1>2, <1>3, <1>4, <1>9, <2>1, <2>2, <2>3, ClaimMore
  <2> QED BY <2>4 DEF own
<1> HIDE DEF t, pl2, more, fresh, copied
<1>14. more \in [Slab -> Nat]
  <2>1. \A b \in Slab : Times(plan.pages, b) \in Nat
    <3>1. \A b \in Slab : Times(plan.pages, b) = Cardinality(On(fresh, b))
      BY <1>4 DEF MentionedAs
    <3> QED BY <1>4, <3>1, OnIsCounted
  <2>2. \A b \in Slab : st.refs[b] \in Nat
    BY DEF StoreRecords
  <2> QED BY <2>1, <2>2 DEF more
<1>15. /\ t.refs = more /\ t.free = st.free \ (plan.own \cup copied)
       /\ t.next_key = st.next_key + 1 /\ t.map = st.map /\ t.device = st.device
       /\ t.snapshots = st.snapshots /\ t.bank = st.bank
       /\ t \in StoreRecords
  <2>1. st.next_key + 1 \in 0..MaxKeys
    BY StoreShape DEF StoreRecords
  <2>2. st.free \ (plan.own \cup copied) \in SUBSET Slab
    BY <1>2
  <2> QED BY <1>12, <1>14, <2>1, <2>2 DEF StoreRecords
<1>16. Resident(t) = Resident(st)
  BY <1>15 DEF Resident
<1>17. ClaimsIn(t, pl2) = C \cup fresh /\ PartsIn(t, pl2) = P \cup ({k} \X plan.own)
  <2>1. Holding(t, pl2) = Holding(st, pl) \cup {k}
    BY <1>11, <1>16 DEF Holding
  <2>2. SamePages(st, pl, t, pl2, Holding(st, pl))
    BY <1>11, <1>15, <1>10 DEF SamePages, HolderOf, Holding
  <2>3. HolderOf(t, pl2, k) = plan
    BY <1>11 DEF HolderOf
  <2>4. /\ ClaimsIn(t, pl2) = ClaimsIn(st, pl) \cup ClaimsOf(k, HolderOf(t, pl2, k).pages)
        /\ PartsIn(t, pl2) = PartsIn(st, pl) \cup ({k} \X HolderOf(t, pl2, k).own)
    <3>1. Joins(st, pl, t, pl2, k)
      BY <1>10, <2>1, <2>2 DEF Joins
    <3> HIDE DEF k, C, P, StoreInv
    <3> QED BY ONLY <3>1, HolderJoins
  <2> QED BY <2>3, <2>4 DEF fresh
<1>18. PlansExact(t, pl2)
  <2>1. \A j \in HasPlan(pl2) :
          /\ pl2[j].key = j /\ j < t.next_key
          /\ DOMAIN pl2[j].pages = DOMAIN pl2[j].meta.pages
          /\ pl2[j].copies \subseteq DOMAIN pl2[j].pages
          /\ Cardinality(pl2[j].own) = pl2[j].meta.parts
    <3> SUFFICES ASSUME NEW j \in HasPlan(pl2)
                 PROVE  /\ pl2[j].key = j /\ j < t.next_key
                        /\ DOMAIN pl2[j].pages = DOMAIN pl2[j].meta.pages
                        /\ pl2[j].copies \subseteq DOMAIN pl2[j].pages
                        /\ Cardinality(pl2[j].own) = pl2[j].meta.parts
      OBVIOUS
    <3>1. CASE j = k
      BY <1>1, <1>2, <1>3, <1>11, <1>15, <3>1 DEF PlanFrom, Key
    <3>2. CASE j \in HasPlan(pl)
      BY <1>11, <1>15, <1>2, <3>2 DEF PlansExact, HasPlan, Key
    <3> QED BY <1>11, <3>1, <3>2
  <2>2. \A j \in Resident(t) :
           /\ j < t.next_key
           /\ Cardinality(t.snapshots[j].own) = t.snapshots[j].meta.parts
           /\ DOMAIN t.snapshots[j].pages = DOMAIN t.snapshots[j].meta.pages
    BY <1>2, <1>15, <1>16 DEF PlansExact, Resident, Key
  <2>3. Resident(t) \intersect HasPlan(pl2) = {}
    BY <1>10, <1>11, <1>16 DEF PlansExact, Holding
  <2> QED BY <1>11, <2>1, <2>2, <2>3 DEF PlansExact
<1>19. MapExact(t)
  <2>1. ASSUME NEW b \in Slab, st.refs[b] > 0 PROVE more[b] > 0
    <3>1. more[b] = st.refs[b] + Cardinality(On(fresh, b))
      BY <1>9 DEF TakesUp
    <3>2. Cardinality(On(fresh, b)) \in Nat /\ st.refs[b] \in Nat
      BY <1>4, OnIsCounted DEF StoreRecords
    <3> QED BY <2>1, <3>1, <3>2
  <2>2. \A id \in PageId : st.map[id] # NoSlab => st.map[id] \in Slab
    BY DEF StoreRecords
  <2> QED BY <1>15, <2>1, <2>2 DEF MapExact
<1>20. CopiesPrivate(t, pl2)
  <2> SUFFICES ASSUME NEW j \in HasPlan(pl2), NEW i \in pl2[j].copies
               PROVE  /\ st.device[pl2[j].pages[i]] = NoId
                      /\ \A x \in On(C \cup fresh, pl2[j].pages[i]) :
                            x = <<j, i, pl2[j].pages[i]>>
    BY <1>15, <1>17 DEF CopiesPrivate
  <2> DEFINE b == pl2[j].pages[i]
  <2>1. CASE j = k
    <3>1. pl2[j] = plan /\ b \in copied /\ b \in st.free
      BY <1>3, <1>11, <2>1 DEF copied
    <3>2. On(C, b) = {} /\ st.device[b] = NoId
      BY <1>5, <3>1
    <3>3. ASSUME NEW x \in fresh, x[3] = b PROVE x = <<j, i, b>>
      <4>1. PICK n \in DOMAIN plan.pages : x = <<k, n, plan.pages[n]>>
        BY <3>3 DEF fresh, ClaimsOf
      <4>2. plan.pages[n] = plan.pages[i]
        BY <3>1, <3>3, <4>1
      <4>3. n \in plan.copies
        BY <1>6, <3>1, <3>3, <4>1
      <4>4. n = i
        BY <1>1, <3>1, <4>2, <4>3 DEF PlanFrom
      <4> QED BY <2>1, <3>1, <4>1, <4>4
    <3> QED BY <3>2, <3>3 DEF On
  <2>2. CASE j \in HasPlan(pl)
    <3>1. pl2[j] = pl[j]
      BY <1>11, <2>2
    <3>2. st.device[b] = NoId /\ \A x \in On(C, b) : x = <<j, i, b>>
      BY <2>2, <3>1 DEF CopiesPrivate
    <3>3. b \notin st.free
      <4>1. i \in DOMAIN pl[j].pages /\ j \in Holding(st, pl) /\ HolderOf(st, pl, j) = pl[j]
        BY <2>2, <3>1 DEF PlansExact, Holding, HolderOf
      <4>2. <<j, i, b>> \in ClaimsOf(j, HolderOf(st, pl, j).pages)
        BY <3>1, <4>1 DEF ClaimsOf
      <4>3. <<j, i, b>> \in On(C, b)
        BY <4>1, <4>2 DEF ClaimsIn, On
      <4> QED BY <1>5, <4>3
    <3>4. \A x \in fresh : x[3] # b
      BY <1>7, <3>2, <3>3 DEF fresh
    <3> QED BY <3>2, <3>4 DEF On
  <2> QED BY <1>11, <2>1, <2>2
<1>21. BanksExact(t)
  BY <1>15, <1>16 DEF BanksExact, Lists, Tokens
<1>22. StoreInv(t, pl2)
  BY <1>13, <1>15, <1>17, <1>18, <1>19, <1>20, <1>21
<1> QED BY <1>2, <1>10, <1>15, <1>22 DEF t, pl2

\* A plan once its copied pages are mapped: it has no copies of its own left.
FinalPages(st, plan) == [plan EXCEPT !.pages = SnapshotOf(st, plan).pages, !.copies = {}]

\* Of an outstanding plan p: what its copies are, and the pages another plan
\* mapped before it.
LEMMA CopiesOf ==
    ASSUME NEW st, NEW pl, StoreInv(st, pl), NEW k \in HasPlan(pl)
    PROVE  LET p == pl[k]
               C == ClaimsIn(st, pl)
               dups == Duplicates(st, p)
           IN  /\ p \in PlanRecords /\ k \in Key /\ p.meta \in Meta
               /\ p.pages \in Seq(Slab) /\ p.meta.pages \in Seq(PageId)
               /\ p.copies \subseteq DOMAIN p.pages
               /\ DOMAIN p.pages = DOMAIN p.meta.pages
               /\ k \in Holding(st, pl) /\ HolderOf(st, pl, k) = p
               /\ \A i \in DOMAIN p.pages : <<k, i, p.pages[i]>> \in C
               /\ \A i \in p.copies :
                     /\ p.pages[i] \in Slab
                     /\ st.device[p.pages[i]] = NoId
                     /\ \A x \in C : x[3] = p.pages[i] => x = <<k, i, p.pages[i]>>
               /\ \A i \in dups :
                     /\ st.map[p.meta.pages[i]] \in Slab
                     /\ st.device[st.map[p.meta.pages[i]]] # NoId
                     /\ On(C, st.map[p.meta.pages[i]]) # {}
               /\ dups \subseteq p.copies
               /\ \A i, j \in DOMAIN p.meta.pages :
                     p.meta.pages[i] = p.meta.pages[j] => i = j
<1> DEFINE p == pl[k]
           C == ClaimsIn(st, pl)
           dups == Duplicates(st, p)
<1> USE DEF StoreInv
<1>1. /\ p \in PlanRecords /\ k \in Key
      /\ p.copies \subseteq DOMAIN p.pages
      /\ DOMAIN p.pages = DOMAIN p.meta.pages
      /\ k \in Holding(st, pl) /\ HolderOf(st, pl, k) = p
  BY DEF PlansExact, HasPlan, HolderOf, Holding
<1>2. p.meta \in Meta /\ p.pages \in Seq(Slab) /\ p.meta.pages \in Seq(PageId)
  BY <1>1, MetaShape DEF PlanRecords
<1>3. \A i \in DOMAIN p.pages : <<k, i, p.pages[i]>> \in C
  <2> TAKE i \in DOMAIN p.pages
  <2>1. <<k, i, p.pages[i]>> \in ClaimsOf(k, HolderOf(st, pl, k).pages)
    BY <1>1 DEF ClaimsOf
  <2> QED BY <1>1, <2>1 DEF ClaimsIn
<1>4. \A i \in p.copies :
         /\ p.pages[i] \in Slab
         /\ st.device[p.pages[i]] = NoId
         /\ \A x \in C : x[3] = p.pages[i] => x = <<k, i, p.pages[i]>>
  BY <1>1, <1>2 DEF CopiesPrivate, On
<1>5. dups \subseteq p.copies
  BY DEF Duplicates
<1>6. \A i \in dups : /\ st.map[p.meta.pages[i]] \in Slab
                      /\ st.device[st.map[p.meta.pages[i]]] # NoId
                      /\ On(C, st.map[p.meta.pages[i]]) # {}
  <2> SUFFICES ASSUME NEW i \in dups
               PROVE  /\ st.map[p.meta.pages[i]] \in Slab
                      /\ st.device[st.map[p.meta.pages[i]]] # NoId
                      /\ On(C, st.map[p.meta.pages[i]]) # {}
    OBVIOUS
  <2> DEFINE id == p.meta.pages[i]
  <2>1. id \in PageId /\ st.map[id] # NoSlab
    BY <1>1, <1>2, <1>5 DEF Duplicates
  <2>2. st.map[id] \in Slab /\ st.device[st.map[id]] = id /\ st.refs[st.map[id]] > 0
    BY <2>1 DEF StoreRecords, MapExact
  <2>3. st.refs[st.map[id]] = Cardinality(On(C, st.map[id]))
    BY <2>2 DEF Balanced
  <2>4. On(C, st.map[id]) # {}
    <3> HIDE DEF id, C, StoreInv
    <3>1. Cardinality({}) = 0
      BY FS_EmptySet
    <3> QED BY <2>2, <2>3, <3>1
  <2> QED BY <2>1, <2>2, <2>4, StoreShape
<1>7. \A i, j \in DOMAIN p.meta.pages : p.meta.pages[i] = p.meta.pages[j] => i = j
  BY <1>2, MetaShape
<1> QED BY <1>1, <1>2, <1>3, <1>4, <1>5, <1>6, <1>7

\* map_copied_pages: a duplicate gives up its copy and shares the page mapped
\* first; the other copies now stand for their device pages.
LEMMA MapCopiedKeeps ==
    ASSUME NEW st, NEW pl, StoreInv(st, pl), NEW k \in HasPlan(pl)
    PROVE  LET t == MapCopiedPages(st, pl[k])
               pl2 == [pl EXCEPT ![k] = FinalPages(st, pl[k])]
           IN  /\ StoreInv(t, pl2)
               /\ HasPlan(pl2) = HasPlan(pl)
               /\ t.snapshots = st.snapshots /\ t.bank = st.bank
               /\ t.next_key = st.next_key
<1> DEFINE p == pl[k]
           ids == p.meta.pages
           C == ClaimsIn(st, pl)
           P == PartsIn(st, pl)
           dups == Duplicates(st, p)
           fresh == p.copies \ dups
           copied == [i \in dups |-> p.pages[i]]
           existing == [i \in dups |-> st.map[ids[i]]]
           gone == ClaimsOf(k, copied)
           shared == ClaimsOf(k, existing)
           C2 == (C \ gone) \cup shared
           r == ReleasePages(st, copied)
           more == [b \in Slab |-> r.refs[b] + Times(existing, b)]
           map == [id \in PageId |->
                IF \E i \in fresh : ids[i] = id
                THEN p.pages[CHOOSE i \in fresh : ids[i] = id] ELSE r.map[id]]
           device == [b \in Slab |->
                IF \E i \in fresh : p.pages[i] = b
                THEN ids[CHOOSE i \in fresh : p.pages[i] = b] ELSE r.device[b]]
           t == MapCopiedPages(st, p)
           pl2 == [pl EXCEPT ![k] = FinalPages(st, p)]
<1>1. /\ p \in PlanRecords /\ k \in Key
      /\ p.pages \in Seq(Slab) /\ ids \in Seq(PageId)
      /\ p.copies \subseteq DOMAIN p.pages
      /\ DOMAIN p.pages = DOMAIN ids
      /\ k \in Holding(st, pl) /\ HolderOf(st, pl, k) = p
      /\ \A i \in DOMAIN p.pages : <<k, i, p.pages[i]>> \in C
  BY CopiesOf
<1>2. \A i \in p.copies :
         /\ p.pages[i] \in Slab
         /\ st.device[p.pages[i]] = NoId
         /\ \A x \in C : x[3] = p.pages[i] => x = <<k, i, p.pages[i]>>
  BY CopiesOf
<1>3. /\ \A i \in dups : /\ st.map[ids[i]] \in Slab
                         /\ st.device[st.map[ids[i]]] # NoId
                         /\ On(C, st.map[ids[i]]) # {}
      /\ dups \subseteq p.copies
      /\ \A i, j \in DOMAIN ids : ids[i] = ids[j] => i = j
  <2>1. StoreInv(st, pl) /\ k \in HasPlan(pl)
    OBVIOUS
  <2> QED BY ONLY <2>1, CopiesOf, SMTT(60) DEF p, ids, dups, C
<1>4. \A i, j \in p.copies : p.pages[i] = p.pages[j] => i = j
  <2> SUFFICES ASSUME NEW i \in p.copies, NEW j \in p.copies, p.pages[i] = p.pages[j]
               PROVE  i = j
    OBVIOUS
  <2>1. <<k, i, p.pages[i]>> \in C
    BY <1>1
  <2>2. <<k, i, p.pages[i]>> = <<k, j, p.pages[j]>>
    BY <1>2, <2>1
  <2> QED BY <2>2
<1>5. /\ st \in StoreRecords /\ PlansExact(st, pl) /\ MapExact(st) /\ CopiesPrivate(st, pl)
      /\ BanksExact(st) /\ Balanced(st.refs, st.free, C, P)
      /\ pl \in [Key -> PlanRecords \cup {Absent}]
  BY DEF StoreInv, PlansExact
<1>6. IsFiniteSet(dups)
  <2>1. IsFiniteSet(DOMAIN p.pages)
    BY <1>1, SequenceFacts
  <2> QED BY <1>1, <1>3, <2>1, FS_Subset
<1>7. /\ gone = {<<k, i, p.pages[i]>> : i \in dups}
      /\ shared = {<<k, i, st.map[ids[i]]>> : i \in dups}
      /\ MentionedAs(copied, gone) /\ MentionedAs(existing, shared)
      /\ IsFiniteSet(shared) /\ gone \in SUBSET C
  <2>1. gone = {<<k, i, p.pages[i]>> : i \in dups}
    BY DEF ClaimsOf
  <2>2. shared = {<<k, i, st.map[ids[i]]>> : i \in dups}
    BY DEF ClaimsOf
  <2>3. DOMAIN copied = dups /\ DOMAIN existing = dups
    OBVIOUS
  <2>4. gone \in SUBSET C
    BY <1>1, <1>3, <2>1
  <2> HIDE DEF copied, existing, dups
  <2>5. MentionedAs(copied, ClaimsOf(k, copied))
    BY <1>6, <2>3, TimesAreClaims
  <2>6. MentionedAs(existing, ClaimsOf(k, existing)) /\ IsFiniteSet(ClaimsOf(k, existing))
    BY <1>6, <2>3, TimesAreClaims
  <2> QED BY <2>1, <2>2, <2>4, <2>5, <2>6
<1>8. t = [r EXCEPT !.refs = more, !.map = map, !.device = device]
  BY DEF MapCopiedPages, AddPageRefs
<1> HIDE DEF gone, shared, copied, existing, dups, p, C, P, t, pl2
<1>9. LetGo(st, r, C \ gone, P)
  BY <1>5, <1>7, ReleasePagesBalance DEF r
<1> HIDE DEF r
<1>10. \A i \in dups : /\ On(C \ gone, st.map[ids[i]]) # {}
                       /\ <<k, i, st.map[ids[i]]>> \notin C
  <2> SUFFICES ASSUME NEW i \in dups
               PROVE  On(C \ gone, st.map[ids[i]]) # {} /\ <<k, i, st.map[ids[i]]>> \notin C
    OBVIOUS
  <2>1. PICK x \in C : x[3] = st.map[ids[i]]
    BY <1>3 DEF On
  <2>2. \A j \in p.copies : st.map[ids[i]] # p.pages[j]
    BY <1>2, <1>3
  <2>3. x \notin gone
    <3>1. \A y \in gone : \E j \in p.copies : y[3] = p.pages[j]
      BY <1>3, <1>7
    <3> QED BY <2>1, <2>2, <3>1
  <2>4. <<k, i, st.map[ids[i]]>> \notin C
    <3>1. ASSUME NEW y \in C, y[1] = k PROVE y = <<k, y[2], p.pages[y[2]]>>
      <4>1. PICK j \in Holding(st, pl) : y \in ClaimsOf(j, HolderOf(st, pl, j).pages)
        BY DEF C, ClaimsIn
      <4>2. j = k
        BY <3>1, <4>1 DEF ClaimsOf
      <4> QED BY <1>1, <4>1, <4>2 DEF ClaimsOf
    <3>2. <<k, i, st.map[ids[i]]>> \in C => st.map[ids[i]] = p.pages[i]
      BY <3>1
    <3> QED BY <1>3, <2>2, <3>2
  <2> QED BY <2>1, <2>3, <2>4 DEF On
<1>11. /\ r.free \in SUBSET Slab /\ r.refs \in [Slab -> Nat]
       /\ r.device \in [Slab -> PageId \cup {NoId}]
       /\ r.map \in [PageId -> Slab \cup {NoSlab}]
       /\ r \in StoreRecords /\ MapExact(r)
       /\ Balanced(r.refs, r.free, C \ gone, P)
       /\ r.snapshots = st.snapshots /\ r.bank = st.bank /\ r.next_key = st.next_key
       /\ \A b \in Slab : r.device[b] \in {st.device[b], NoId}
       /\ \A id \in PageId : r.map[id] \in {st.map[id], NoSlab}
  BY <1>9 DEF LetGo, StoreRecords
<1>12. Balanced(more, r.free, C2, P)
  <2>1. TakesUp(r.refs, C \ gone, shared, {}, more)
    <3>1. \A b \in Slab : more[b] = r.refs[b] + Cardinality(On(shared, b))
      BY <1>7 DEF MentionedAs
    <3>2. \A x \in shared : On(C \ gone, x[3]) # {}
      BY <1>7, <1>10
    <3> QED BY <3>1, <3>2 DEF TakesUp
  <2>2. shared \in SUBSET (Key \X Nat \X Slab)
    <3>1. \A i \in dups : i \in Nat /\ st.map[ids[i]] \in Slab
      BY <1>1, <1>3
    <3> QED BY <1>1, <1>7, <3>1
  <2>3. shared \intersect (C \ gone) = {}
    BY <1>7, <1>10
  <2>4. Balanced(r.refs, r.free, C \ gone, P)
    BY <1>11
  <2> DEFINE none == {}
  <2>5. none \in SUBSET r.free /\ none \intersect none = {} /\ none = {}
    OBVIOUS
  <2> HIDE DEF more, none
  <2>6. Balanced(more, r.free \ (none \cup none), (C \ gone) \cup shared,
                 P \cup ({k} \X none))
    BY <1>1, <1>7, <1>11, <2>1, <2>2, <2>3, <2>4, <2>5, ClaimMore
  <2>7. r.free \ (none \cup none) = r.free /\ P \cup ({k} \X none) = P
    BY <2>5
  <2> QED BY <2>6, <2>7
<1>13. /\ \A b \in Slab : more[b] \in Nat /\ (On(C2, b) # {} => more[b] > 0)
       /\ more \in [Slab -> Nat]
  <2> SUFFICES ASSUME NEW b \in Slab
               PROVE  more[b] \in Nat /\ (On(C2, b) # {} => more[b] > 0)
    BY DEF more
  <2>1. more[b] = Cardinality(On(C2, b)) /\ IsFiniteSet(C2)
    BY <1>12 DEF Balanced
  <2> HIDE DEF more, C2
  <2> QED BY <2>1, OnIsCounted
<1>14. \A i \in fresh :
         /\ i \in p.copies /\ ids[i] \in PageId /\ p.pages[i] \in Slab
         /\ r.map[ids[i]] = NoSlab /\ r.device[p.pages[i]] = NoId
         /\ map[ids[i]] = p.pages[i] /\ device[p.pages[i]] = ids[i]
         /\ more[p.pages[i]] > 0
  <2> SUFFICES ASSUME NEW i \in fresh
               PROVE  /\ i \in p.copies /\ ids[i] \in PageId /\ p.pages[i] \in Slab
                      /\ r.map[ids[i]] = NoSlab /\ r.device[p.pages[i]] = NoId
                      /\ map[ids[i]] = p.pages[i] /\ device[p.pages[i]] = ids[i]
                      /\ more[p.pages[i]] > 0
    OBVIOUS
  <2>1. i \in p.copies /\ i \in DOMAIN p.pages /\ ids[i] \in PageId /\ p.pages[i] \in Slab
    BY <1>1
  <2>2. r.map[ids[i]] = NoSlab
    <3>1. st.map[ids[i]] = NoSlab
      BY DEF dups, Duplicates
    <3> QED BY <1>11, <2>1, <3>1
  <2>3. r.device[p.pages[i]] = NoId
    BY <1>2, <1>11, <2>1
  <2>4. \A j \in fresh : (ids[j] = ids[i] => j = i) /\ (p.pages[j] = p.pages[i] => j = i)
    BY <1>1, <1>3, <1>4
  <2>5. map[ids[i]] = p.pages[i]
    BY <2>1, <2>4
  <2>6. device[p.pages[i]] = ids[i]
    BY <2>1, <2>4
  <2>7. more[p.pages[i]] > 0
    <3>1. <<k, i, p.pages[i]>> \in C \ gone
      BY <1>1, <1>7, <2>1
    <3>2. <<k, i, p.pages[i]>> \in On(C2, p.pages[i])
      BY <3>1 DEF On
    <3> QED BY <1>13, <2>1, <3>2
  <2> QED BY <2>1, <2>2, <2>3, <2>5, <2>6, <2>7
<1>15. /\ map \in [PageId -> Slab \cup {NoSlab}]
       /\ device \in [Slab -> PageId \cup {NoId}]
       /\ \A id \in PageId : (\A i \in fresh : ids[i] # id) => map[id] = r.map[id]
       /\ \A b \in Slab : (\A i \in fresh : p.pages[i] # b) => device[b] = r.device[b]
  <2>1. ASSUME NEW id \in PageId
        PROVE  /\ map[id] \in Slab \cup {NoSlab}
               /\ (\A i \in fresh : ids[i] # id) => map[id] = r.map[id]
    <3>1. CASE \E i \in fresh : ids[i] = id
      <4>1. PICK i \in fresh : ids[i] = id
        BY <3>1
      <4> HIDE DEF map, fresh
      <4> QED BY <1>14, <4>1
    <3>2. CASE \A i \in fresh : ids[i] # id
      BY <1>11, <3>2
    <3> QED BY <3>1, <3>2
  <2>2. ASSUME NEW b \in Slab
        PROVE  /\ device[b] \in PageId \cup {NoId}
               /\ (\A i \in fresh : p.pages[i] # b) => device[b] = r.device[b]
    <3>1. CASE \E i \in fresh : p.pages[i] = b
      <4>1. PICK i \in fresh : p.pages[i] = b
        BY <3>1
      <4> HIDE DEF device, fresh
      <4> QED BY <1>14, <4>1
    <3>2. CASE \A i \in fresh : p.pages[i] # b
      BY <1>11, <3>2
    <3> QED BY <3>1, <3>2
  <2>3. DOMAIN map = PageId /\ DOMAIN device = Slab
    OBVIOUS
  <2>4. map = [id \in PageId |-> map[id]] /\ device = [b \in Slab |-> device[b]]
    OBVIOUS
  <2> HIDE DEF map, device
  <2> QED BY <2>1, <2>2, <2>4
<1> HIDE DEF map, device, more
<1>16. /\ t.refs = more /\ t.map = map /\ t.device = device /\ t.free = r.free
       /\ t.snapshots = st.snapshots /\ t.bank = st.bank /\ t.next_key = st.next_key
       /\ t \in StoreRecords
  BY <1>8, <1>11, <1>13, <1>15 DEF StoreRecords
<1>17. MapExact(t)
  <2>1. ASSUME NEW id \in PageId, map[id] # NoSlab
        PROVE  more[map[id]] > 0 /\ device[map[id]] = id
    <3>1. CASE \E i \in fresh : ids[i] = id
      BY <1>14, <3>1
    <3>2. CASE \A i \in fresh : ids[i] # id
      <4>1. /\ map[id] = r.map[id] /\ r.map[id] \in Slab
            /\ r.refs[r.map[id]] > 0 /\ r.device[r.map[id]] = id
        BY <1>11, <1>15, <2>1, <3>2 DEF MapExact
      <4>2. \A i \in fresh : p.pages[i] # r.map[id]
        BY <1>14, <4>1, StoreShape
      <4>3. more[r.map[id]] > 0
        <5>1. r.refs[r.map[id]] = Cardinality(On(C \ gone, r.map[id]))
          BY <1>11, <4>1 DEF Balanced
        <5>2. On(C \ gone, r.map[id]) # {}
          BY <4>1, <5>1, FS_EmptySet
        <5>3. On(C2, r.map[id]) # {}
          BY <5>2 DEF On
        <5> QED BY <1>13, <4>1, <5>3
      <4> QED BY <1>15, <4>1, <4>2, <4>3
    <3> QED BY <3>1, <3>2
  <2>2. ASSUME NEW b \in Slab, device[b] # NoId PROVE map[device[b]] = b
    <3>1. CASE \E i \in fresh : p.pages[i] = b
      BY <1>14, <3>1
    <3>2. CASE \A i \in fresh : p.pages[i] # b
      <4>1. /\ device[b] = r.device[b] /\ r.device[b] \in PageId
            /\ r.map[r.device[b]] = b
        BY <1>11, <1>15, <2>2, <3>2 DEF MapExact
      <4>2. \A i \in fresh : ids[i] # r.device[b]
        BY <1>14, <4>1, StoreShape
      <4> QED BY <1>15, <4>1, <4>2
    <3> QED BY <3>1, <3>2
  <2> QED BY <1>16, <2>1, <2>2 DEF MapExact
<1> DEFINE q == FinalPages(st, p)
<1>18. /\ q \in PlanRecords /\ q.key = p.key /\ q.meta = p.meta /\ q.own = p.own
       /\ q.copies = {}
       /\ q.pages = [i \in DOMAIN p.pages |->
                        IF i \in dups THEN st.map[ids[i]] ELSE p.pages[i]]
       /\ q # Absent
  <2> DEFINE pages == [i \in DOMAIN p.pages |->
                          IF i \in dups THEN st.map[ids[i]] ELSE p.pages[i]]
  <2>1. pages \in Seq(Slab)
    <3>1. PICK n \in Nat : DOMAIN p.pages = 1..n
      BY <1>1
    <3>2. pages \in [1..n -> Slab]
      BY <1>1, <1>3, <3>1
    <3> QED BY <3>2
  <2>2. q = [p EXCEPT !.pages = pages, !.copies = {}]
    BY DEF FinalPages, SnapshotOf, dups
  <2> HIDE DEF pages, q
  <2>3. /\ q \in PlanRecords /\ q.key = p.key /\ q.meta = p.meta /\ q.own = p.own
        /\ q.copies = {} /\ q.pages = pages
    BY <1>1, <2>1, <2>2 DEF PlanRecords
  <2>4. q # Absent
    <3>1. "key" \in DOMAIN q
      BY <2>3 DEF PlanRecords
    <3>2. "key" \notin DOMAIN Absent
      BY DEF Absent
    <3> QED BY <3>1, <3>2
  <2> QED BY <2>3, <2>4 DEF pages
<1> HIDE DEF q
<1>19. /\ pl2 \in [Key -> PlanRecords \cup {Absent}] /\ pl2[k] = q
       /\ HasPlan(pl2) = HasPlan(pl)
       /\ \A j \in HasPlan(pl) \ {k} : pl2[j] = pl[j]
  <2>1. pl2 = [pl EXCEPT ![k] = q]
    BY DEF pl2, q
  <2> QED BY <1>1, <1>5, <1>18, <2>1 DEF HasPlan
<1>20. Resident(t) = Resident(st) /\ Holding(t, pl2) = Holding(st, pl)
  BY <1>16, <1>19 DEF Resident, Holding
<1>21. /\ HolderOf(t, pl2, k) = q
       /\ \A j \in Holding(st, pl) \ {k} : HolderOf(t, pl2, j) = HolderOf(st, pl, j)
  BY <1>16, <1>19 DEF HolderOf, Holding
<1>22. ClaimsIn(t, pl2) = C2
  <2>1. \A j \in Holding(st, pl) \ {k} :
           /\ ClaimsOf(j, HolderOf(t, pl2, j).pages) \subseteq C
           /\ ClaimsOf(j, HolderOf(t, pl2, j).pages) \intersect gone = {}
    <3> SUFFICES ASSUME NEW j \in Holding(st, pl) \ {k}
                 PROVE  /\ ClaimsOf(j, HolderOf(st, pl, j).pages) \subseteq C
                        /\ ClaimsOf(j, HolderOf(st, pl, j).pages) \intersect gone = {}
      BY <1>21
    <3>1. \A x \in gone : x[1] = k
      BY <1>7
    <3>2. \A x \in ClaimsOf(j, HolderOf(st, pl, j).pages) : x[1] = j
      BY DEF ClaimsOf
    <3> QED BY <3>1, <3>2 DEF C, ClaimsIn
  <2>2. ClaimsOf(k, q.pages) = (ClaimsOf(k, p.pages) \ gone) \cup shared
    <3>1. \A i \in DOMAIN p.pages : <<k, i, p.pages[i]>> \in gone <=> i \in dups
      BY <1>7
    <3>2. dups \subseteq DOMAIN p.pages
      BY <1>1, <1>3
    <3>3. DOMAIN q.pages = DOMAIN p.pages
      BY <1>18
    <3>4. ClaimsOf(k, q.pages) =
            {<<k, i, p.pages[i]>> : i \in DOMAIN p.pages \ dups} \cup shared
      BY <1>7, <1>18, <3>2, <3>3 DEF ClaimsOf
    <3>5. ClaimsOf(k, p.pages) \ gone = {<<k, i, p.pages[i]>> : i \in DOMAIN p.pages \ dups}
      BY <3>1 DEF ClaimsOf
    <3> QED BY <3>4, <3>5
  <2>3. ClaimsOf(k, p.pages) \subseteq C
    BY <1>1 DEF ClaimsOf
  <2>4. C = (UNION {ClaimsOf(j, HolderOf(t, pl2, j).pages) : j \in Holding(st, pl) \ {k}})
              \cup ClaimsOf(k, p.pages)
    BY <1>1, <1>21 DEF C, ClaimsIn
  <2>5. ClaimsIn(t, pl2) =
            (UNION {ClaimsOf(j, HolderOf(t, pl2, j).pages) : j \in Holding(st, pl) \ {k}})
              \cup ClaimsOf(k, q.pages)
    BY <1>1, <1>20, <1>21 DEF ClaimsIn
  <2> QED BY <2>1, <2>2, <2>4, <2>5
<1>23. PartsIn(t, pl2) = P
  <2>1. \A j \in Holding(st, pl) : HolderOf(t, pl2, j).own = HolderOf(st, pl, j).own
    BY <1>1, <1>18, <1>21
  <2> QED BY <1>20, <2>1 DEF P, PartsIn
<1>24. PlansExact(t, pl2)
  <2>1. \A j \in HasPlan(pl2) :
          /\ pl2[j].key = j /\ j < t.next_key
          /\ DOMAIN pl2[j].pages = DOMAIN pl2[j].meta.pages
          /\ pl2[j].copies \subseteq DOMAIN pl2[j].pages
          /\ Cardinality(pl2[j].own) = pl2[j].meta.parts
    <3> SUFFICES ASSUME NEW j \in HasPlan(pl)
                 PROVE  /\ pl2[j].key = j /\ j < t.next_key
                        /\ DOMAIN pl2[j].pages = DOMAIN pl2[j].meta.pages
                        /\ pl2[j].copies \subseteq DOMAIN pl2[j].pages
                        /\ Cardinality(pl2[j].own) = pl2[j].meta.parts
      BY <1>19
    <3>1. CASE j = k
      BY <1>1, <1>5, <1>16, <1>18, <1>19, <3>1 DEF PlansExact, p
    <3>2. CASE j # k
      BY <1>5, <1>16, <1>19, <3>2 DEF PlansExact
    <3> QED BY <3>1, <3>2
  <2> QED BY <1>5, <1>16, <1>19, <1>20, <2>1 DEF PlansExact
<1>25. CopiesPrivate(t, pl2)
  <2> SUFFICES ASSUME NEW j \in HasPlan(pl) \ {k}, NEW i \in pl[j].copies
               PROVE  /\ device[pl[j].pages[i]] = NoId
                      /\ \A x \in On(C2, pl[j].pages[i]) : x = <<j, i, pl[j].pages[i]>>
    <3>1. ASSUME NEW j \in HasPlan(pl2), NEW i \in pl2[j].copies
          PROVE  j \in HasPlan(pl) \ {k} /\ pl2[j] = pl[j] /\ i \in pl[j].copies
      BY <1>18, <1>19
    <3> HIDE DEF C2
    <3> QED BY <1>16, <1>22, <3>1 DEF CopiesPrivate
  <2> DEFINE b == pl[j].pages[i]
  <2>1. st.device[b] = NoId /\ \A x \in On(C, b) : x = <<j, i, b>>
    BY <1>5 DEF CopiesPrivate, C
  <2>2. b \in Slab
    <3>1. pl[j].pages \in Seq(Slab) /\ i \in DOMAIN pl[j].pages
      BY <1>5 DEF PlansExact, HasPlan, PlanRecords
    <3> QED BY <3>1
  <2>3. \A n \in fresh : p.pages[n] # b
    <3>1. \A n \in fresh : <<k, n, p.pages[n]>> \in On(C, p.pages[n])
      BY <1>1, <1>14 DEF On
    <3> QED BY <2>1, <3>1
  <2>4. device[b] = NoId
    BY <1>11, <1>15, <2>1, <2>2, <2>3
  <2>5. \A x \in shared : x[3] # b
    BY <1>3, <1>7, <2>1
  <2> QED BY <2>1, <2>4, <2>5 DEF On
<1>26. BanksExact(t)
  BY <1>5, <1>16, <1>20 DEF BanksExact, Lists, Tokens
<1>27. StoreInv(t, pl2)
  BY <1>12, <1>16, <1>17, <1>22, <1>23, <1>24, <1>25, <1>26 DEF StoreInv
<1> QED BY <1>16, <1>19, <1>27 DEF t, pl2, p

\* The deepest ancestor exists and is one of the bank.
LEMMA DeepestFound ==
    ASSUME NEW st, NEW pl, StoreInv(st, pl), NEW meta \in Meta, Ancestors(st, meta) # {}
    PROVE  Deepest(st, meta) \in ToSet(st.bank[meta.kind])
<1> DEFINE found == Ancestors(st, meta)
           depths == {Len(Tokens(st, j)) : j \in found}
<1>1. meta.kind \in Kind /\ meta.tokens \in Seq(Nat) /\ Len(meta.tokens) \in Nat
  <2>1. meta.kind \in Kind /\ meta.tokens \in Seq(Nat)
    BY MetaShape
  <2> QED BY <2>1
<1>2. Lists(st, meta.kind, st.bank[meta.kind]) /\ st \in StoreRecords /\ PlansExact(st, pl)
  BY <1>1 DEF StoreInv, BanksExact
<1>3. \A j \in found : /\ j \in ToSet(st.bank[meta.kind]) /\ j \in Resident(st)
                       /\ IsPrefix(Tokens(st, j), meta.tokens)
  BY <1>2 DEF Ancestors, Lists
<1>4. \A j \in found : Len(Tokens(st, j)) \in Nat /\ Len(Tokens(st, j)) <= Len(meta.tokens)
  <2> SUFFICES ASSUME NEW j \in found
               PROVE  Len(Tokens(st, j)) \in Nat /\ Len(Tokens(st, j)) <= Len(meta.tokens)
    OBVIOUS
  <2>1. st.snapshots[j] \in SnapshotRecords
    BY <1>2, <1>3, Shapes
  <2>2. Tokens(st, j) \in Seq(Nat)
    BY <2>1, MetaShape DEF SnapshotRecords, Tokens
  <2>3. Len(Tokens(st, j)) <= Len(meta.tokens)
    BY <1>3 DEF IsPrefix
  <2> QED BY <2>2, <2>3
<1>5. \E j \in found : \A i \in found : Len(Tokens(st, i)) <= Len(Tokens(st, j))
  <2>1. depths \in SUBSET Nat /\ depths # {}
    BY <1>4
  <2>2. \A d \in depths : d <= Len(meta.tokens)
    BY <1>4
  <2>3. Max(depths) \in depths /\ \A d \in depths : Max(depths) >= d
    <3> HIDE DEF depths
    <3> QED BY <1>1, <2>1, <2>2, MaxProperties
  <2>4. PICK j \in found : Max(depths) = Len(Tokens(st, j))
    BY <2>3
  <2>5. \A i \in found : Len(Tokens(st, i)) <= Len(Tokens(st, j))
    BY <1>4, <2>3, <2>4
  <2> QED BY <2>5
<1>6. Deepest(st, meta) \in found
  BY <1>5 DEF Deepest
<1> QED BY <1>3, <1>6

\* Renewing the age of the deepest resident prefix keeps the invariant.
LEMMA DeepestKeeps ==
    ASSUME NEW st, NEW pl, StoreInv(st, pl), NEW meta \in Meta
    PROVE  /\ StoreInv(WithDeepestAccessed(st, meta), pl)
           /\ SameBooks(st, WithDeepestAccessed(st, meta))
           /\ WithDeepestAccessed(st, meta).snapshots = st.snapshots
<1>1. meta.kind \in Kind /\ st \in StoreRecords
  BY MetaShape DEF StoreInv
<1>2. CASE Ancestors(st, meta) = {}
  <2>1. \A n \in Kind : Injective(st.bank[n])
    BY DEF StoreInv, BanksExact, Lists
  <2> QED BY <1>1, <1>2, <2>1 DEF WithDeepestAccessed, SameBooks
<1>3. CASE Ancestors(st, meta) # {}
  <2> DEFINE n == meta.kind
             k == Deepest(st, meta)
  <2>1. k \in ToSet(st.bank[n])
    BY <1>3, DeepestFound
  <2>2. WithDeepestAccessed(st, meta) = [st EXCEPT !.bank[n] = Accessed(@, k)]
    BY <1>3 DEF WithDeepestAccessed
  <2> HIDE DEF n, k
  <2>3. n \in Kind
    BY <1>1 DEF n
  <2>4. LET t == [st EXCEPT !.bank[n] = Accessed(@, k)] IN
        SameBooks(st, t) /\ StoreInv(t, pl)
    BY ONLY StoreInv(st, pl), <2>1, <2>3, AccessedKeeps
  <2>5. [st EXCEPT !.bank[n] = Accessed(@, k)].snapshots = st.snapshots
    BY <1>1 DEF StoreRecords
  <2> QED BY <2>2, <2>4, <2>5
<1> QED BY <1>2, <1>3

\* The last step of commit_store: a settled plan becomes a resident snapshot.
SnapshotOfSettled(q) ==
    [resident |-> TRUE, meta |-> q.meta, own |-> q.own, pins |-> 0, pages |-> q.pages]

Installed(st, q) ==
    [st EXCEPT !.snapshots[q.key] = SnapshotOfSettled(q),
               !.bank[q.meta.kind] = Append(@, q.key)]

\* Making a plan resident keeps the invariant: its claims change hands, the slabs do not move.
LEMMA InstallKeeps ==
    ASSUME NEW st, NEW pl, StoreInv(st, pl), NEW k \in HasPlan(pl),
           pl[k].copies = {},
           \A j \in ToSet(st.bank[pl[k].meta.kind]) : Tokens(st, j) # pl[k].meta.tokens
    PROVE  StoreInv(Installed(st, pl[k]), [pl EXCEPT ![k] = Absent])
<1> DEFINE q == pl[k]
           n == q.meta.kind
           new == SnapshotOfSettled(q)
           pl2 == [pl EXCEPT ![k] = Absent]
           t == Installed(st, q)
           order == Append(st.bank[n], k)
<1>1. /\ st \in StoreRecords /\ PlansExact(st, pl) /\ MapExact(st) /\ CopiesPrivate(st, pl)
      /\ BanksExact(st) /\ Balanced(st.refs, st.free, ClaimsIn(st, pl), PartsIn(st, pl))
      /\ pl \in [Key -> PlanRecords \cup {Absent}]
  BY DEF StoreInv, PlansExact
<1>2. /\ k \in Key /\ q \in PlanRecords /\ q.key = k /\ k < st.next_key
      /\ k \notin Resident(st) /\ k \in Holding(st, pl) /\ q.meta \in Meta /\ n \in Kind
      /\ HolderOf(st, pl, k) = q
  BY <1>1, MetaShape DEF HasPlan, PlansExact, PlanRecords, Holding, HolderOf
<1>3. /\ new \in SnapshotRecords /\ new.resident /\ new.meta = q.meta
      /\ new.own = q.own /\ new.pages = q.pages
  BY <1>2 DEF SnapshotOfSettled, SnapshotRecords, PlanRecords
<1>4. t = [st EXCEPT !.snapshots = [st.snapshots EXCEPT ![k] = new],
                     !.bank = [st.bank EXCEPT ![n] = order]]
  BY <1>1, <1>2 DEF Installed, StoreRecords
<1>5. /\ Lists(st, n, st.bank[n])
      /\ \A j \in ToSet(st.bank[n]) : j \in Resident(st) /\ st.snapshots[j].meta.kind = n
  BY <1>1, <1>2 DEF BanksExact, Lists
<1> HIDE DEF q, n, new, pl2, t
<1>6. /\ order \in Seq(Key) /\ Injective(order)
      /\ ToSet(order) = ToSet(st.bank[n]) \cup {k}
  <2>1. st.bank[n] \in Seq(Key) /\ Injective(st.bank[n]) /\ k \notin ToSet(st.bank[n])
    BY <1>2, <1>5 DEF Lists
  <2> QED BY <1>2, <2>1, AppendFacts
<1> HIDE DEF order
<1>7. /\ t \in StoreRecords
      /\ t.free = st.free /\ t.refs = st.refs /\ t.map = st.map /\ t.device = st.device
      /\ t.next_key = st.next_key
      /\ t.snapshots = [st.snapshots EXCEPT ![k] = new]
      /\ t.bank = [st.bank EXCEPT ![n] = order]
  <2>1. [st.snapshots EXCEPT ![k] = new] \in [Key -> SnapshotRecords \cup {Absent}]
    BY <1>1, <1>2, <1>3 DEF StoreRecords
  <2>2. [st.bank EXCEPT ![n] = order] \in [Kind -> Seq(Key)]
    BY <1>1, <1>6 DEF StoreRecords
  <2> QED BY <1>1, <1>4, <2>1, <2>2 DEF StoreRecords
<1>8. /\ t.snapshots[k] = new
      /\ \A j \in Key \ {k} : t.snapshots[j] = st.snapshots[j]
      /\ t.bank[n] = order
      /\ \A j \in Kind \ {n} : t.bank[j] = st.bank[j]
  BY <1>1, <1>2, <1>7 DEF StoreRecords
<1>9. Resident(t) = Resident(st) \cup {k}
  BY <1>2, <1>3, <1>8 DEF Resident
<1>10. /\ HasPlan(pl2) = HasPlan(pl) \ {k}
       /\ \A j \in HasPlan(pl2) : j \in HasPlan(pl) /\ pl2[j] = pl[j]
       /\ pl2 \in [Key -> PlanRecords \cup {Absent}]
  BY <1>1, <1>2 DEF HasPlan, pl2
<1>11. ClaimsIn(t, pl2) = ClaimsIn(st, pl) /\ PartsIn(t, pl2) = PartsIn(st, pl)
  <2>1. Holding(t, pl2) = Holding(st, pl)
    BY <1>2, <1>9, <1>10 DEF Holding
  <2>2. SamePages(st, pl, t, pl2, Holding(st, pl))
    <3> SUFFICES ASSUME NEW j \in Holding(st, pl)
                 PROVE  /\ HolderOf(t, pl2, j).pages = HolderOf(st, pl, j).pages
                        /\ HolderOf(t, pl2, j).own = HolderOf(st, pl, j).own
      BY DEF SamePages
    <3>1. CASE j = k
      <4>1. HolderOf(t, pl2, j) = new
        BY <1>8, <1>10, <3>1 DEF HolderOf
      <4> QED BY <1>2, <1>3, <3>1, <4>1
    <3>2. CASE j # k
      <4>1. j \in Key
        BY DEF Holding, HasPlan, Resident
      <4> QED BY <1>8, <1>10, <3>2, <4>1 DEF HolderOf
    <3> QED BY <3>1, <3>2
  <2> QED BY ONLY <2>1, <2>2, SameHolders
<1>12. PlansExact(t, pl2)
  <2>1. DOMAIN new.pages = DOMAIN new.meta.pages /\ Cardinality(new.own) = new.meta.parts
    BY <1>1, <1>3 DEF PlansExact, q
  <2>2. \A j \in Resident(st) : t.snapshots[j] = st.snapshots[j]
    BY <1>2, <1>8 DEF Resident
  <2>3. \A j \in Resident(t) :
           /\ j < t.next_key
           /\ Cardinality(t.snapshots[j].own) = t.snapshots[j].meta.parts
           /\ DOMAIN t.snapshots[j].pages = DOMAIN t.snapshots[j].meta.pages
    BY <1>1, <1>2, <1>7, <1>8, <1>9, <2>1, <2>2 DEF PlansExact
  <2> QED BY <1>1, <1>2, <1>7, <1>9, <1>10, <2>3 DEF PlansExact
<1>13. MapExact(t)
  BY <1>1, <1>7 DEF MapExact
<1>14. CopiesPrivate(t, pl2)
  <2>1. ClaimsIn(t, pl2) \subseteq ClaimsIn(st, pl)
    BY <1>11
  <2>2. \A b \in Slab : t.device[b] \in {st.device[b], NoId}
    BY <1>7
  <2> QED BY ONLY <1>1, <1>10, <2>1, <2>2, StillPrivate
<1>15. BanksExact(t)
  <2>1. \A j \in Resident(st) : j # k /\ t.snapshots[j] = st.snapshots[j]
                                /\ Tokens(t, j) = Tokens(st, j)
    BY <1>2, <1>8 DEF Resident, Tokens
  <2>2. Tokens(t, k) = q.meta.tokens /\ t.snapshots[k].meta.kind = n
    BY <1>3, <1>8 DEF Tokens, n
  <2>3. Lists(t, n, order)
    <3>1. ToSet(order) = {j \in Resident(t) : t.snapshots[j].meta.kind = n}
      <4>1. ToSet(st.bank[n]) = {j \in Resident(st) : st.snapshots[j].meta.kind = n}
        BY <1>5 DEF Lists
      <4> QED BY <1>6, <1>9, <2>1, <2>2, <4>1
    <3>2. \A j, i \in ToSet(order) : Tokens(t, j) = Tokens(t, i) => j = i
      <4>1. \A j \in ToSet(st.bank[n]) : Tokens(t, j) = Tokens(st, j)
                                         /\ Tokens(st, j) # q.meta.tokens
        BY <1>5, <2>1 DEF n, q
      <4>2. \A j, i \in ToSet(st.bank[n]) : Tokens(st, j) = Tokens(st, i) => j = i
        BY <1>5 DEF Lists
      <4> QED BY <1>6, <2>2, <4>1, <4>2
    <3> QED BY <1>6, <3>1, <3>2 DEF Lists
  <2>4. ASSUME NEW m \in Kind \ {n} PROVE Lists(t, m, st.bank[m])
    <3>1. Lists(st, m, st.bank[m])
      BY <1>1 DEF BanksExact
    <3>2. ToSet(st.bank[m]) = {j \in Resident(t) : t.snapshots[j].meta.kind = m}
      BY <1>9, <2>1, <2>2, <3>1 DEF Lists
    <3>3. \A j, i \in ToSet(st.bank[m]) : Tokens(t, j) = Tokens(t, i) => j = i
      BY <2>1, <3>1 DEF Lists
    <3> QED BY <3>1, <3>2, <3>3 DEF Lists
  <2> QED BY <1>8, <2>3, <2>4 DEF BanksExact
<1>16. StoreInv(t, pl2)
  BY <1>1, <1>7, <1>11, <1>12, <1>13, <1>14, <1>15 DEF StoreInv
<1> QED BY <1>16 DEF t, pl2, q

\* commit_store: the plan becomes resident in the place of what it replaces.
LEMMA CommittedKeeps ==
    ASSUME NEW st, NEW pl, StoreInv(st, pl), NEW k \in HasPlan(pl)
    PROVE  LET t == Committed(st, pl[k])
               old == Replaced(st, pl[k].meta)
           IN  /\ StoreInv(t, [pl EXCEPT ![k] = Absent])
               /\ old \subseteq Resident(st)
               /\ Resident(t) = (Resident(st) \ old) \cup {k}
               /\ t.snapshots[k].meta = pl[k].meta /\ t.snapshots[k].pins = 0
               /\ \A j \in Resident(st) \ old : t.snapshots[j] = st.snapshots[j]
               /\ t.next_key = st.next_key
<1> DEFINE p == pl[k]
           q == FinalPages(st, p)
           n == p.meta.kind
           m1 == MapCopiedPages(st, p)
           mapped == WithDeepestAccessed(m1, p.meta)
           old == Replaced(st, p.meta)
           cleared == IF old = {} THEN mapped ELSE Removed(mapped, CHOOSE j \in old : TRUE)
           t == Committed(st, p)
           pl2 == [pl EXCEPT ![k] = q]
           pl3 == [pl EXCEPT ![k] = Absent]
<1>1. /\ p \in PlanRecords /\ k \in Key /\ p.meta \in Meta /\ n \in Kind /\ p.key = k
      /\ pl \in [Key -> PlanRecords \cup {Absent}]
      /\ BanksExact(st) /\ Lists(st, n, st.bank[n])
  <2>1. p \in PlanRecords /\ k \in Key /\ p.meta \in Meta
    BY CopiesOf
  <2>2. n \in Kind
    BY <2>1, MetaShape
  <2> QED BY <2>1, <2>2 DEF StoreInv, PlansExact, BanksExact
<1>2. /\ StoreInv(m1, pl2) /\ HasPlan(pl2) = HasPlan(pl)
      /\ m1.snapshots = st.snapshots /\ m1.bank = st.bank /\ m1.next_key = st.next_key
  BY MapCopiedKeeps
<1>3. /\ q.copies = {} /\ q.meta = p.meta /\ q.key = k
      /\ SnapshotOfSettled(q) = SnapshotOf(st, p)
      /\ pl2[k] = q
      /\ [pl2 EXCEPT ![k] = Absent] = pl3
  <2>1. /\ q.copies = {} /\ q.meta = p.meta /\ q.key = k /\ q.own = p.own
        /\ q.pages = SnapshotOf(st, p).pages
    BY <1>1 DEF FinalPages, PlanRecords
  <2>2. SnapshotOfSettled(q) = SnapshotOf(st, p)
    <3> HIDE DEF q
    <3> QED BY <2>1 DEF SnapshotOfSettled, SnapshotOf
  <2> HIDE DEF q
  <2> QED BY <1>1, <2>1, <2>2
<1> HIDE DEF m1, pl2, q, p
<1>4. /\ StoreInv(mapped, pl2) /\ SameBooks(m1, mapped) /\ mapped.snapshots = st.snapshots
  BY <1>1, <1>2, DeepestKeeps
<1> HIDE DEF mapped
<1>5. /\ mapped.next_key = st.next_key /\ Resident(mapped) = Resident(st)
      /\ ToSet(mapped.bank[n]) = ToSet(st.bank[n])
  BY <1>1, <1>2, <1>4 DEF SameBooks, Resident
<1>6. /\ old \subseteq Resident(st) /\ \A i, j \in old : i = j
      /\ \A j \in ToSet(st.bank[n]) \ old : Tokens(st, j) # p.meta.tokens
      /\ \A j \in ToSet(st.bank[n]) : j \in Resident(st)
  BY <1>1 DEF Replaced, Lists
<1>7. /\ StoreInv(cleared, pl2) /\ Resident(cleared) = Resident(st) \ old
      /\ \A j \in Resident(cleared) : cleared.snapshots[j] = st.snapshots[j]
      /\ cleared.next_key = st.next_key
      /\ cleared \in StoreRecords
  <2>1. CASE old = {}
    BY <1>4, <1>5, <2>1 DEF StoreInv
  <2>2. CASE old # {}
    <3> DEFINE o == CHOOSE j \in old : TRUE
    <3>1. o \in old /\ old = {o} /\ o \in Resident(mapped)
      BY <1>5, <1>6, <2>2
    <3>2. cleared = Removed(mapped, o)
      BY <2>2
    <3> HIDE DEF o, cleared, old
    <3>3. /\ StoreInv(Removed(mapped, o), pl2)
          /\ Resident(Removed(mapped, o)) = Resident(mapped) \ {o}
          /\ \A j \in Resident(mapped) \ {o} :
                Removed(mapped, o).snapshots[j] = mapped.snapshots[j]
          /\ Removed(mapped, o).next_key = mapped.next_key
      BY <1>4, <3>1, RemovedKeeps
    <3>4. StoreInv(cleared, pl2) /\ Resident(cleared) = Resident(st) \ old
      BY <1>5, <3>1, <3>2, <3>3
    <3>5. \A j \in Resident(cleared) : cleared.snapshots[j] = st.snapshots[j]
      BY <1>4, <1>5, <3>1, <3>2, <3>3
    <3> QED BY <1>5, <3>2, <3>3, <3>4, <3>5 DEF StoreInv
  <2> QED BY <2>1, <2>2
<1>8. t = Installed(cleared, q)
  BY <1>1, <1>3 DEF Committed, Installed, mapped, m1
<1> HIDE DEF cleared, t, old, pl3
<1>9. \A j \in ToSet(cleared.bank[n]) : Tokens(cleared, j) # p.meta.tokens
  <2> SUFFICES ASSUME NEW j \in ToSet(cleared.bank[n]), Tokens(cleared, j) = p.meta.tokens
               PROVE  FALSE
    OBVIOUS
  <2>1. Lists(cleared, n, cleared.bank[n])
    BY <1>1, <1>7 DEF StoreInv, BanksExact
  <2>2. j \in Resident(cleared) /\ cleared.snapshots[j].meta.kind = n
    BY <2>1 DEF Lists
  <2>3. j \in Resident(st) \ old /\ cleared.snapshots[j] = st.snapshots[j]
    BY <1>7, <2>2
  <2>4. j \in ToSet(st.bank[n]) /\ Tokens(st, j) = p.meta.tokens
    BY <1>1, <2>2, <2>3 DEF Lists, Tokens
  <2> QED BY <1>6, <2>3, <2>4
<1>10. StoreInv(t, pl3)
  <2>1. k \in HasPlan(pl2) /\ pl2[k].copies = {}
    BY <1>2, <1>3
  <2>2. \A j \in ToSet(cleared.bank[pl2[k].meta.kind]) : Tokens(cleared, j) # pl2[k].meta.tokens
    BY <1>3, <1>9
  <2>3. StoreInv(cleared, pl2)
    BY <1>7
  <2>4. StoreInv(Installed(cleared, pl2[k]), [pl2 EXCEPT ![k] = Absent])
    BY ONLY <2>1, <2>2, <2>3, InstallKeeps
  <2> QED BY <1>3, <1>8, <2>4
<1>11. /\ t.snapshots = [cleared.snapshots EXCEPT ![k] = SnapshotOfSettled(q)]
       /\ t.next_key = st.next_key
  <2>1. t = [cleared EXCEPT !.snapshots[q.key] = SnapshotOfSettled(q),
                            !.bank[q.meta.kind] = Append(@, q.key)]
    BY <1>8 DEF Installed
  <2> QED BY <1>3, <1>7, <2>1 DEF StoreRecords
<1>12. /\ SnapshotOfSettled(q).meta = p.meta /\ SnapshotOfSettled(q).pins = 0
       /\ SnapshotOfSettled(q).resident
  BY <1>3 DEF SnapshotOfSettled
<1>13. /\ t.snapshots[k] = SnapshotOfSettled(q)
       /\ \A j \in Key \ {k} : t.snapshots[j] = cleared.snapshots[j]
  BY <1>1, <1>7, <1>11 DEF StoreRecords
<1>14. k \notin Resident(st)
  BY DEF StoreInv, PlansExact
<1>15. Resident(t) = (Resident(st) \ old) \cup {k}
  <2>1. \A j \in Key \ {k} : j \in Resident(t) <=> j \in Resident(cleared)
    BY <1>13 DEF Resident
  <2>2. k \in Resident(t)
    BY <1>1, <1>12, <1>13 DEF Resident
  <2>3. \A j \in Resident(t) \cup Resident(cleared) : j \in Key
    BY DEF Resident
  <2> QED BY <1>7, <1>14, <2>1, <2>2, <2>3
<1>16. \A j \in Resident(st) \ old : t.snapshots[j] = st.snapshots[j]
  BY <1>7, <1>13, <1>14 DEF Resident
<1> QED BY <1>6, <1>10, <1>11, <1>12, <1>13, <1>15, <1>16 DEF t, pl3, old, p

\* What an eviction takes is resident and not pinned.
LEMMA VictimFound ==
    ASSUME NEW st, BanksExact(st), CanEvict(st)
    PROVE  Victim(st) \in Resident(st) /\ st.snapshots[Victim(st)].pins = 0
<1> DEFINE n == IF Unpinned(st, "prompt") # {} THEN "prompt" ELSE "turn"
           i == Min(Unpinned(st, n))
<1>1. n \in Kind /\ Unpinned(st, n) # {}
  BY DEF CanEvict, Kind
<1>2. Victim(st) = st.bank[n][i]
  BY DEF Victim
<1> HIDE DEF n
<1>3. st.bank[n] \in Seq(Key) /\ ToSet(st.bank[n]) \subseteq Resident(st)
  BY <1>1 DEF BanksExact, Lists
<1>4. DOMAIN st.bank[n] = 1..Len(st.bank[n])
  BY <1>3
<1>5. Unpinned(st, n) \in SUBSET Nat
  BY <1>4 DEF Unpinned
<1>6. i \in Unpinned(st, n)
  BY <1>1, <1>5, MinProperties
<1> HIDE DEF i
<1>7. st.bank[n][i] \in ToSet(st.bank[n])
  BY <1>3, <1>4, <1>6, SequenceFacts DEF Unpinned
<1> QED BY <1>2, <1>3, <1>6, <1>7 DEF Unpinned

-----------------------------------------------------------------------------
(* The invariant of the specification and what it implies. *)

\* The empty store satisfies the inductive invariant.
LEMMA InitStoreInv == Init => StoreInv(store, plans)
<1> SUFFICES ASSUME Init PROVE StoreInv(store, plans)
  OBVIOUS
<1> USE DEF Init
<1>1. Resident(store) = {} /\ HasPlan(plans) = {} /\ Holding(store, plans) = {}
  BY DEF Resident, HasPlan, Holding, Absent
<1>2. ClaimsIn(store, plans) = {} /\ PartsIn(store, plans) = {}
  BY <1>1 DEF ClaimsIn, PartsIn
<1>3. store \in StoreRecords
  <2>1. <<>> \in Seq(Key) /\ 0 \in 0..MaxKeys
    BY StoreShape
  <2>2. [n \in Kind |-> <<>>] \in [Kind -> Seq(Key)]
    BY <2>1
  <2>3. [b \in Slab |-> 0] \in [Slab -> Nat]
    OBVIOUS
  <2> QED BY <2>1, <2>2, <2>3 DEF StoreRecords
<1>4. PlansExact(store, plans)
  BY <1>1 DEF PlansExact
<1>5. Balanced(store.refs, store.free, {}, {})
  <2>1. IsFiniteSet({}) /\ Cardinality({}) = 0
    BY FS_EmptySet
  <2>2. \A b : On({}, b) = {}
    BY DEF On
  <2>3. store.free = Slab /\ \A b \in Slab : store.refs[b] = 0
    OBVIOUS
  <2> HIDE DEF Init
  <2> QED BY <2>1, <2>2, <2>3 DEF Balanced
<1>6. MapExact(store)
  BY DEF MapExact
<1>7. CopiesPrivate(store, plans)
  BY <1>1 DEF CopiesPrivate
<1>8. BanksExact(store)
  <2>1. <<>> \in Seq(Key) /\ Injective(<<>>) /\ ToSet(<<>>) = {}
    BY DEF Injective, ToSet
  <2>2. \A n \in Kind : store.bank[n] = <<>>
    OBVIOUS
  <2> HIDE DEF Init
  <2> QED BY <1>1, <2>1, <2>2 DEF BanksExact, Lists
<1> QED BY <1>2, <1>3, <1>4, <1>5, <1>6, <1>7, <1>8 DEF StoreInv

\* Every step of the store keeps the inductive invariant.
LEMMA NextStoreInv == StoreInv(store, plans) /\ [Next]_svars => StoreInv(store, plans)'
<1> SUFFICES ASSUME StoreInv(store, plans), [Next]_svars
             PROVE  StoreInv(store', plans')
  BY DEF StoreInv, StoreRecords, PlansExact, MapExact, CopiesPrivate, BanksExact, Lists,
         Balanced, ClaimsIn, PartsIn, Holding, HolderOf, HasPlan, Resident, Tokens
<1>1. ASSUME NEW m \in Meta, PlanStore(m) PROVE StoreInv(store', plans')
  <2>1. store.next_key < MaxKeys
    BY <1>1 DEF PlanStore
  <2>2. PICK plan \in PlansFor(store, m) :
           store' = Planned(store, plan) /\ plans' = [plans EXCEPT ![plan.key] = plan]
    BY <1>1 DEF PlanStore
  <2>3. StoreInv(Planned(store, plan), [plans EXCEPT ![plan.key] = plan])
    BY <2>1, PlannedKeeps
  <2> QED BY <2>2, <2>3
<1>2. ASSUME NEW k \in Key, CommitStore(k) PROVE StoreInv(store', plans')
  <2>1. k \in HasPlan(plans)
    BY <1>2 DEF CommitStore, Outstanding, HasPlan
  <2> QED BY <1>2, <2>1, CommittedKeeps DEF CommitStore
<1>3. ASSUME NEW k \in Key, AbortStore(k) PROVE StoreInv(store', plans')
  <2>1. k \in HasPlan(plans)
    BY <1>3 DEF AbortStore, Outstanding, HasPlan
  <2> QED BY <1>3, <2>1, AbortedKeeps DEF AbortStore
<1>4. ASSUME NEW k \in Resident(store), Lookup(k) PROVE StoreInv(store', plans')
  <2> DEFINE n == store.snapshots[k].meta.kind
  <2>1. n \in Kind /\ k \in ToSet(store.bank[n])
    <3>1. store.snapshots[k].meta \in Meta
      BY Shapes DEF StoreInv, SnapshotRecords
    <3>2. n \in Kind
      BY <3>1, MetaShape
    <3> QED BY <3>2 DEF StoreInv, BanksExact, Lists
  <2>2. store' = [store EXCEPT !.bank[n] = Accessed(@, k)] /\ plans' = plans
    BY <1>4 DEF Lookup
  <2> HIDE DEF n
  <2>3. LET t == [store EXCEPT !.bank[n] = Accessed(@, k)] IN
        SameBooks(store, t) /\ StoreInv(t, plans)
    BY <2>1, AccessedKeeps
  <2> QED BY <2>2, <2>3
<1>5. ASSUME NEW k \in Resident(store), Pin(k) \/ Unpin(k) PROVE StoreInv(store', plans')
  <2>1. store.snapshots[k].pins \in Nat
    BY Shapes DEF StoreInv, SnapshotRecords
  <2>2. PICK n \in {1, -1} : /\ store' = WithPins(store, k, n) /\ plans' = plans
                             /\ store.snapshots[k].pins + n \in Nat
    BY <1>5, <2>1 DEF Pin, Unpin
  <2> QED BY <2>2, WithPinsKeeps
<1>6. ASSUME NEW k \in Resident(store), RemoveSnapshot(k) PROVE StoreInv(store', plans')
  BY <1>6, RemovedKeeps DEF RemoveSnapshot
<1>7. ASSUME NEW k \in Resident(store), NEW i \in 1..Cardinality(PageId),
             NEW id \in PageId, RegisterDevicePage(k, i, id)
      PROVE  StoreInv(store', plans')
  BY <1>7, RegisteredKeeps DEF RegisterDevicePage
<1>8. CASE EvictOne
  <2>1. Victim(store) \in Resident(store)
    BY <1>8, VictimFound DEF EvictOne, StoreInv
  <2> QED BY <1>8, <2>1, RemovedKeeps DEF EvictOne
<1>9. ASSUME NEW id \in PageId, DevicePageFreed(id) PROVE StoreInv(store', plans')
  BY <1>9, FreedKeeps DEF DevicePageFreed
<1>10. CASE UNCHANGED svars
  BY <1>10 DEF svars
<1> QED BY <1>1, <1>2, <1>3, <1>4, <1>5, <1>6, <1>7, <1>8, <1>9, <1>10 DEF Next

\* Every reachable store satisfies the invariant with its outstanding plans.
THEOREM StoreInvariant == Spec => []StoreInv(store, plans)
BY InitStoreInv, NextStoreInv, PTL DEF Spec

\* The inductive invariant gives the types.
LEMMA InvTypeOK == StoreInv(store, plans) => TypeOK
<1> SUFFICES ASSUME StoreInv(store, plans) PROVE TypeOK
  OBVIOUS
<1>1. store \in StoreRecords /\ PlansExact(store, plans)
  BY DEF StoreInv
<1>2. Outstanding = HasPlan(plans)
  BY DEF Outstanding, HasPlan
<1>3. \A k \in Resident(store) : store.snapshots[k] \in SnapshotRecords
  BY <1>1, Shapes
<1>4. \A k \in HasPlan(plans) :
         /\ plans[k] \in PlanRecords /\ plans[k].key = k
         /\ plans[k].copies \subseteq DOMAIN plans[k].pages
  BY <1>1, Shapes DEF PlansExact
<1> QED BY <1>1, <1>2, <1>3, <1>4 DEF TypeOK, StoreRecords, SnapshotRecords, PlanRecords

\* The inductive invariant gives the account of the slabs.
LEMMA InvSlabsAccounted == StoreInv(store, plans) => SlabsAccounted
<1> SUFFICES ASSUME StoreInv(store, plans) PROVE SlabsAccounted
  OBVIOUS
<1> DEFINE C == ClaimsIn(store, plans)
           P == PartsIn(store, plans)
<1>1. /\ store \in StoreRecords /\ PlansExact(store, plans)
      /\ Balanced(store.refs, store.free, C, P)
  BY DEF StoreInv
<1>2. Outstanding = HasPlan(plans) /\ Holders = Holding(store, plans)
  BY DEF Outstanding, HasPlan, Holders, Holding
<1>3. \A k \in Holders : Holder(k) = HolderOf(store, plans, k)
  BY <1>2 DEF Holder, HolderOf
<1>4. Resident(store) \cap Outstanding = {}
  BY <1>1, <1>2 DEF PlansExact
<1>5. ASSUME NEW b \in Slab
      PROVE  /\ store.refs[b] = Cardinality(References(b))
             /\ (IF b \in store.free THEN 1 ELSE 0) + Cardinality(OwnersOf(b))
                   + (IF store.refs[b] > 0 THEN 1 ELSE 0) = 1
  <2>1. store.refs[b] = Cardinality(On(C, b)) /\ IsFiniteSet(On(C, b))
        /\ store.refs[b] \in Nat /\ (store.refs[b] = 0 <=> On(C, b) = {})
    <3>1. store.refs[b] = Cardinality(On(C, b)) /\ IsFiniteSet(C)
      BY <1>1 DEF Balanced
    <3> HIDE DEF C
    <3> QED BY <3>1, OnIsCounted
  <2>2. Cardinality(References(b)) = Cardinality(On(C, b))
    <3> DEFINE f == [x \in On(C, b) |-> <<x[1], x[2]>>]
    <3>1. \A x : x \in On(C, b) <=>
              \E k \in Holders : \E i \in DOMAIN Holder(k).pages :
                  Holder(k).pages[i] = b /\ x = <<k, i, b>>
      <4>1. \A x : x \in On(C, b) <=>
               \E k \in Holders : x \in ClaimsOf(k, Holder(k).pages) /\ x[3] = b
        BY <1>2, <1>3 DEF On, ClaimsIn
      <4>2. \A x, k : x \in ClaimsOf(k, Holder(k).pages) /\ x[3] = b <=>
               \E i \in DOMAIN Holder(k).pages :
                  Holder(k).pages[i] = b /\ x = <<k, i, b>>
        BY DEF ClaimsOf
      <4> QED BY <4>1, <4>2
    <3>2. \A z : z \in References(b) <=>
              \E k \in Holders : \E i \in DOMAIN Holder(k).pages :
                  Holder(k).pages[i] = b /\ z = <<k, i>>
      BY DEF References
    <3>3. f \in [On(C, b) -> References(b)]
      BY <3>1, <3>2
    <3>4. \A x, y \in On(C, b) : f[x] = f[y] => x = y
      BY <3>1
    <3>5. \A z \in References(b) : \E x \in On(C, b) : f[x] = z
      <4> SUFFICES ASSUME NEW z \in References(b) PROVE \E x \in On(C, b) : f[x] = z
        OBVIOUS
      <4>1. PICK k \in Holders : \E i \in DOMAIN Holder(k).pages :
                  Holder(k).pages[i] = b /\ z = <<k, i>>
        BY <3>2
      <4>2. PICK i \in DOMAIN Holder(k).pages : Holder(k).pages[i] = b /\ z = <<k, i>>
        BY <4>1
      <4>3. <<k, i, b>> \in On(C, b)
        BY <3>1, <4>2
      <4>4. f[<<k, i, b>>] = z
        BY <4>2, <4>3
      <4> QED BY <4>3, <4>4
    <3> HIDE DEF f, C
    <3> QED BY <2>1, <3>3, <3>4, <3>5, SameCount
  <2>3. \A k : k \in OwnersOf(b) <=> <<k, b>> \in P
    BY <1>2, <1>3 DEF OwnersOf, PartsIn
  <2>4. /\ b \in store.free => On(C, b) = {} /\ \A k \in Key : <<k, b>> \notin P
        /\ \A k : <<k, b>> \in P => k \in Key /\ On(C, b) = {}
        /\ \A j, k : <<j, b>> \in P /\ <<k, b>> \in P => j = k
        /\ b \in store.free \/ On(C, b) # {} \/ \E k \in Key : <<k, b>> \in P
    <3> HIDE DEF C, P
    <3>1. \A k : <<k, b>> \in P => k \in Key /\ On(C, b) = {}
      <4> SUFFICES ASSUME NEW k, <<k, b>> \in P PROVE k \in Key /\ On(C, b) = {}
        OBVIOUS
      <4>1. k \in Key
        BY <1>1 DEF Balanced
      <4>2. On(C, <<k, b>>[2]) = {}
        BY <1>1 DEF Balanced
      <4> QED BY <4>1, <4>2
    <3>2. \A j, k : <<j, b>> \in P /\ <<k, b>> \in P => j = k
      <4> SUFFICES ASSUME NEW j, NEW k, <<j, b>> \in P, <<k, b>> \in P PROVE j = k
        OBVIOUS
      <4>1. <<j, b>>[2] = <<k, b>>[2] => <<j, b>> = <<k, b>>
        BY <1>1 DEF Balanced
      <4> QED BY <4>1
    <3> QED BY <1>1, <3>1, <3>2 DEF Balanced
  <2>5. CASE \E k : <<k, b>> \in P
    <3>1. PICK k : <<k, b>> \in P
      BY <2>5
    <3>2. OwnersOf(b) = {k}
      BY <2>3, <2>4, <3>1
    <3>3. Cardinality(OwnersOf(b)) = 1
      BY <3>2, FS_Singleton
    <3>4. b \notin store.free /\ store.refs[b] = 0
      BY <2>1, <2>4, <3>1
    <3> QED BY <2>1, <2>2, <3>3, <3>4
  <2>6. CASE \A k : <<k, b>> \notin P
    <3>1. OwnersOf(b) = {}
      BY <2>3, <2>6
    <3>2. Cardinality(OwnersOf(b)) = 0
      BY <3>1, FS_EmptySet
    <3>3. b \in store.free <=> store.refs[b] = 0
      BY <2>1, <2>4, <2>6
    <3> QED BY <2>1, <2>2, <3>2, <3>3
  <2> QED BY <2>5, <2>6
<1> QED BY <1>4, <1>5 DEF SlabsAccounted

\* The inductive invariant gives the agreement of banks and residents.
LEMMA InvBanks == StoreInv(store, plans) => BanksListResidents
<1> SUFFICES ASSUME StoreInv(store, plans), NEW n \in Kind
             PROVE  /\ ToSet(store.bank[n]) =
                          {k \in Resident(store) : store.snapshots[k].meta.kind = n}
                    /\ \A i, j \in DOMAIN store.bank[n] :
                          Tokens(store, store.bank[n][i]) = Tokens(store, store.bank[n][j])
                              => i = j
  BY DEF BanksListResidents
<1>1. Lists(store, n, store.bank[n])
  BY DEF StoreInv, BanksExact
<1>2. \A i \in DOMAIN store.bank[n] : i \in 1..Len(store.bank[n])
                                      /\ store.bank[n][i] \in ToSet(store.bank[n])
  BY <1>1, SequenceFacts DEF Lists
<1> QED BY <1>1, <1>2 DEF Lists, Injective

\* The variables of the host snapshot store keep their types for every number of slabs, keys
\* and pages.
THEOREM StoreTypeOK == Spec => []TypeOK
BY StoreInvariant, InvTypeOK, PTL

\* No slab is lost or used twice: a slab is free, one holder's part, or a page
\* with as many references as there are (snapshot.rs:116).
THEOREM StoreSlabsAccounted == Spec => []SlabsAccounted
BY StoreInvariant, InvSlabsAccounted, PTL

\* The host page index and the device identities of host pages are inverse to
\* each other, and no released page is in them.
THEOREM StoreMapExact == Spec => []IdentityMapExact
<1>1. StoreInv(store, plans) => IdentityMapExact
  BY DEF StoreInv, MapExact, IdentityMapExact
<1> QED BY <1>1, StoreInvariant, PTL

\* The radix banks list the resident snapshots, each once, one per token list.
THEOREM StoreBanksExact == Spec => []BanksListResidents
BY StoreInvariant, InvBanks, PTL

=============================================================================
