--------------------------- MODULE HostCacheProofs ---------------------------
(***************************************************************************)
(* The host cache above its store: whatever way a store ends, the snapshot *)
(* store's invariant holds, payloads follow snapshots, each ticket is      *)
(* reported once and no plan is forgotten, for any number of slabs, pages, *)
(* buffers and stores.                                                     *)
(***************************************************************************)
EXTENDS HostCache, HostSnapshotsProofs

-----------------------------------------------------------------------------
(* The three loops of the model are recursive functions on 0..n; that each *)
(* has a value for every n is proved by induction on n.                    *)

Evictions(st, n, f) ==
    f = [i \in 0..n |-> IF i = 0 THEN st ELSE Removed(f[i - 1], Victim(f[i - 1]))]

\* The function of "the store after i evictions" exists, for every number of evictions.
LEMMA EvictionsExist == ASSUME NEW st, NEW n \in Nat PROVE \E f : Evictions(st, n, f)
<1> DEFINE T == {m \in Nat : \E f : Evictions(st, m, f)}
<1>1. 0 \in T
  <2>1. Evictions(st, 0, [i \in 0..0 |-> st])
    BY DEF Evictions
  <2> QED BY <2>1
<1>2. ASSUME NEW m \in Nat, m \in T PROVE m + 1 \in T
  <2>1. PICK f : Evictions(st, m, f)
    BY <1>2
  <2> DEFINE g == [i \in 0..m + 1 |->
                      IF i = m + 1 THEN Removed(f[m], Victim(f[m])) ELSE f[i]]
  <2>2. \A i \in 0..m : f[i] = IF i = 0 THEN st ELSE Removed(f[i - 1], Victim(f[i - 1]))
    BY <2>1 DEF Evictions
  <2>3. \A i \in 0..m + 1 :
           g[i] = IF i = 0 THEN st ELSE Removed(g[i - 1], Victim(g[i - 1]))
    BY <2>2
  <2>4. Evictions(st, m + 1, g)
    <3>1. g = [i \in 0..m + 1 |-> g[i]]
      OBVIOUS
    <3> HIDE DEF g
    <3> QED BY <2>3, <3>1 DEF Evictions
  <2> QED BY <2>4
<1> HIDE DEF T
<1>3. n \in T
  BY <1>1, <1>2, SetInduction
<1> QED BY <1>3 DEF T

\* EvictedFirst(st, n) is st after n removals, each of the least recently used resident
\* snapshot.
LEMMA EvictedFirstFacts ==
    ASSUME NEW st, NEW n \in Nat
    PROVE  \E f : /\ EvictedFirst(st, n) = f[n]
                  /\ f[0] = st
                  /\ \A i \in 1..n : f[i] = Removed(f[i - 1], Victim(f[i - 1]))
<1> DEFINE f == CHOOSE f : Evictions(st, n, f)
<1>1. Evictions(st, n, f)
  BY EvictionsExist
<1>2. EvictedFirst(st, n) = f[n]
  BY DEF EvictedFirst, Evictions
<1> HIDE DEF f
<1>3. /\ f[0] = st
      /\ \A i \in 1..n : f[i] = Removed(f[i - 1], Victim(f[i - 1]))
  BY <1>1 DEF Evictions
<1> QED BY <1>2, <1>3

-----------------------------------------------------------------------------
(* Making room for a store. *)

\* Releasing what a holder has only takes identities out of the map.
LEMMA ReleaseMap ==
    ASSUME NEW st, {"free", "refs", "map", "device"} \subseteq DOMAIN st, NEW h
    PROVE  /\ \A id \in PageId : Release(st, h).map[id] \in {st.map[id], NoSlab}
           /\ \A id \in PageId : ReleasePages(st, h.pages).map[id] \in {st.map[id], NoSlab}
           /\ DOMAIN Release(st, h) = DOMAIN st
           /\ Release(st, h).snapshots = st.snapshots
<1> DEFINE r == ReleasePages(st, h.pages)
           t == Release(st, h)
<1>1. /\ DOMAIN r = DOMAIN st /\ r.snapshots = st.snapshots
      /\ \A id \in PageId : r.map[id] \in {st.map[id], NoSlab}
  BY DEF ReleasePages
<1>2. t = [r EXCEPT !.free = @ \cup h.own]
  BY DEF Release
<1> HIDE DEF r, t
<1>3. DOMAIN t = DOMAIN st /\ t.map = r.map /\ t.snapshots = r.snapshots
  BY <1>1, <1>2
<1> QED BY <1>1, <1>3 DEF r, t

\* Evicting a snapshot only takes identities out of the map.
LEMMA RemovedMap ==
    ASSUME NEW st, DOMAIN st = {"free", "refs", "device", "map", "snapshots", "bank", "next_key"},
           NEW k
    PROVE  /\ \A id \in PageId : Removed(st, k).map[id] \in {st.map[id], NoSlab}
           /\ DOMAIN Removed(st, k) = DOMAIN st
           /\ DOMAIN Removed(st, k).snapshots = DOMAIN st.snapshots
<1> DEFINE s1 == [st EXCEPT !.snapshots[k] = Absent,
                            !.bank = [n \in Kind |-> RemoveFirst(@[n], k)]]
           h == st.snapshots[k]
<1>1. /\ DOMAIN s1 = DOMAIN st /\ s1.map = st.map
      /\ DOMAIN s1.snapshots = DOMAIN st.snapshots
  OBVIOUS
<1>2. Removed(st, k) = Release(s1, h)
  BY DEF Removed
<1> HIDE DEF s1, h
<1> QED BY <1>1, <1>2, ReleaseMap

\* The fields of a store.
LEMMA StoreFields ==
    ASSUME NEW st \in StoreRecords
    PROVE  /\ DOMAIN st = {"free", "refs", "device", "map", "snapshots", "bank", "next_key"}
           /\ DOMAIN st.snapshots = Key
BY DEF StoreRecords

\* u is st after some snapshots were evicted.
Fewer(st, u, pl) ==
    /\ StoreInv(u, pl)
    /\ \A id \in PageId : u.map[id] \in {st.map[id], NoSlab}
    /\ u.next_key = st.next_key
    /\ Resident(u) \subseteq Resident(st)
    /\ \A k \in Resident(u) : u.snapshots[k] = st.snapshots[k]

\* There are MaxKeys keys, so every set of them is finite.
LEMMA KeyFinite ==
    ASSUME NEW T \in SUBSET Key
    PROVE  IsFiniteSet(T) /\ Cardinality(T) \in Nat
<1>1. IsFiniteSet(Key)
  BY StoreShape, FS_Interval DEF Key
<1> QED BY <1>1, FS_Subset, FS_CardinalityType

\* While a snapshot can be evicted, evict_one finds a victim.
LEMMA EvictableFound ==
    ASSUME NEW st, BanksExact(st), st \in StoreRecords, Evictable(st) # {}
    PROVE  CanEvict(st)
<1>1. PICK k \in Resident(st) : st.snapshots[k].pins = 0
  BY DEF Evictable
<1> DEFINE n == st.snapshots[k].meta.kind
<1>2. n \in Kind
  <2>1. st.snapshots[k] \in SnapshotRecords \cup {Absent} /\ st.snapshots[k].resident
    BY DEF Resident, StoreRecords
  <2>2. st.snapshots[k].meta \in Meta
    <3>1. ~Absent.resident
      BY DEF Absent
    <3>2. st.snapshots[k] \in SnapshotRecords
      BY <2>1, <3>1
    <3> QED BY <3>2 DEF SnapshotRecords
  <2> QED BY <2>2, MetaShape
<1>3. k \in ToSet(st.bank[n]) /\ st.bank[n] \in Seq(Key)
  BY <1>2 DEF BanksExact, Lists
<1>4. PICK i \in 1..Len(st.bank[n]) : st.bank[n][i] = k
  BY <1>3, SequenceFacts
<1>5. i \in Unpinned(st, n)
  <2>1. i \in DOMAIN st.bank[n]
    BY <1>3, <1>4, SequenceFacts
  <2>2. st.snapshots[st.bank[n][i]].pins = 0
    BY <1>1, <1>4
  <2> QED BY <2>1, <2>2 DEF Unpinned
<1> QED BY <1>2, <1>5 DEF CanEvict

\* As many evictions as there are evictable snapshots never fail.
LEMMA EvictedFirstKeeps ==
    ASSUME NEW st, NEW pl, StoreInv(st, pl), NEW n \in 0..Cardinality(Evictable(st))
    PROVE  Fewer(st, EvictedFirst(st, n), pl)
<1>0. /\ Cardinality(Evictable(st)) \in Nat /\ IsFiniteSet(Evictable(st))
      /\ n \in Nat /\ n <= Cardinality(Evictable(st))
  <2>1. Evictable(st) \in SUBSET Key
    BY DEF Evictable, Resident
  <2> QED BY <2>1, KeyFinite
<1>1. PICK f : /\ EvictedFirst(st, n) = f[n]
               /\ f[0] = st
               /\ \A i \in 1..n : f[i] = Removed(f[i - 1], Victim(f[i - 1]))
  BY <1>0, EvictedFirstFacts
<1> DEFINE Good(u, m) ==
        /\ Fewer(st, u, pl)
        /\ IsFiniteSet(Evictable(u))
        /\ Cardinality(Evictable(u)) = Cardinality(Evictable(st)) - m
           T == {m \in Nat : m <= n => Good(f[m], m)}
<1>2. 0 \in T
  <2>1. Good(st, 0)
    BY <1>0 DEF Fewer
  <2> QED BY <1>1, <2>1
<1>3. ASSUME NEW m \in Nat, m \in T PROVE m + 1 \in T
  <2> SUFFICES ASSUME m + 1 <= n PROVE Good(f[m + 1], m + 1)
    OBVIOUS
  <2> DEFINE u == f[m]
             v == Victim(u)
             t == Removed(u, v)
  <2>1. Good(u, m) /\ f[m + 1] = t
    <3>1. m <= n /\ m + 1 \in 1..n /\ (m + 1) - 1 = m
      BY <1>0
    <3> QED BY <1>1, <1>3, <3>1
  <2> HIDE DEF u
  <2>2. Evictable(u) # {}
    <3>1. Cardinality(Evictable(u)) # 0
      BY <1>0, <2>1
    <3> QED BY <3>1, FS_EmptySet
  <2>3. StoreInv(u, pl) /\ BanksExact(u) /\ u \in StoreRecords
    BY <2>1 DEF Fewer, StoreInv
  <2>4. v \in Resident(u) /\ u.snapshots[v].pins = 0
    BY <2>2, <2>3, EvictableFound, VictimFound
  <2> HIDE DEF v, t
  <2>5. /\ StoreInv(t, pl)
        /\ Resident(t) = Resident(u) \ {v}
        /\ \A j \in Resident(u) \ {v} : t.snapshots[j] = u.snapshots[j]
        /\ t.next_key = u.next_key
    BY <2>3, <2>4, RemovedKeeps DEF t
  <2>10. \A id \in PageId : t.map[id] \in {u.map[id], NoSlab}
    BY <2>3, StoreFields, RemovedMap DEF t
  <2>6. Fewer(st, t, pl)
    BY <2>1, <2>5, <2>10 DEF Fewer
  <2>7. Evictable(t) = Evictable(u) \ {v} /\ v \in Evictable(u)
    BY <2>4, <2>5 DEF Evictable
  <2>8. /\ IsFiniteSet(Evictable(t))
        /\ Cardinality(Evictable(t)) = Cardinality(Evictable(u)) - 1
    <3>1. Cardinality({v}) = 1
      BY FS_Singleton
    <3>2. {v} \subseteq Evictable(u) /\ IsFiniteSet(Evictable(u))
      BY <2>1, <2>7
    <3> QED BY <2>7, <3>1, <3>2, CountRemoved
  <2>9. Cardinality(Evictable(t)) = Cardinality(Evictable(st)) - (m + 1)
    BY <1>0, <2>1, <2>8
  <2> QED BY <2>1, <2>6, <2>8, <2>9
<1> HIDE DEF T
<1>4. n \in T
  BY <1>0, <1>2, <1>3, SetInduction
<1> QED BY <1>0, <1>1, <1>4 DEF T

\* Evicting until there is room only removes resident snapshots and keeps the store's
\* invariant.
LEMMA RoomForKeeps ==
    ASSUME NEW st, NEW pl, StoreInv(st, pl), NEW meta
    PROVE  Fewer(st, RoomFor(st, meta), pl)
<1> DEFINE most == Cardinality(Evictable(st))
           enough == {n \in 0..most : Fits(EvictedFirst(st, n), meta)}
           n == IF enough = {} THEN most ELSE Min(enough)
<1>1. most \in Nat
  <2>1. Evictable(st) \in SUBSET Key
    BY DEF Evictable, Resident
  <2> QED BY <2>1, KeyFinite
<1>2. enough \in SUBSET Nat /\ enough \subseteq 0..most
  OBVIOUS
<1>3. n \in 0..most
  <2> HIDE DEF enough, most
  <2>1. enough # {} => Min(enough) \in enough
    BY <1>2, MinProperties
  <2>2. CASE enough = {}
    BY <1>1, <2>2
  <2>3. CASE enough # {}
    BY <1>2, <2>1, <2>3
  <2> QED BY <2>2, <2>3
<1>4. RoomFor(st, meta) = EvictedFirst(st, n)
  BY DEF RoomFor
<1> HIDE DEF n
<1> QED BY <1>3, <1>4, EvictedFirstKeeps

\* What planning and issuing a store leaves: the store after evictions, with the
\* plan when its copies are on the stream, and without it when they drained.
IssueOK(meta, o) ==
    /\ o.result \in {"issued", "held", "drained", "exhausted"}
    /\ o.plan # Absent <=> o.result \in {"issued", "held"}
    /\ Resident(o.store) \subseteq Resident(store)
    /\ \A k \in Resident(o.store) : o.store.snapshots[k] = store.snapshots[k]
    /\ o.result = "exhausted" =>
          StoreInv(o.store, plans) /\ o.store.next_key = store.next_key
    /\ o.result = "drained" =>
          StoreInv(o.store, plans) /\ o.store.next_key = store.next_key + 1
    /\ o.result \in {"issued", "held"} =>
          /\ o.plan.meta = meta
          /\ o.plan.key \in Key /\ o.plan.key \notin Holding(store, plans)
          /\ StoreInv(o.store, [plans EXCEPT ![o.plan.key] = o.plan])
          /\ o.store.next_key = store.next_key + 1

\* Whatever start_offload answers - issued, out of space, or failed - leaves a sound store and
\* a sound plan.
LEMMA IssuesKeep ==
    ASSUME StoreInv(store, plans), NEW meta \in Meta, store.next_key < MaxKeys,
           NEW d, NEW dev, NEW o \in Issues(meta, d, dev)
    PROVE  IssueOK(meta, o)
<1> DEFINE room == RoomFor(store, meta)
<1>1. /\ StoreInv(room, plans) /\ room.next_key = store.next_key
      /\ Resident(room) \subseteq Resident(store)
      /\ \A k \in Resident(room) : room.snapshots[k] = store.snapshots[k]
  BY RoomForKeeps DEF Fewer
<1> HIDE DEF room
<1>2. CASE ~Fits(room, meta)
  <2>1. o = Issue("exhausted", room, Absent, stream, memory)
    BY <1>2 DEF Issues, room
  <2>2. o.result = "exhausted" /\ o.store = room /\ o.plan = Absent
    BY <2>1 DEF Issue
  <2> QED BY <1>1, <2>2 DEF IssueOK
<1>3. CASE Fits(room, meta)
  <2>1. PICK plan \in PlansFor(room, meta) : o \in Attempts(room, plan, d, dev)
    BY <1>3 DEF Issues, room
  <2> DEFINE taken == Planned(room, plan)
             pl2 == [plans EXCEPT ![plan.key] = plan]
  <2>2. /\ StoreInv(taken, pl2) /\ plan.key = room.next_key /\ plan.meta = meta
        /\ plan \in PlanRecords /\ taken.snapshots = room.snapshots
        /\ taken.next_key = room.next_key + 1 /\ plan.key \notin Holding(room, plans)
    BY <1>1, PlannedKeeps
  <2>3. /\ plan.key \in Key /\ plan # Absent
        /\ plans \in [Key -> PlanRecords \cup {Absent}]
        /\ plan.key \notin HasPlan(plans)
    <3>1. plan.key \in Key /\ "key" \in DOMAIN plan
      BY <2>2 DEF PlanRecords
    <3>2. "key" \notin DOMAIN Absent
      BY DEF Absent
    <3> QED BY <2>2, <3>1, <3>2 DEF StoreInv, PlansExact, Holding
  <2> HIDE DEF taken, pl2
  <2>4. Resident(taken) = Resident(room)
    BY <2>2 DEF Resident
  <2>5. plan.key \notin Holding(store, plans)
    <3>1. \A k \in Holding(store, plans) : k \in Key /\ k < store.next_key
      BY DEF StoreInv, PlansExact, Holding, HasPlan, Resident
    <3> QED BY <1>1, <2>2, <2>3, <3>1 DEF Key
  <2>6. \/ o.result = "drained" /\ o.store = Aborted(taken, plan) /\ o.plan = Absent
        \/ o.result \in {"issued", "held"} /\ o.store = taken /\ o.plan = plan
    <3> DEFINE batch == Batch(plan, d)
               sent(n) == stream \o SubSeq(batch, 1, n)
               drained == {Issue("drained", Aborted(taken, plan), Absent, <<>>,
                             Executed(dev, memory, sent(n))) : n \in 0..Len(batch) - 1}
               hung == {Issue("held", taken, plan, sent(n), memory) : n \in 0..Len(batch)}
    <3>1. \/ o = Issue("issued", taken, plan, stream \o batch, memory)
          \/ o \in drained \/ o \in hung
      BY <2>1 DEF Attempts, taken
    <3>2. CASE o = Issue("issued", taken, plan, stream \o batch, memory)
      BY <3>2 DEF Issue
    <3>3. CASE o \in drained
      BY <3>3 DEF Issue
    <3>4. CASE o \in hung
      BY <3>4 DEF Issue
    <3> QED BY <3>1, <3>2, <3>3, <3>4
  <2>7. CASE o.result \in {"issued", "held"} /\ o.store = taken /\ o.plan = plan
    BY <1>1, <2>2, <2>3, <2>4, <2>5, <2>7 DEF IssueOK, pl2
  <2>8. CASE o.result = "drained" /\ o.store = Aborted(taken, plan) /\ o.plan = Absent
    <3> DEFINE k == plan.key
               t == Aborted(taken, pl2[k])
    <3>1. k \in HasPlan(pl2) /\ pl2[k] = plan
      BY <2>3 DEF HasPlan, pl2
    <3>2. /\ StoreInv(t, [pl2 EXCEPT ![k] = Absent])
          /\ t.snapshots = taken.snapshots /\ t.next_key = taken.next_key
      BY <2>2, <3>1, AbortedKeeps
    <3>3. [pl2 EXCEPT ![k] = Absent] = plans
      BY <2>3 DEF HasPlan, pl2
    <3>4. o.store = t
      BY <2>8, <3>1
    <3> HIDE DEF t, k
    <3>5. Resident(t) = Resident(room)
      BY <2>4, <3>2 DEF Resident
    <3> QED BY <1>1, <2>2, <2>8, <3>2, <3>3, <3>4, <3>5 DEF IssueOK
  <2> QED BY <2>6, <2>7, <2>8
<1> QED BY <1>2, <1>3

-----------------------------------------------------------------------------
(* The books: the store, the plans and the payloads. *)

PayloadsMatch(st, all) ==
    all = [k \in Key |-> IF k \in Resident(st) THEN st.snapshots[k].meta ELSE NoPayload]

BooksOK(books) ==
    /\ books = [store |-> books.store, plans |-> books.plans, payloads |-> books.payloads]
    /\ StoreInv(books.store, books.plans)
    /\ PayloadsMatch(books.store, books.payloads)

\* The plan under k has ended, its store committed or released.
Ended(books, next, k) ==
    /\ BooksOK(next)
    /\ next.plans = [books.plans EXCEPT ![k] = Absent]
    /\ next.store.next_key = books.store.next_key

\* A record of books is determined by its three fields.
LEMMA OneBooks ==
    ASSUME NEW st, NEW pl, NEW all,
           NEW books \in [store : {st}, plans : {pl}, payloads : {all}]
    PROVE  books = [store |-> st, plans |-> pl, payloads |-> all]
<1>1. books.store = st /\ books.plans = pl /\ books.payloads = all
  OBVIOUS
<1>2. books = [store |-> books.store, plans |-> books.plans, payloads |-> books.payloads]
  OBVIOUS
<1> QED BY <1>1, <1>2

\* What an update of the books' fields leaves in each field.
LEMMA BooksChanged ==
    ASSUME NEW books, NEW st, NEW pl, NEW all,
           books = [store |-> st, plans |-> pl, payloads |-> all],
           NEW st2, NEW pl2, NEW all2
    PROVE  /\ [books EXCEPT !.plans = pl2, !.store = st2] =
                  [store |-> st2, plans |-> pl2, payloads |-> all]
           /\ [books EXCEPT !.plans = pl2, !.store = st2, !.payloads = all2] =
                  [store |-> st2, plans |-> pl2, payloads |-> all2]
<1> DEFINE two == [books EXCEPT !.plans = pl2, !.store = st2]
           three == [books EXCEPT !.plans = pl2, !.store = st2, !.payloads = all2]
<1>1. books \in [store : {st}, plans : {pl}, payloads : {all}]
  OBVIOUS
<1>2. /\ two \in [store : {st2}, plans : {pl2}, payloads : {all}]
      /\ three \in [store : {st2}, plans : {pl2}, payloads : {all2}]
  BY <1>1
<1> HIDE DEF two, three
<1>3. two = [store |-> st2, plans |-> pl2, payloads |-> all]
  BY ONLY <1>2, OneBooks
<1>4. three = [store |-> st2, plans |-> pl2, payloads |-> all2]
  BY ONLY <1>2, OneBooks
<1> QED BY <1>3, <1>4 DEF two, three

\* release_reservation ends the plan: its key is free, its slabs are back, no payload of it
\* stays.
LEMMA ReleasedPlanKeeps ==
    ASSUME NEW books, BooksOK(books), NEW k \in HasPlan(books.plans)
    PROVE  Ended(books, ReleasedPlan(books, books.plans[k]), k)
<1> DEFINE p == books.plans[k]
           t == Aborted(books.store, p)
           pl2 == [books.plans EXCEPT ![k] = Absent]
           next == ReleasedPlan(books, p)
<1>1. p.key = k
  BY DEF BooksOK, StoreInv, PlansExact
<1>2. StoreInv(t, pl2) /\ t.snapshots = books.store.snapshots
      /\ t.next_key = books.store.next_key
  BY AbortedKeeps DEF BooksOK
<1>3. next = [store |-> t, plans |-> pl2, payloads |-> books.payloads]
  <2>1. next = [books EXCEPT !.plans = pl2, !.store = t]
    BY <1>1 DEF ReleasedPlan
  <2> HIDE DEF next, pl2, t
  <2> QED BY <2>1, BooksChanged DEF BooksOK
<1> HIDE DEF t, pl2, next
<1>4. PayloadsMatch(t, books.payloads)
  BY <1>2 DEF BooksOK, PayloadsMatch, Resident
<1>5. BooksOK(next)
  BY <1>2, <1>3, <1>4 DEF BooksOK
<1> QED BY <1>2, <1>3, <1>5 DEF Ended, next, pl2

\* commit ends the plan and leaves its snapshot resident with its payload.
LEMMA CommittedPlanKeeps ==
    ASSUME NEW books, BooksOK(books), NEW k \in HasPlan(books.plans)
    PROVE  Ended(books, CommittedPlan(books, books.plans[k], books.plans[k].meta), k)
<1> DEFINE p == books.plans[k]
           st == books.store
           t == Committed(st, p)
           old == Replaced(st, p.meta)
           pl2 == [books.plans EXCEPT ![k] = Absent]
           kept == IF old # {} THEN PayloadsIn(t, books.payloads) ELSE books.payloads
           all == [kept EXCEPT ![k] = p.meta]
           next == CommittedPlan(books, p, p.meta)
<1>1. p.key = k /\ k \in Key
  BY DEF BooksOK, StoreInv, PlansExact, HasPlan
<1>2. /\ StoreInv(t, pl2) /\ old \subseteq Resident(st)
      /\ Resident(t) = (Resident(st) \ old) \cup {k}
      /\ t.snapshots[k].meta = p.meta
      /\ \A j \in Resident(st) \ old : t.snapshots[j] = st.snapshots[j]
      /\ t.next_key = st.next_key
  <2>1. StoreInv(st, books.plans) /\ k \in HasPlan(books.plans)
    BY DEF BooksOK
  <2> QED BY ONLY <2>1, CommittedKeeps DEF p, t, old, pl2
<1>3. next = [store |-> t, plans |-> pl2, payloads |-> all]
  <2>1. next = [books EXCEPT !.plans = pl2, !.store = t, !.payloads = all]
    BY <1>1 DEF CommittedPlan
  <2> HIDE DEF next, pl2, t, all
  <2> QED BY <2>1, BooksChanged DEF BooksOK
<1>4. k \notin Resident(st)
  BY DEF BooksOK, StoreInv, PlansExact
<1>5. books.payloads = [j \in Key |-> IF j \in Resident(st) THEN st.snapshots[j].meta
                                      ELSE NoPayload]
  BY DEF BooksOK, PayloadsMatch
<1> HIDE DEF t, pl2, next, old, st, p
<1>6. PayloadsMatch(t, all)
  <2>1. CASE old = {}
    <3>1. \A j \in Resident(st) : t.snapshots[j] = st.snapshots[j]
      BY <1>2, <2>1
    <3>2. all = [j \in Key |-> IF j = k THEN p.meta ELSE books.payloads[j]]
      BY <1>5, <2>1
    <3> QED BY <1>1, <1>2, <1>4, <1>5, <2>1, <3>1, <3>2 DEF PayloadsMatch
  <2>2. CASE old # {}
    <3>1. all = [j \in Key |-> IF j = k THEN p.meta
                               ELSE IF j \in Resident(t) THEN books.payloads[j] ELSE NoPayload]
      BY <2>2 DEF PayloadsIn
    <3> QED BY <1>1, <1>2, <1>4, <1>5, <3>1 DEF PayloadsMatch
  <2> QED BY <2>1, <2>2
<1>7. BooksOK(next)
  BY <1>2, <1>3, <1>6 DEF BooksOK
<1> QED BY <1>2, <1>3, <1>7 DEF Ended, next, pl2, p, st

\* The books after a store was planned and issued.
LEMMA BooksAfterKeeps ==
    ASSUME BooksOK(Books), NEW meta, NEW o, IssueOK(meta, o)
    PROVE  /\ BooksOK(BooksAfter(o))
           /\ BooksAfter(o).store = o.store
           /\ BooksAfter(o).plans = IF o.plan = Absent THEN plans
                                    ELSE [plans EXCEPT ![o.plan.key] = o.plan]
<1> DEFINE books == BooksAfter(o)
           pl2 == IF o.plan = Absent THEN plans ELSE [plans EXCEPT ![o.plan.key] = o.plan]
           all == PayloadsIn(o.store, payloads)
<1>1. books = [store |-> o.store, plans |-> pl2, payloads |-> all]
  BY DEF BooksAfter
<1> HIDE DEF books, all
<1>2. StoreInv(o.store, pl2)
  BY DEF IssueOK
<1>3. PayloadsMatch(store, payloads)
  BY DEF BooksOK, Books
<1>4. PayloadsMatch(o.store, all)
  BY <1>3 DEF PayloadsMatch, PayloadsIn, IssueOK, all, Resident
<1> HIDE DEF pl2
<1> QED BY <1>1, <1>2, <1>4 DEF BooksOK, books, pl2

-----------------------------------------------------------------------------
(* The stores in flight, their plans and their tickets. *)

EntryRecords ==
    [ticket : Ticket, kind : {"issued", "deferred", "failed"},
     key : Key \cup {NoKey}, payload : Meta]

QueueOK(queue) ==
    /\ queue \in Seq(EntryRecords)
    /\ Injective(queue)
    /\ \A x, y \in ToSet(queue) : x.ticket = y.ticket => x = y

IssuedIn(entries) == {x \in entries : x.kind = "issued"}

DeferredIn(entries) == {x \in entries : x.kind = "deferred"}

\* Outstanding plans are those of issued entries, with the payload each carries,
\* and those deliberately held.
PlansMatch(pl, entries, kept) ==
    /\ \A x, y \in IssuedIn(entries) : x.key = y.key => x = y
    /\ HasPlan(pl) = {x.key : x \in IssuedIn(entries)} \cup kept
    /\ \A x \in IssuedIn(entries) : x.key \notin kept /\ pl[x.key].meta = x.payload

TicketsMatch(entries, reported, next) ==
    /\ reported \in [Ticket -> Nat]
    /\ \A x \in entries : x.ticket < next
    /\ \A t \in Ticket :
          reported[t] = IF t < next /\ \A x \in entries : x.ticket # t THEN 1 ELSE 0

\* What a retained snapshot was stored as is what its entry will store.
SavedMatch(saves, entries, next) ==
    /\ saves \in [Arena -> [ticket : Ticket \cup {NoTicket}, meta : Meta \cup {NoPayload}]]
    /\ \A d \in Arena :
          /\ saves[d].ticket < next
          /\ \A x \in entries : x.ticket = saves[d].ticket => saves[d].meta = x.payload

\* Each deferred store will need a key of its own.
KeysLeft(st, entries, next) ==
    /\ next \in 0..MaxKeys
    /\ st.next_key + Cardinality(DeferredIn(entries)) <= next

CacheInv ==
    /\ BooksOK(Books)
    /\ QueueOK(pending)
    /\ PlansMatch(plans, ToSet(pending), held)
    /\ TicketsMatch(ToSet(pending), settled, next_ticket)
    /\ SavedMatch(saved, ToSet(pending), next_ticket)
    /\ KeysLeft(store, ToSet(pending), next_ticket)

\* A queue has finitely many entries, and so finitely many deferred ones.
LEMMA EntriesFinite ==
    ASSUME NEW queue, QueueOK(queue)
    PROVE  /\ IsFiniteSet(ToSet(queue)) /\ IsFiniteSet(DeferredIn(ToSet(queue)))
           /\ Cardinality(DeferredIn(ToSet(queue))) \in Nat
           /\ ToSet(queue) \subseteq EntryRecords
<1>1. /\ DOMAIN queue = 1..Len(queue) /\ IsFiniteSet(1..Len(queue))
      /\ ToSet(queue) = {queue[i] : i \in 1..Len(queue)}
      /\ \A i \in 1..Len(queue) : queue[i] \in EntryRecords
  BY SequenceFacts DEF QueueOK
<1>2. IsFiniteSet(ToSet(queue))
  BY <1>1, ImageFinite
<1>3. DeferredIn(ToSet(queue)) \subseteq ToSet(queue)
  BY DEF DeferredIn
<1> QED BY <1>1, <1>2, <1>3, FS_Subset, FS_CardinalityType

\* What sound books say of the plans, in the form the steps below use.
LEMMA PlansShape ==
    ASSUME NEW books, BooksOK(books)
    PROVE  /\ books.plans \in [Key -> PlanRecords \cup {Absent}]
           /\ HasPlan(books.plans) \subseteq Key
           /\ \A k \in HasPlan(books.plans) :
                 books.plans[k].key = k /\ books.plans[k] \in PlanRecords
  BY DEF BooksOK, StoreInv, PlansExact, HasPlan

\* An issued entry whose store has ended takes its plan with it.
LEMMA PlanEnds ==
    ASSUME NEW pl \in [Key -> PlanRecords \cup {Absent}], NEW entries, NEW kept,
           PlansMatch(pl, entries, kept), NEW x \in IssuedIn(entries)
    PROVE  PlansMatch([pl EXCEPT ![x.key] = Absent], entries \ {x}, kept)
<1> DEFINE pl2 == [pl EXCEPT ![x.key] = Absent]
<1>1. x.key \in HasPlan(pl) /\ HasPlan(pl) \subseteq Key
  BY DEF PlansMatch, HasPlan
<1>2. /\ HasPlan(pl2) = HasPlan(pl) \ {x.key}
      /\ \A k \in HasPlan(pl2) : pl2[k] = pl[k]
  BY <1>1 DEF HasPlan
<1>3. IssuedIn(entries \ {x}) = IssuedIn(entries) \ {x}
  BY DEF IssuedIn
<1>4. \A y \in IssuedIn(entries) \ {x} : y.key # x.key /\ y.key \in HasPlan(pl2)
  BY <1>2 DEF PlansMatch
<1>5. HasPlan(pl2) = {y.key : y \in IssuedIn(entries) \ {x}} \cup kept
  <2>1. HasPlan(pl) = {y.key : y \in IssuedIn(entries)} \cup kept
    BY DEF PlansMatch
  <2>2. x.key \notin kept
    BY DEF PlansMatch
  <2>3. {y.key : y \in IssuedIn(entries)} =
           {y.key : y \in IssuedIn(entries) \ {x}} \cup {x.key}
    OBVIOUS
  <2>4. x.key \notin {y.key : y \in IssuedIn(entries) \ {x}}
    BY <1>4
  <2> HIDE DEF pl2
  <2>5. HasPlan(pl2) = HasPlan(pl) \ {x.key}
    BY <1>2
  <2> QED BY ONLY <2>1, <2>2, <2>3, <2>4, <2>5
<1> HIDE DEF pl2
<1> QED BY <1>2, <1>3, <1>4, <1>5 DEF PlansMatch, pl2

\* An entry that is not issued has no plan.
LEMMA NoPlanEnds ==
    ASSUME NEW pl, NEW entries, NEW kept, PlansMatch(pl, entries, kept),
           NEW other, IssuedIn(other) = IssuedIn(entries)
    PROVE  PlansMatch(pl, other, kept)
  BY DEF PlansMatch

\* A new plan goes with a new issued entry, or is held.
LEMMA PlanBegins ==
    ASSUME NEW pl \in [Key -> PlanRecords \cup {Absent}], NEW entries, NEW kept,
           PlansMatch(pl, entries, kept),
           NEW plan, plan # Absent, plan.key \in Key, plan.key \notin HasPlan(pl)
    PROVE  LET pl2 == [pl EXCEPT ![plan.key] = plan] IN
           /\ PlansMatch(pl2, entries, kept \cup {plan.key})
           /\ \A x : x.kind = "issued" /\ x.key = plan.key /\ x.payload = plan.meta =>
                 PlansMatch(pl2, entries \cup {x}, kept)
<1> DEFINE k == plan.key
           pl2 == [pl EXCEPT ![k] = plan]
<1>1. /\ HasPlan(pl2) = HasPlan(pl) \cup {k} /\ pl2[k] = plan
      /\ \A j \in HasPlan(pl) : j # k /\ pl2[j] = pl[j]
  BY DEF HasPlan
<1>2. /\ HasPlan(pl) = {y.key : y \in IssuedIn(entries)} \cup kept
      /\ \A y \in IssuedIn(entries) : y.key \in HasPlan(pl)
  BY DEF PlansMatch
<1> HIDE DEF pl2, k
<1>3. PlansMatch(pl2, entries, kept \cup {k})
  <2>1. HasPlan(pl2) = {y.key : y \in IssuedIn(entries)} \cup (kept \cup {k})
    BY <1>1, <1>2
  <2>2. \A y \in IssuedIn(entries) : y.key \notin kept \cup {k} /\ pl2[y.key].meta = y.payload
    BY <1>1, <1>2 DEF PlansMatch
  <2> QED BY <2>1, <2>2 DEF PlansMatch
<1>4. ASSUME NEW x, x.kind = "issued", x.key = k, x.payload = plan.meta
      PROVE  PlansMatch(pl2, entries \cup {x}, kept)
  <2>1. IssuedIn(entries \cup {x}) = IssuedIn(entries) \cup {x}
    BY <1>4 DEF IssuedIn
  <2>2. \A y \in IssuedIn(entries) : y.key # k /\ y.key \notin kept
                                     /\ pl2[y.key].meta = y.payload
    BY <1>1, <1>2 DEF PlansMatch
  <2>3. x.key \notin kept /\ pl2[x.key].meta = x.payload
    BY <1>1, <1>2, <1>4
  <2>4. HasPlan(pl2) = {y.key : y \in IssuedIn(entries) \cup {x}} \cup kept
    <3>1. {y.key : y \in IssuedIn(entries) \cup {x}} = {y.key : y \in IssuedIn(entries)} \cup {k}
      BY <1>4
    <3> QED BY <1>1, <1>2, <3>1
  <2>5. \A y, z \in IssuedIn(entries) : y.key = z.key => y = z
    BY DEF PlansMatch
  <2> QED BY <1>4, <2>1, <2>2, <2>3, <2>4, <2>5 DEF PlansMatch
<1> QED BY <1>3, <1>4 DEF pl2, k

-----------------------------------------------------------------------------
(* tick. *)

Polls(errors, n, f) ==
    f = [i \in 0..n |-> IF i = 0 THEN Unpolled ELSE Polled(f[i - 1], pending[i], errors)]

\* The function of "the loop after polling i entries" exists, for every outcome of the polls.
LEMMA PollsExist == ASSUME NEW errors, NEW n \in Nat PROVE \E f : Polls(errors, n, f)
<1> DEFINE T == {m \in Nat : \E f : Polls(errors, m, f)}
<1>1. 0 \in T
  <2>1. Polls(errors, 0, [i \in 0..0 |-> Unpolled])
    BY DEF Polls
  <2> QED BY <2>1
<1>2. ASSUME NEW m \in Nat, m \in T PROVE m + 1 \in T
  <2>1. PICK f : Polls(errors, m, f)
    BY <1>2
  <2> DEFINE g == [i \in 0..m + 1 |->
                      IF i = m + 1 THEN Polled(f[m], pending[m + 1], errors) ELSE f[i]]
  <2>2. \A i \in 0..m :
           f[i] = IF i = 0 THEN Unpolled ELSE Polled(f[i - 1], pending[i], errors)
    BY <2>1 DEF Polls
  <2>3. \A i \in 0..m + 1 :
           g[i] = IF i = 0 THEN Unpolled ELSE Polled(g[i - 1], pending[i], errors)
    BY <2>2
  <2>4. Polls(errors, m + 1, g)
    <3>1. g = [i \in 0..m + 1 |-> g[i]]
      OBVIOUS
    <3> HIDE DEF g
    <3> QED BY <2>3, <3>1 DEF Polls
  <2> QED BY <2>4
<1> HIDE DEF T
<1>3. n \in T
  BY <1>1, <1>2, SetInduction
<1> QED BY <1>3 DEF T

\* Polling is the loop of poll_pending: it starts from nothing polled and polls one entry at a
\* time.
LEMMA PollingFacts ==
    ASSUME NEW errors, Len(pending) \in Nat
    PROVE  \E f : /\ Polling(errors) = f[Len(pending)]
                  /\ f[0] = Unpolled
                  /\ \A i \in 1..Len(pending) : f[i] = Polled(f[i - 1], pending[i], errors)
<1> DEFINE f == CHOOSE f : Polls(errors, Len(pending), f)
<1>1. Polls(errors, Len(pending), f)
  BY PollsExist
<1>2. Polling(errors) = f[Len(pending)]
  BY DEF Polling, Polls
<1> HIDE DEF f
<1>3. /\ f[0] = Unpolled
      /\ \A i \in 1..Len(pending) : f[i] = Polled(f[i - 1], pending[i], errors)
  BY <1>1 DEF Polls
<1> QED BY <1>2, <1>3

\* What a turn of the loop may do with entry p: leave it in the queue, or report
\* it, ending its store if it was issued.
KeepsEntry(at, next, p) ==
    /\ next.books = at.books
    /\ next.left = Append(at.left, p)
    /\ next.reported = at.reported

ReportsEntry(at, next, p) ==
    /\ next.left = at.left
    /\ next.reported = at.reported \cup {p.ticket}
    /\ p.kind = "failed" => next.books = at.books
    /\ p.kind = "issued" =>
          next.books \in {ReleasedPlan(at.books, plans[p.key]),
                          CommittedPlan(at.books, plans[p.key], p.payload)}

LoopFields == {"books", "left", "reported", "stopped"}

IsLoop(at) == DOMAIN at = LoopFields /\ at = [x \in LoopFields |-> at[x]]

\* Polling one entry either keeps it in the queue or takes it out and reports its ticket.
LEMMA PolledFacts ==
    ASSUME NEW at, IsLoop(at), NEW p \in EntryRecords, NEW errors
    PROVE  LET next == Polled(at, p, errors) IN
           /\ IsLoop(next)
           /\ \/ KeepsEntry(at, next, p)
              \/ p.kind # "deferred" /\ ReportsEntry(at, next, p)
<1> DEFINE next == Polled(at, p, errors)
           keep == [at EXCEPT !.left = Append(@, p)]
           report == [at EXCEPT !.reported = @ \cup {p.ticket}]
<1>1. /\ IsLoop(keep) /\ keep.books = at.books /\ keep.left = Append(at.left, p)
      /\ keep.reported = at.reported
  BY DEF IsLoop, LoopFields
<1>2. /\ IsLoop(report) /\ report.books = at.books /\ report.left = at.left
      /\ report.reported = at.reported \cup {p.ticket}
  BY DEF IsLoop, LoopFields
<1>3. p.kind \in {"issued", "deferred", "failed"}
  BY DEF EntryRecords
<1>4. CASE at.stopped \/ Stops(p, errors)
  <2>1. next = [keep EXCEPT !.stopped = TRUE]
    BY <1>4 DEF Polled
  <2> HIDE DEF keep, next
  <2> QED BY <1>1, <2>1 DEF IsLoop, LoopFields, KeepsEntry, next
<1>5. CASE ~(at.stopped \/ Stops(p, errors)) /\ p.kind = "deferred"
  <2>1. next = keep
    BY <1>5 DEF Polled
  <2> HIDE DEF keep
  <2> QED BY <1>1, <2>1 DEF KeepsEntry
<1>6. CASE ~(at.stopped \/ Stops(p, errors)) /\ p.kind = "failed"
  <2>1. next = report
    BY <1>6 DEF Polled
  <2> HIDE DEF report
  <2> QED BY <1>2, <1>6, <2>1 DEF ReportsEntry
<1>7. CASE ~(at.stopped \/ Stops(p, errors)) /\ p.kind = "issued"
  <2> DEFINE b == IF p.ticket \in errors THEN ReleasedPlan(at.books, plans[p.key])
                  ELSE CommittedPlan(at.books, plans[p.key], p.payload)
  <2>1. next = [report EXCEPT !.books = b]
    BY <1>2, <1>7 DEF Polled, IsLoop, LoopFields
  <2>2. b \in {ReleasedPlan(at.books, plans[p.key]),
               CommittedPlan(at.books, plans[p.key], p.payload)}
    OBVIOUS
  <2> HIDE DEF report, next, b
  <2>3. /\ IsLoop(next) /\ next.books = b /\ next.left = at.left
        /\ next.reported = at.reported \cup {p.ticket}
    BY <1>2, <2>1 DEF IsLoop, LoopFields
  <2> QED BY <1>7, <2>2, <2>3 DEF ReportsEntry, next
<1> QED BY <1>3, <1>4, <1>5, <1>6, <1>7

Seen(n) == {pending[j] : j \in 1..n}

Unreported(entries, reported) == {x \in entries : x.ticket \notin reported}

\* The loop after it looked at the first n entries: those it reported are not
\* deferred ones, and their plans are the only ones that ended.
PollInv(at, n) ==
    /\ IsLoop(at)
    /\ BooksOK(at.books) /\ at.books.store.next_key = store.next_key
    /\ at.left \in Seq(EntryRecords) /\ Injective(at.left)
    /\ ToSet(at.left) = Unreported(Seen(n), at.reported)
    /\ at.reported \subseteq {x.ticket : x \in Seen(n)}
    /\ \A x \in Seen(n) : x.ticket \in at.reported => x.kind # "deferred"
    /\ PlansMatch(at.books.plans, Unreported(ToSet(pending), at.reported), held)
    /\ \A k \in HasPlan(at.books.plans) : at.books.plans[k] = plans[k]

\* The loop's invariant holds before the first entry is polled.
LEMMA UnpolledInv == ASSUME CacheInv PROVE PollInv(Unpolled, 0)
<1>1. /\ IsLoop(Unpolled) /\ Unpolled.books = Books /\ Unpolled.left = <<>>
      /\ Unpolled.reported = {}
  BY DEF Unpolled, IsLoop, LoopFields
<1>2. /\ Books.store = store /\ Books.plans = plans
      /\ Seen(0) = {} /\ ToSet(<<>>) = {} /\ Injective(<<>>)
      /\ Unreported(ToSet(pending), {}) = ToSet(pending)
  BY DEF Books, Seen, ToSet, Injective, Unreported
<1>3. /\ BooksOK(Books) /\ PlansMatch(plans, ToSet(pending), held)
  BY DEF CacheInv
<1>4. <<>> \in Seq(EntryRecords) /\ Unreported({}, {}) = {}
  BY DEF Unreported
<1> QED BY <1>1, <1>2, <1>3, <1>4 DEF PollInv

\* Polling the next entry keeps the loop's invariant, whatever the device and the store answer.
LEMMA PolledInv ==
    ASSUME CacheInv, NEW errors, NEW at, NEW n \in Nat, n + 1 <= Len(pending),
           PollInv(at, n)
    PROVE  PollInv(Polled(at, pending[n + 1], errors), n + 1)
<1> DEFINE p == pending[n + 1]
           next == Polled(at, p, errors)
           all == ToSet(pending)
<1>1. /\ p \in EntryRecords /\ p \in all /\ p \notin Seen(n)
      /\ Seen(n + 1) = Seen(n) \cup {p} /\ Seen(n) \subseteq all
      /\ \A x \in all : x.ticket = p.ticket => x = p
  <2>1. /\ pending \in Seq(EntryRecords) /\ Injective(pending) /\ Len(pending) \in Nat
        /\ DOMAIN pending = 1..Len(pending) /\ all = {pending[i] : i \in 1..Len(pending)}
        /\ \A i \in 1..Len(pending) : pending[i] \in EntryRecords
        /\ \A x, y \in all : x.ticket = y.ticket => x = y
    BY SequenceFacts DEF CacheInv, QueueOK
  <2>2. \A i \in 1..n : i \in 1..Len(pending) /\ pending[i] # p
    BY <2>1 DEF Injective
  <2> QED BY <2>1, <2>2 DEF Seen
<1>2. p.ticket \notin at.reported
  <2>1. at.reported \subseteq {x.ticket : x \in Seen(n)}
    BY DEF PollInv
  <2> QED BY <1>1, <2>1
<1>3. /\ IsLoop(next)
      /\ \/ KeepsEntry(at, next, p)
         \/ p.kind # "deferred" /\ ReportsEntry(at, next, p)
  BY <1>1, PolledFacts DEF PollInv
<1> HIDE DEF p, next, all
<1>4. CASE KeepsEntry(at, next, p)
  <2>1. /\ next.books = at.books /\ next.left = Append(at.left, p)
        /\ next.reported = at.reported
    BY <1>4 DEF KeepsEntry
  <2>2. /\ next.left \in Seq(EntryRecords) /\ Injective(next.left)
        /\ ToSet(next.left) = ToSet(at.left) \cup {p}
    <3>1. p \notin ToSet(at.left) /\ at.left \in Seq(EntryRecords) /\ Injective(at.left)
      BY <1>1 DEF PollInv, Unreported
    <3> QED BY <1>1, <2>1, <3>1, AppendFacts
  <2>3. ToSet(next.left) = Unreported(Seen(n + 1), next.reported)
    BY <1>1, <1>2, <2>1, <2>2 DEF PollInv, Unreported
  <2>4. /\ at.reported \subseteq {x.ticket : x \in Seen(n + 1)}
        /\ \A x \in Seen(n + 1) : x.ticket \in at.reported => x.kind # "deferred"
    <3>1. \A x \in Seen(n) : x.ticket \in at.reported => x.kind # "deferred"
      BY DEF PollInv
    <3>2. at.reported \subseteq {x.ticket : x \in Seen(n)}
      BY DEF PollInv
    <3> QED BY <1>1, <1>2, <3>1, <3>2
  <2>5. /\ BooksOK(at.books) /\ at.books.store.next_key = store.next_key
        /\ PlansMatch(at.books.plans, Unreported(all, at.reported), held)
        /\ \A k \in HasPlan(at.books.plans) : at.books.plans[k] = plans[k]
    BY DEF PollInv, all
  <2>6. PollInv(next, n + 1)
    BY ONLY <1>3, <2>1, <2>2, <2>3, <2>4, <2>5 DEF PollInv, all
  <2> QED BY <2>6 DEF next, p
<1>5. CASE p.kind # "deferred" /\ ReportsEntry(at, next, p)
  <2> DEFINE rest == Unreported(all, at.reported)
  <2>1. next.left = at.left /\ next.reported = at.reported \cup {p.ticket}
    BY <1>5 DEF ReportsEntry
  <2>2. ToSet(next.left) = Unreported(Seen(n + 1), next.reported)
    BY <1>1, <2>1 DEF PollInv, Unreported
  <2>3. /\ next.reported \subseteq {x.ticket : x \in Seen(n + 1)}
        /\ \A x \in Seen(n + 1) : x.ticket \in next.reported => x.kind # "deferred"
    <3>1. \A x \in Seen(n) : x.ticket \in at.reported => x.kind # "deferred"
      BY DEF PollInv
    <3>2. at.reported \subseteq {x.ticket : x \in Seen(n)}
      BY DEF PollInv
    <3> QED BY <1>1, <1>5, <2>1, <3>1, <3>2
  <2>4. Unreported(all, next.reported) = rest \ {p} /\ p \in rest
    BY <1>1, <1>2, <2>1 DEF Unreported
  <2>5. /\ PlansMatch(at.books.plans, rest, held) /\ BooksOK(at.books)
        /\ at.books.store.next_key = store.next_key
        /\ \A k \in HasPlan(at.books.plans) : at.books.plans[k] = plans[k]
    BY DEF PollInv, all
  <2> HIDE DEF rest
  <2>6. /\ BooksOK(next.books) /\ next.books.store.next_key = store.next_key
        /\ PlansMatch(next.books.plans, rest \ {p}, held)
        /\ \A k \in HasPlan(next.books.plans) : next.books.plans[k] = plans[k]
    <3>1. CASE p.kind = "failed"
      <4>1. next.books = at.books
        BY <1>5, <3>1 DEF ReportsEntry
      <4>2. IssuedIn(rest \ {p}) = IssuedIn(rest)
        BY <3>1 DEF IssuedIn
      <4> QED BY <2>5, <4>1, <4>2, NoPlanEnds
    <3>2. CASE p.kind = "issued"
      <4> DEFINE k == p.key
                 pl == at.books.plans
      <4>1. p \in IssuedIn(rest)
        BY <2>4, <3>2 DEF IssuedIn
      <4>2. k \in HasPlan(pl) /\ plans[k] = pl[k] /\ pl[k].meta = p.payload
        BY <2>5, <4>1 DEF PlansMatch
      <4>3. next.books \in {ReleasedPlan(at.books, pl[k]),
                            CommittedPlan(at.books, pl[k], pl[k].meta)}
        BY <1>5, <3>2, <4>2 DEF ReportsEntry
      <4>4. Ended(at.books, next.books, k)
        BY <2>5, <4>2, <4>3, ReleasedPlanKeeps, CommittedPlanKeeps
      <4>5. pl \in [Key -> PlanRecords \cup {Absent}] /\ k \in Key
        BY <2>5, <4>2, PlansShape
      <4>6. next.books.plans = [pl EXCEPT ![k] = Absent] /\ BooksOK(next.books)
            /\ next.books.store.next_key = store.next_key
        BY <2>5, <4>4 DEF Ended
      <4>7. PlansMatch([pl EXCEPT ![k] = Absent], rest \ {p}, held)
        BY <2>5, <4>1, <4>5, PlanEnds
      <4>8. \A j \in HasPlan(next.books.plans) : j \in HasPlan(pl) /\ next.books.plans[j] = pl[j]
        BY <4>5, <4>6 DEF HasPlan
      <4> QED BY <2>5, <4>6, <4>7, <4>8
    <3>3. p.kind \in {"issued", "deferred", "failed"}
      BY <1>1 DEF EntryRecords
    <3> QED BY <1>5, <3>1, <3>2, <3>3
  <2>7. /\ next.left \in Seq(EntryRecords) /\ Injective(next.left)
    BY <2>1 DEF PollInv
  <2>8. PollInv(next, n + 1)
    BY ONLY <1>3, <2>2, <2>3, <2>4, <2>6, <2>7 DEF PollInv, all
  <2> QED BY <2>8 DEF next, p
<1> QED BY <1>3, <1>4, <1>5 DEF next, p

\* The loop's invariant holds when every entry has been polled.
LEMMA PollingInv ==
    ASSUME CacheInv, NEW errors
    PROVE  PollInv(Polling(errors), Len(pending))
<1>1. Len(pending) \in Nat
  BY DEF CacheInv, QueueOK
<1>2. PICK f : /\ Polling(errors) = f[Len(pending)]
               /\ f[0] = Unpolled
               /\ \A i \in 1..Len(pending) : f[i] = Polled(f[i - 1], pending[i], errors)
  BY <1>1, PollingFacts
<1> DEFINE T == {n \in Nat : n <= Len(pending) => PollInv(f[n], n)}
<1>3. 0 \in T
  BY <1>2, UnpolledInv
<1>4. ASSUME NEW n \in Nat, n \in T PROVE n + 1 \in T
  <2> SUFFICES ASSUME n + 1 <= Len(pending) PROVE PollInv(f[n + 1], n + 1)
    OBVIOUS
  <2>1. PollInv(f[n], n)
    BY <1>1, <1>4
  <2>2. f[n + 1] = Polled(f[n], pending[n + 1], errors)
    <3>1. n + 1 \in 1..Len(pending) /\ (n + 1) - 1 = n
      BY <1>1
    <3> QED BY <1>2, <3>1
  <2> QED BY <2>1, <2>2, PolledInv
<1> HIDE DEF T
<1>5. Len(pending) \in T
  BY <1>1, <1>3, <1>4, SetInduction
<1> QED BY <1>1, <1>2, <1>5 DEF T

-----------------------------------------------------------------------------
(* The parts of CacheInv when entries end or the next state keeps them.    *)

\* The cache's invariant follows from sound books, a sound queue and the three ways they match.
LEMMA Assembled ==
    ASSUME NEW books, BooksOK(books), TakesBooks(books),
           QueueOK(pending'), PlansMatch(books.plans, ToSet(pending'), held'),
           TicketsMatch(ToSet(pending'), settled', next_ticket'),
           SavedMatch(saved', ToSet(pending'), next_ticket'),
           KeysLeft(books.store, ToSet(pending'), next_ticket')
    PROVE  CacheInv'
<1>1. books = Books'
  BY DEF BooksOK, TakesBooks, Books
<1>2. books.store = store' /\ books.plans = plans'
  BY DEF TakesBooks
<1> QED BY <1>1, <1>2 DEF CacheInv

\* Reporting the tickets of some entries and taking these out of the queue keeps the count of
\* reports.
LEMMA TicketsReported ==
    ASSUME NEW entries, NEW reported, NEW next, TicketsMatch(entries, reported, next),
           entries \subseteq EntryRecords,
           NEW gone, gone \subseteq {x.ticket : x \in entries}
    PROVE  TicketsMatch(Unreported(entries, gone),
                        [t \in Ticket |-> IF t \in gone THEN reported[t] + 1
                                          ELSE reported[t]], next)
<1> DEFINE rest == Unreported(entries, gone)
           after == [t \in Ticket |-> IF t \in gone THEN reported[t] + 1 ELSE reported[t]]
<1>1. /\ reported \in [Ticket -> Nat]
      /\ \A x \in entries : x.ticket < next
      /\ \A t \in Ticket :
            reported[t] = IF t < next /\ \A x \in entries : x.ticket # t THEN 1 ELSE 0
  BY DEF TicketsMatch
<1>2. \A t \in gone : \E x \in entries : x.ticket = t
  OBVIOUS
<1>3. ASSUME NEW t \in Ticket
      PROVE  after[t] = IF t < next /\ \A x \in rest : x.ticket # t THEN 1 ELSE 0
  <2>1. CASE t \in gone
    <3>1. reported[t] = 0 /\ t < next /\ after[t] = reported[t] + 1
      BY <1>1, <1>2, <2>1
    <3>2. \A x \in rest : x.ticket # t
      BY <2>1 DEF Unreported
    <3> QED BY <3>1, <3>2
  <2>2. CASE t \notin gone
    <3>1. (\E x \in rest : x.ticket = t) <=> (\E x \in entries : x.ticket = t)
      BY <2>2 DEF Unreported
    <3>2. after[t] = reported[t]
      BY <2>2
    <3> QED BY <1>1, <3>1, <3>2
  <2> QED BY <2>1, <2>2
<1>4. after \in [Ticket -> Nat]
  BY <1>1
<1>5. \A x \in rest : x.ticket < next
  BY <1>1 DEF Unreported
<1> HIDE DEF after, rest
<1> QED BY <1>3, <1>4, <1>5 DEF TicketsMatch, after, rest

\* An entry leaving the queue does not upset what the caller's saves say of the ones that stay.
LEMMA SavedOfFewer ==
    ASSUME NEW saves, NEW entries, NEW next, SavedMatch(saves, entries, next),
           NEW rest, rest \subseteq entries
    PROVE  SavedMatch(saves, rest, next)
  BY DEF SavedMatch

\* A buffer that is dropped, or holds a snapshot without a store in flight.
LEMMA SavedWithout ==
    ASSUME NEW saves, NEW entries, NEW next \in Nat, SavedMatch(saves, entries, next),
           entries \subseteq EntryRecords, NEW d \in Arena, NEW meta \in Meta \cup {NoPayload}
    PROVE  SavedMatch([saves EXCEPT ![d] = [ticket |-> NoTicket, meta |-> meta]],
                      entries, next)
<1>1. \A x \in entries : x.ticket # NoTicket
  BY StoreShape DEF EntryRecords, Ticket, Key, NoTicket
<1> QED BY <1>1 DEF SavedMatch, NoTicket

\* Dropping the save of a device arena does not upset the others.
LEMMA DroppedKeeps ==
    ASSUME NEW entries, NEW next \in Nat, SavedMatch(saved, entries, next),
           entries \subseteq EntryRecords, NEW d \in Arena
    PROVE  SavedMatch([saved EXCEPT ![d] = Empty], entries, next)
  BY SavedWithout DEF Empty

\* The tickets and keys given so far are numbers within the bound, and keys never outrun
\* tickets.
LEMMA NextIsNat ==
    ASSUME CacheInv
    PROVE  /\ next_ticket \in Nat /\ next_ticket <= MaxKeys
           /\ store.next_key \in Nat
           /\ Cardinality(DeferredIn(ToSet(pending))) \in Nat
           /\ store.next_key + Cardinality(DeferredIn(ToSet(pending))) <= next_ticket
<1>1. store.next_key \in Nat
  BY DEF CacheInv, BooksOK, Books, StoreInv, StoreRecords
<1> QED BY <1>1, EntriesFinite, StoreShape DEF CacheInv, KeysLeft

\* A tick keeps the invariant.
LEMMA TickKeeps ==
    ASSUME CacheInv, NEW errors, Tick(errors)
    PROVE  CacheInv'
<1> DEFINE end == Polling(errors)
           all == ToSet(pending)
           rest == Unreported(all, end.reported)
<1>1. PollInv(end, Len(pending))
  BY PollingInv
<1>2. /\ TakesBooks(end.books) /\ pending' = end.left
      /\ settled' = [t \in Ticket |->
            IF t \in end.reported THEN settled[t] + 1 ELSE settled[t]]
      /\ next_ticket' = next_ticket /\ held' = held /\ saved' = saved
  BY DEF Tick, engine_vars
<1>3. Seen(Len(pending)) = all /\ all \subseteq EntryRecords
  BY SequenceFacts, EntriesFinite DEF CacheInv, QueueOK, Seen
<1> HIDE DEF end
<1>4. /\ BooksOK(end.books) /\ end.books.store.next_key = store.next_key
      /\ PlansMatch(end.books.plans, rest, held)
      /\ end.left \in Seq(EntryRecords) /\ Injective(end.left)
      /\ ToSet(end.left) = rest
      /\ end.reported \subseteq {x.ticket : x \in all}
      /\ \A x \in all : x.ticket \in end.reported => x.kind # "deferred"
  BY <1>1, <1>3 DEF PollInv
<1>5. rest \subseteq all
  BY DEF Unreported
<1>6. QueueOK(pending')
  BY <1>2, <1>4, <1>5 DEF CacheInv, QueueOK
<1>7. TicketsMatch(rest, settled', next_ticket)
  BY <1>2, <1>3, <1>4, TicketsReported DEF CacheInv
<1>8. SavedMatch(saved, rest, next_ticket)
  BY <1>5, SavedOfFewer DEF CacheInv
<1>9. KeysLeft(end.books.store, rest, next_ticket)
  <2>1. DeferredIn(rest) = DeferredIn(all)
    BY <1>4 DEF DeferredIn, Unreported
  <2> QED BY <1>4, <2>1 DEF CacheInv, KeysLeft
<1> HIDE DEF rest
<1> QED BY <1>2, <1>4, <1>6, <1>7, <1>8, <1>9, Assembled

\* A step that changes the store and perhaps the saved buffers only.
LEMMA StoreOnly ==
    ASSUME CacheInv, NEW st, store' = st, StoreInv(st, plans),
           st.next_key = store.next_key, PayloadsMatch(st, payloads),
           UNCHANGED <<plans, payloads, pending, next_ticket, held, settled>>,
           SavedMatch(saved', ToSet(pending), next_ticket)
    PROVE  CacheInv'
<1> DEFINE books == [store |-> st, plans |-> plans, payloads |-> payloads]
<1>1. BooksOK(books) /\ TakesBooks(books) /\ books.plans = plans /\ books.store = st
  BY DEF BooksOK, TakesBooks
<1>2. KeysLeft(st, ToSet(pending), next_ticket)
  BY DEF CacheInv, KeysLeft
<1> HIDE DEF books
<1> QED BY <1>1, <1>2, Assembled DEF CacheInv

\* A store enters the queue with a new ticket, its snapshot in buffer d.
LEMMA EntryJoins ==
    ASSUME CacheInv, next_ticket < MaxKeys, NEW e \in EntryRecords,
           e.ticket = next_ticket, NEW d \in Arena,
           NEW saves, saves = [saved EXCEPT ![d] = [ticket |-> next_ticket,
                                                    meta |-> e.payload]]
    PROVE  /\ QueueOK(Append(pending, e))
           /\ ToSet(Append(pending, e)) = ToSet(pending) \cup {e}
           /\ e \notin ToSet(pending)
           /\ TicketsMatch(ToSet(pending) \cup {e}, settled, next_ticket + 1)
           /\ SavedMatch(saves, ToSet(pending) \cup {e}, next_ticket + 1)
<1> DEFINE all == ToSet(pending)
<1>1. /\ pending \in Seq(EntryRecords) /\ Injective(pending)
      /\ \A x, y \in all : x.ticket = y.ticket => x = y
      /\ all \subseteq EntryRecords /\ next_ticket \in Nat
      /\ \A x \in all : x.ticket < next_ticket /\ x.ticket \in Ticket
  <2>1. QueueOK(pending) /\ TicketsMatch(all, settled, next_ticket)
    BY DEF CacheInv
  <2>2. all \subseteq EntryRecords /\ next_ticket \in Nat
    BY <2>1, EntriesFinite, NextIsNat
  <2>3. \A x \in all : x.ticket \in Ticket
    BY <2>2 DEF EntryRecords
  <2>4. \A x \in all : x.ticket < next_ticket
    BY <2>1 DEF TicketsMatch
  <2> QED BY <2>1, <2>2, <2>3, <2>4 DEF QueueOK
<1>2. \A x \in all : x.ticket # e.ticket
  BY <1>1 DEF Ticket, Key
<1>3. /\ Append(pending, e) \in Seq(EntryRecords) /\ Injective(Append(pending, e))
      /\ ToSet(Append(pending, e)) = all \cup {e}
  BY <1>1, <1>2, AppendFacts
<1> HIDE DEF all
<1>4. QueueOK(Append(pending, e))
  BY <1>1, <1>2, <1>3 DEF QueueOK
<1>5. TicketsMatch(all \cup {e}, settled, next_ticket + 1)
  <2>1. TicketsMatch(all, settled, next_ticket)
    BY DEF CacheInv, all
  <2>2. \A x \in all \cup {e} : x.ticket < next_ticket + 1
    BY <1>1 DEF Ticket, Key
  <2>3. ASSUME NEW t \in Ticket
        PROVE  settled[t] = IF t < next_ticket + 1 /\ \A x \in all \cup {e} : x.ticket # t
                            THEN 1 ELSE 0
    <3>1. t \in Int
      BY DEF Ticket, Key
    <3>2. CASE t = next_ticket
      BY <1>1, <2>1, <3>2 DEF TicketsMatch
    <3>3. CASE t # next_ticket
      <4>1. t < next_ticket + 1 <=> t < next_ticket
        BY <1>1, <3>1, <3>3
      <4>2. e.ticket # t
        BY <3>3
      <4> QED BY <2>1, <4>1, <4>2 DEF TicketsMatch
    <3> QED BY <3>2, <3>3
  <2> QED BY <2>1, <2>2, <2>3 DEF TicketsMatch
<1>6. SavedMatch(saves, all \cup {e}, next_ticket + 1)
  <2>1. SavedMatch(saved, all, next_ticket)
    BY DEF CacheInv, all
  <2>2. next_ticket \in Ticket /\ e.payload \in Meta
    BY <1>1 DEF Ticket, Key, EntryRecords
  <2>3. saves \in [Arena -> [ticket : Ticket \cup {NoTicket}, meta : Meta \cup {NoPayload}]]
    BY <2>1, <2>2 DEF SavedMatch
  <2>4. ASSUME NEW c \in Arena
        PROVE  /\ saves[c].ticket < next_ticket + 1
               /\ \A x \in all \cup {e} :
                     x.ticket = saves[c].ticket => saves[c].meta = x.payload
    <3>1. CASE c = d
      <4>1. saves[c] = [ticket |-> next_ticket, meta |-> e.payload]
        BY <2>1, <3>1 DEF SavedMatch
      <4> QED BY <1>1, <1>2, <4>1
    <3>2. CASE c # d
      <4>1. saves[c] = saved[c] /\ saved[c].ticket < next_ticket
            /\ saved[c].ticket \in Int
        BY <2>1, <3>2 DEF SavedMatch, Ticket, Key, NoTicket
      <4>2. e.ticket # saves[c].ticket
        BY <1>1, <4>1
      <4> QED BY <1>1, <2>1, <4>1, <4>2 DEF SavedMatch
    <3> QED BY <3>1, <3>2
  <2> QED BY <2>3, <2>4 DEF SavedMatch
<1> QED BY <1>2, <1>3, <1>4, <1>5, <1>6 DEF all

\* A store leaves the queue, reported, and its snapshot's buffer is dropped.
LEMMA EntryLeaves ==
    ASSUME CacheInv, NEW d \in Arena, NEW i \in DOMAIN pending, Settled(i), Dropped(d)
    PROVE  LET x == pending[i] rest == ToSet(pending) \ {x} IN
           /\ x \in ToSet(pending) /\ x \in EntryRecords
           /\ ToSet(pending') = rest /\ QueueOK(pending')
           /\ TicketsMatch(rest, settled', next_ticket)
           /\ SavedMatch(saved', rest, next_ticket)
           /\ next_ticket \in Nat
<1> DEFINE x == pending[i]
           all == ToSet(pending)
           rest == all \ {x}
<1>1. /\ pending \in Seq(EntryRecords) /\ Injective(pending) /\ i \in 1..Len(pending)
      /\ \A y, z \in all : y.ticket = z.ticket => y = z
      /\ all \subseteq EntryRecords /\ x \in all
  BY SequenceFacts, EntriesFinite DEF CacheInv, QueueOK
<1>2. /\ pending' \in Seq(EntryRecords) /\ ToSet(pending') = rest /\ Injective(pending')
  BY <1>1, RemoveAtSet DEF Settled
<1>3. settled' = [t \in Ticket |-> IF t \in {x.ticket} THEN settled[t] + 1 ELSE settled[t]]
  <2>1. settled \in [Ticket -> Nat]
    BY DEF CacheInv, TicketsMatch
  <2> QED BY <2>1 DEF Settled
<1>4. Unreported(all, {x.ticket}) = rest
  BY <1>1 DEF Unreported
<1> HIDE DEF x, all
<1>5. TicketsMatch(rest, settled', next_ticket)
  <2>1. TicketsMatch(all, settled, next_ticket) /\ {x.ticket} \subseteq {y.ticket : y \in all}
    BY <1>1 DEF CacheInv, all
  <2>2. all \subseteq EntryRecords
    BY <1>1 DEF all
  <2> DEFINE gone == {x.ticket}
  <2>3. /\ settled' = [t \in Ticket |-> IF t \in gone THEN settled[t] + 1 ELSE settled[t]]
        /\ Unreported(all, gone) = rest
    BY <1>3, <1>4
  <2>4. gone \subseteq {y.ticket : y \in all}
    BY <2>1
  <2> HIDE DEF gone, rest
  <2>5. TicketsMatch(Unreported(all, gone),
                     [t \in Ticket |-> IF t \in gone THEN settled[t] + 1 ELSE settled[t]],
                     next_ticket)
    BY ONLY <2>1, <2>2, <2>4, TicketsReported
  <2> QED BY <2>3, <2>5
<1>6. SavedMatch(saved', rest, next_ticket) /\ next_ticket \in Nat
  <2>1. SavedMatch(saved, rest, next_ticket)
    BY SavedOfFewer DEF CacheInv, all
  <2>2. saved' = [saved EXCEPT ![d] = Empty]
    BY DEF Dropped
  <2> QED BY <1>1, <2>1, <2>2, NextIsNat, DroppedKeeps
<1>7. QueueOK(pending')
  BY <1>1, <1>2 DEF QueueOK
<1> QED BY <1>1, <1>2, <1>5, <1>6, <1>7 DEF all, x

-----------------------------------------------------------------------------
(* Storing a snapshot. *)

\* The cache's state read as books, which are sound.
LEMMA CurrentBooks ==
    ASSUME CacheInv
    PROVE  /\ BooksOK(Books) /\ Books.store = store /\ Books.plans = plans
           /\ StoreInv(store, plans)
           /\ plans \in [Key -> PlanRecords \cup {Absent}]
           /\ HasPlan(plans) \subseteq Key
           /\ \A k \in HasPlan(plans) : plans[k].key = k
<1>1. BooksOK(Books) /\ Books.store = store /\ Books.plans = plans
  BY DEF CacheInv, Books
<1> QED BY <1>1, PlansShape DEF BooksOK

\* store_snapshot that cannot start the copy yet queues it, and keeps the invariant.
LEMMA StoreDeferredKeeps ==
    ASSUME CacheInv, NEW d \in Arena, NEW meta \in Meta, StoreDeferred(d, meta)
    PROVE  CacheInv'
<1> DEFINE e == Entry(next_ticket, "deferred", NoKey, meta)
           all == ToSet(pending)
<1>1. /\ next_ticket < MaxKeys /\ pending' = Append(pending, e)
      /\ next_ticket' = next_ticket + 1
      /\ saved' = [saved EXCEPT ![d] = [ticket |-> next_ticket, meta |-> meta]]
      /\ UNCHANGED <<store, plans, payloads, held, settled>>
  BY DEF StoreDeferred, CanStore
<1>2. e \in EntryRecords /\ e.ticket = next_ticket /\ e.payload = meta /\ e.kind = "deferred"
  BY <1>1, NextIsNat, StoreShape DEF Entry, EntryRecords, Ticket, Key
<1>3. TakesBooks(Books)
  BY <1>1 DEF TakesBooks, Books
<1> HIDE DEF e
<1>4. /\ QueueOK(pending') /\ ToSet(pending') = all \cup {e} /\ e \notin all
      /\ TicketsMatch(all \cup {e}, settled, next_ticket + 1)
      /\ SavedMatch(saved', all \cup {e}, next_ticket + 1)
  BY <1>1, <1>2, EntryJoins
<1>5. PlansMatch(plans, all \cup {e}, held)
  <2>1. IssuedIn(all \cup {e}) = IssuedIn(all)
    BY <1>2 DEF IssuedIn
  <2> QED BY <2>1, NoPlanEnds DEF CacheInv
<1>6. KeysLeft(store, all \cup {e}, next_ticket + 1)
  <2>1. DeferredIn(all \cup {e}) = DeferredIn(all) \cup {e} /\ e \notin DeferredIn(all)
    BY <1>2, <1>4 DEF DeferredIn
  <2>2. IsFiniteSet(DeferredIn(all))
    BY EntriesFinite DEF CacheInv
  <2>3. Cardinality(DeferredIn(all \cup {e})) = Cardinality(DeferredIn(all)) + 1
    <3>1. DeferredIn(all) \intersect {e} = {} /\ IsFiniteSet({e}) /\ Cardinality({e}) = 1
      BY <2>1, FS_Singleton
    <3> QED BY <2>1, <2>2, <3>1, CountAdded
  <2> QED BY <1>1, <2>3, NextIsNat, StoreShape DEF KeysLeft
<1>7. BooksOK(Books) /\ Books.store = store /\ Books.plans = plans
  BY CurrentBooks
<1> HIDE DEF all
<1> QED BY <1>1, <1>3, <1>4, <1>5, <1>6, <1>7, Assembled

\* How an issue that may have failed changes the plans in flight or held.
LEMMA IssuePlans ==
    ASSUME CacheInv, NEW meta, NEW o, IssueOK(meta, o), NEW books, books = BooksAfter(o)
    PROVE  /\ BooksOK(books) /\ books.store = o.store
           /\ o.result = "issued" =>
                 /\ books.plans = [plans EXCEPT ![o.plan.key] = o.plan]
                 /\ o.plan.key \in Key /\ o.plan.meta = meta /\ o.plan # Absent
                 /\ o.plan.key \notin HasPlan(plans) /\ HeldAfter(o) = held
           /\ o.result # "issued" =>
                 PlansMatch(books.plans, ToSet(pending), HeldAfter(o))
           /\ o.store.next_key \in {store.next_key, store.next_key + 1}
           /\ o.result = "exhausted" => o.store.next_key = store.next_key
<1>1. /\ BooksOK(books) /\ books.store = o.store
      /\ books.plans = IF o.plan = Absent THEN plans ELSE [plans EXCEPT ![o.plan.key] = o.plan]
  BY BooksAfterKeeps, CurrentBooks
<1>2. PlansMatch(plans, ToSet(pending), held)
      /\ plans \in [Key -> PlanRecords \cup {Absent}]
  BY CurrentBooks DEF CacheInv
<1>3. o.result \in {"issued", "held", "drained", "exhausted"}
      /\ (o.plan # Absent <=> o.result \in {"issued", "held"})
  BY DEF IssueOK
<1>4. o.result \in {"issued", "held"} =>
         /\ o.plan.meta = meta /\ o.plan.key \in Key /\ o.plan.key \notin HasPlan(plans)
  BY DEF IssueOK, Holding
<1>5. /\ o.store.next_key \in {store.next_key, store.next_key + 1}
      /\ o.result = "exhausted" => o.store.next_key = store.next_key
  BY <1>3 DEF IssueOK
<1>6. CASE o.result = "issued"
  BY <1>1, <1>3, <1>4, <1>5, <1>6 DEF HeldAfter
<1>7. CASE o.result = "held"
  <2> DEFINE pl2 == [plans EXCEPT ![o.plan.key] = o.plan]
  <2>1. PlansMatch(pl2, ToSet(pending), held \cup {o.plan.key})
    BY <1>2, <1>3, <1>4, <1>7, PlanBegins
  <2>2. books.plans = pl2 /\ HeldAfter(o) = held \cup {o.plan.key}
    BY <1>1, <1>3, <1>7 DEF HeldAfter
  <2> HIDE DEF pl2
  <2> QED BY <1>1, <1>5, <1>7, <2>1, <2>2
<1>8. CASE o.result \in {"drained", "exhausted"}
  <2>1. books.plans = plans /\ HeldAfter(o) = held
    BY <1>1, <1>3, <1>8 DEF HeldAfter
  <2> QED BY <1>1, <1>2, <1>5, <1>8, <2>1
<1> QED BY <1>3, <1>6, <1>7, <1>8

\* store_snapshot that starts the copy at once keeps the invariant.
LEMMA StoreIssuedKeeps ==
    ASSUME CacheInv, NEW d \in Arena, NEW meta \in Meta, StoreIssued(d, meta)
    PROVE  CacheInv'
<1> DEFINE all == ToSet(pending)
<1>1. next_ticket < MaxKeys /\ store.next_key < MaxKeys
  BY NextIsNat, StoreShape DEF StoreIssued, CanStore
<1>2. PICK o \in Issues(meta, d, DeviceWith(meta, d)) :
        /\ TakesBooks(BooksAfter(o))
        /\ held' = HeldAfter(o)
        /\ IF o.result = "exhausted"
           THEN /\ saved' = [saved EXCEPT ![d] = [ticket |-> NoTicket, meta |-> meta]]
                /\ UNCHANGED <<pending, next_ticket>>
           ELSE /\ saved' = [saved EXCEPT ![d] = [ticket |-> next_ticket, meta |-> meta]]
                /\ next_ticket' = next_ticket + 1
                /\ pending' = Append(pending,
                     IF o.result = "issued"
                     THEN Entry(next_ticket, "issued", o.plan.key, meta)
                     ELSE Entry(next_ticket, "failed", NoKey, meta))
  BY DEF StoreIssued
<1>3. settled' = settled
  BY DEF StoreIssued
<1>4. IssueOK(meta, o)
  BY <1>1, CurrentBooks, IssuesKeep
<1> DEFINE books == BooksAfter(o)
<1>5. TakesBooks(books)
  BY <1>2
<1> HIDE DEF books
<1>6. /\ BooksOK(books) /\ books.store = o.store
      /\ o.result = "issued" =>
            /\ books.plans = [plans EXCEPT ![o.plan.key] = o.plan]
            /\ o.plan.key \in Key /\ o.plan.meta = meta /\ o.plan # Absent
            /\ o.plan.key \notin HasPlan(plans) /\ HeldAfter(o) = held
      /\ o.result # "issued" => PlansMatch(books.plans, all, HeldAfter(o))
      /\ o.store.next_key \in {store.next_key, store.next_key + 1}
      /\ o.result = "exhausted" => o.store.next_key = store.next_key
  BY <1>4, IssuePlans DEF books
<1>7. /\ next_ticket \in Nat /\ store.next_key \in Nat
      /\ store.next_key + Cardinality(DeferredIn(all)) <= next_ticket
      /\ Cardinality(DeferredIn(all)) \in Nat
      /\ all \subseteq EntryRecords
  BY NextIsNat, EntriesFinite DEF CacheInv
<1> HIDE DEF all
<1>8. CASE o.result = "exhausted"
  <2>1. KeysLeft(books.store, all, next_ticket)
    BY <1>6, <1>8 DEF CacheInv, KeysLeft, all
  <2>2. SavedMatch(saved', all, next_ticket)
    <3>1. SavedMatch(saved, all, next_ticket) /\ meta \in Meta \cup {NoPayload}
      BY DEF CacheInv, all
    <3>2. saved' = [saved EXCEPT ![d] = [ticket |-> NoTicket, meta |-> meta]]
      BY <1>2, <1>8
    <3>3. SavedMatch([saved EXCEPT ![d] = [ticket |-> NoTicket, meta |-> meta]],
                     all, next_ticket)
      BY ONLY <1>7, <3>1, SavedWithout, d \in Arena
    <3> QED BY <3>2, <3>3
  <2>3. PlansMatch(books.plans, all, held')
    BY <1>2, <1>6, <1>8
  <2>4. pending' = pending /\ next_ticket' = next_ticket /\ ToSet(pending') = all
    BY <1>2, <1>8 DEF all
  <2> QED BY <1>3, <1>5, <1>6, <2>1, <2>2, <2>3, <2>4, Assembled DEF CacheInv, all
<1>9. CASE o.result # "exhausted"
  <2> DEFINE e == IF o.result = "issued" THEN Entry(next_ticket, "issued", o.plan.key, meta)
                  ELSE Entry(next_ticket, "failed", NoKey, meta)
  <2>1. /\ e \in EntryRecords /\ e.ticket = next_ticket /\ e.payload = meta
        /\ e.kind = (IF o.result = "issued" THEN "issued" ELSE "failed")
        /\ o.result = "issued" => e.key = o.plan.key
    <3>1. next_ticket \in Ticket
      BY <1>1, <1>7, StoreShape DEF Ticket, Key
    <3>2. CASE o.result = "issued"
      BY <1>6, <3>1, <3>2 DEF Entry, EntryRecords
    <3>3. CASE o.result # "issued"
      BY <3>1, <3>3 DEF Entry, EntryRecords
    <3> QED BY <3>2, <3>3
  <2>2. /\ pending' = Append(pending, e) /\ next_ticket' = next_ticket + 1
        /\ saved' = [saved EXCEPT ![d] = [ticket |-> next_ticket, meta |-> meta]]
    BY <1>2, <1>9
  <2> HIDE DEF e
  <2>3. /\ QueueOK(pending') /\ ToSet(pending') = all \cup {e} /\ e \notin all
        /\ TicketsMatch(all \cup {e}, settled, next_ticket + 1)
        /\ SavedMatch(saved', all \cup {e}, next_ticket + 1)
    BY <1>1, <2>1, <2>2, EntryJoins DEF all
  <2>4. PlansMatch(books.plans, all \cup {e}, held')
    <3>1. CASE o.result = "issued"
      <4>1. PlansMatch(plans, all, held) /\ plans \in [Key -> PlanRecords \cup {Absent}]
        BY CurrentBooks DEF CacheInv, all
      <4>2. e.kind = "issued" /\ e.key = o.plan.key /\ e.payload = o.plan.meta
        BY <1>6, <2>1, <3>1
      <4>3. PlansMatch([plans EXCEPT ![o.plan.key] = o.plan], all \cup {e}, held)
        BY <1>6, <3>1, <4>1, <4>2, PlanBegins
      <4> QED BY <1>2, <1>6, <3>1, <4>3
    <3>2. CASE o.result # "issued"
      <4>1. IssuedIn(all \cup {e}) = IssuedIn(all)
        BY <2>1, <3>2 DEF IssuedIn
      <4>2. PlansMatch(books.plans, all, held')
        BY <1>2, <1>6, <3>2
      <4> QED BY <4>1, <4>2, NoPlanEnds
    <3> QED BY <3>1, <3>2
  <2>5. KeysLeft(books.store, all \cup {e}, next_ticket + 1)
    <3>1. DeferredIn(all \cup {e}) = DeferredIn(all)
      BY <2>1 DEF DeferredIn
    <3>2. next_ticket + 1 \in 0..MaxKeys
      BY <1>1, <1>7, StoreShape
    <3> QED BY <1>6, <1>7, <3>1, <3>2 DEF KeysLeft
  <2> HIDE DEF books
  <2> QED BY <1>3, <1>5, <1>6, <2>2, <2>3, <2>4, <2>5, Assembled
<1> QED BY <1>8, <1>9

-----------------------------------------------------------------------------
(* Evicting a device snapshot. *)

\* Waiting for one copy and settling it, committed or failed, ends that plan and no other.
LEMMA WaitKeeps ==
    ASSUME NEW books, BooksOK(books), NEW k \in HasPlan(books.plans), NEW queue, NEW mem,
           WaitAndSettle(books, books.plans[k], queue, mem, books.plans[k].meta)
    PROVE  \E next : Ended(books, next, k) /\ TakesBooks(next)
<1>1. PICK completed \in BOOLEAN :
         TakesBooks(IF completed THEN CommittedPlan(books, books.plans[k], books.plans[k].meta)
                    ELSE ReleasedPlan(books, books.plans[k]))
  BY DEF WaitAndSettle
<1>2. CASE completed
  BY <1>1, <1>2, CommittedPlanKeeps
<1>3. CASE ~completed
  BY <1>1, <1>3, ReleasedPlanKeeps
<1> QED BY <1>2, <1>3

\* Evicting a device bank whose save was issued waits for that copy and keeps the invariant.
LEMMA EvictIssuedKeeps ==
    ASSUME CacheInv, NEW d \in Arena, EvictIssued(d)
    PROVE  CacheInv'
<1>1. PICK i \in PositionOf(saved[d].ticket) :
        /\ pending[i].kind = "issued"
        /\ WaitAndSettle(Books, plans[pending[i].key], stream, memory,
                         pending[i].payload)
        /\ Settled(i)
        /\ Dropped(d)
        /\ UNCHANGED <<mode, next_ticket, held>>
  BY DEF EvictIssued
<1> DEFINE x == pending[i]
           all == ToSet(pending)
           rest == all \ {x}
           k == x.key
<1>2. i \in DOMAIN pending
  BY DEF PositionOf
<1>3. /\ x \in all /\ x \in EntryRecords /\ ToSet(pending') = rest /\ QueueOK(pending')
      /\ TicketsMatch(rest, settled', next_ticket)
      /\ SavedMatch(saved', rest, next_ticket) /\ next_ticket \in Nat
  BY <1>1, <1>2, EntryLeaves
<1>4. BooksOK(Books) /\ Books.plans = plans /\ Books.store = store
      /\ plans \in [Key -> PlanRecords \cup {Absent}]
  BY CurrentBooks
<1>5. PlansMatch(plans, all, held)
  BY DEF CacheInv
<1>6. x.kind = "issued" /\ WaitAndSettle(Books, plans[k], stream, memory, x.payload)
      /\ next_ticket' = next_ticket /\ held' = held
  BY <1>1
<1> HIDE DEF x, all, k
<1>7. x \in IssuedIn(all)
  BY <1>3, <1>6 DEF IssuedIn
<1>8. k \in HasPlan(plans) /\ plans[k].meta = x.payload
  BY <1>5, <1>7 DEF PlansMatch, k
<1>9. WaitAndSettle(Books, Books.plans[k], stream, memory, Books.plans[k].meta)
  BY <1>4, <1>6, <1>8
<1>10. PICK next : Ended(Books, next, k) /\ TakesBooks(next)
  BY <1>4, <1>8, <1>9, WaitKeeps
<1>11. /\ BooksOK(next) /\ next.plans = [plans EXCEPT ![k] = Absent]
       /\ next.store.next_key = store.next_key
  BY <1>4, <1>10 DEF Ended
<1>12. PlansMatch(next.plans, rest, held')
  <2>1. PlansMatch([plans EXCEPT ![x.key] = Absent], all \ {x}, held)
    BY ONLY <1>4, <1>5, <1>7, PlanEnds
  <2> QED BY <1>6, <1>11, <2>1 DEF k
<1>13. KeysLeft(next.store, rest, next_ticket)
  <2>1. DeferredIn(rest) = DeferredIn(all)
    BY <1>6 DEF DeferredIn
  <2> QED BY <1>11, <2>1 DEF CacheInv, KeysLeft, all
<1> HIDE DEF rest
<1> QED BY <1>3, <1>6, <1>10, <1>11, <1>12, <1>13, Assembled

\* A deferred store that leaves the queue leaves its key to be used.
LEMMA DeferredLeaves ==
    ASSUME CacheInv, NEW x \in ToSet(pending), x.kind = "deferred"
    PROVE  LET rest == ToSet(pending) \ {x} IN
           /\ IssuedIn(rest) = IssuedIn(ToSet(pending))
           /\ Cardinality(DeferredIn(rest)) \in Nat
           /\ store.next_key + 1 + Cardinality(DeferredIn(rest)) <= next_ticket
<1> DEFINE all == ToSet(pending)
           rest == all \ {x}
<1>1. DeferredIn(rest) = DeferredIn(all) \ {x} /\ {x} \subseteq DeferredIn(all)
  BY DEF DeferredIn
<1>2. IssuedIn(rest) = IssuedIn(all)
  BY DEF IssuedIn
<1>3. IsFiniteSet(DeferredIn(all)) /\ Cardinality(DeferredIn(all)) \in Nat
  BY EntriesFinite DEF CacheInv
<1>4. Cardinality({x}) = 1
  BY FS_Singleton
<1> HIDE DEF rest, all
<1>5. Cardinality(DeferredIn(rest)) = Cardinality(DeferredIn(all)) - 1
      /\ Cardinality(DeferredIn(rest)) \in Nat
  BY <1>1, <1>3, <1>4, CountRemoved
<1>6. /\ next_ticket \in Nat /\ store.next_key \in Nat
      /\ store.next_key + Cardinality(DeferredIn(all)) <= next_ticket
  BY NextIsNat DEF all
<1> QED BY <1>2, <1>3, <1>5, <1>6 DEF rest, all

\* Evicting a device bank whose save is still deferred starts and settles it, and keeps the
\* invariant.
LEMMA EvictDeferredKeeps ==
    ASSUME CacheInv, NEW d \in Arena, EvictDeferred(d)
    PROVE  CacheInv'
<1>1. PICK i \in PositionOf(saved[d].ticket) :
        /\ pending[i].kind = "deferred"
        /\ \E o \in Issues(saved[d].meta, d, device) :
            /\ held' = HeldAfter(o)
            /\ IF o.result = "issued"
               THEN WaitAndSettle(BooksAfter(o), o.plan, o.stream, o.memory,
                                  pending[i].payload)
               ELSE TakesBooks(BooksAfter(o))
        /\ Settled(i)
        /\ Dropped(d)
        /\ UNCHANGED <<mode, next_ticket>>
  BY DEF EvictDeferred
<1> DEFINE x == pending[i]
           all == ToSet(pending)
           rest == all \ {x}
           meta == saved[d].meta
<1>2. i \in DOMAIN pending /\ x.ticket = saved[d].ticket
  BY DEF PositionOf
<1>3. /\ x \in all /\ x \in EntryRecords /\ ToSet(pending') = rest /\ QueueOK(pending')
      /\ TicketsMatch(rest, settled', next_ticket)
      /\ SavedMatch(saved', rest, next_ticket) /\ next_ticket \in Nat
  BY <1>1, <1>2, EntryLeaves
<1>4. meta = x.payload /\ meta \in Meta
  <2>1. \A y \in all : y.ticket = saved[d].ticket => saved[d].meta = y.payload
    BY DEF CacheInv, SavedMatch
  <2>2. x.payload \in Meta
    BY <1>3 DEF EntryRecords
  <2> QED BY <1>2, <1>3, <2>1, <2>2
<1>5. /\ IssuedIn(rest) = IssuedIn(all)
      /\ Cardinality(DeferredIn(rest)) \in Nat
      /\ store.next_key + 1 + Cardinality(DeferredIn(rest)) <= next_ticket
  BY <1>1, <1>3, DeferredLeaves
<1>6. PICK o \in Issues(meta, d, device) :
        /\ held' = HeldAfter(o)
        /\ IF o.result = "issued"
           THEN WaitAndSettle(BooksAfter(o), o.plan, o.stream, o.memory, x.payload)
           ELSE TakesBooks(BooksAfter(o))
  BY <1>1
<1>7. next_ticket' = next_ticket
  BY <1>1
<1> HIDE DEF x, all, meta
<1>8. /\ next_ticket \in Nat /\ next_ticket <= MaxKeys /\ store.next_key \in Nat
      /\ store.next_key < MaxKeys
  BY <1>5, NextIsNat, StoreShape
<1>9. IssueOK(meta, o)
  BY <1>4, <1>6, <1>8, CurrentBooks, IssuesKeep
<1> DEFINE books == BooksAfter(o)
<1>10. /\ BooksOK(books) /\ books.store = o.store
       /\ o.result = "issued" =>
             /\ books.plans = [plans EXCEPT ![o.plan.key] = o.plan]
             /\ o.plan.key \in Key /\ o.plan.meta = meta /\ o.plan # Absent
             /\ o.plan.key \notin HasPlan(plans) /\ HeldAfter(o) = held
       /\ o.result # "issued" => PlansMatch(books.plans, all, HeldAfter(o))
       /\ o.store.next_key \in {store.next_key, store.next_key + 1}
  BY <1>9, IssuePlans DEF all
<1>11. IF o.result = "issued"
       THEN WaitAndSettle(books, o.plan, o.stream, o.memory, x.payload)
       ELSE TakesBooks(books)
  BY <1>6
<1> HIDE DEF books
<1>12. \E next : /\ BooksOK(next) /\ TakesBooks(next)
                 /\ PlansMatch(next.plans, all, held')
                 /\ next.store.next_key = o.store.next_key
  <2>1. CASE o.result # "issued"
    BY <1>6, <1>10, <1>11, <2>1
  <2>2. CASE o.result = "issued"
    <3> DEFINE k == o.plan.key
    <3>1. /\ books.plans = [plans EXCEPT ![k] = o.plan] /\ k \in Key
          /\ o.plan.meta = x.payload /\ o.plan # Absent
          /\ k \notin HasPlan(plans) /\ held' = held
      BY <1>4, <1>6, <1>10, <2>2
    <3>2. plans \in [Key -> PlanRecords \cup {Absent}] /\ PlansMatch(plans, all, held)
      BY CurrentBooks DEF CacheInv, all
    <3> HIDE DEF k
    <3>3. books.plans[k] = o.plan /\ k \in HasPlan(books.plans)
      BY <3>1, <3>2 DEF HasPlan
    <3>4. WaitAndSettle(books, books.plans[k], o.stream, o.memory, books.plans[k].meta)
      BY <1>11, <2>2, <3>1, <3>3
    <3>5. PICK next : Ended(books, next, k) /\ TakesBooks(next)
      BY <1>10, <3>3, <3>4, WaitKeeps
    <3>6. plans[k] = Absent
      BY <3>1 DEF HasPlan
    <3>7. next.plans = plans
      BY <3>1, <3>2, <3>5, <3>6 DEF Ended
    <3>8. BooksOK(next) /\ next.store.next_key = o.store.next_key
      BY <1>10, <3>5 DEF Ended
    <3> QED BY <3>1, <3>2, <3>5, <3>7, <3>8
  <2> QED BY <2>1, <2>2
<1>13. PICK next : /\ BooksOK(next) /\ TakesBooks(next)
                   /\ PlansMatch(next.plans, all, held')
                   /\ next.store.next_key = o.store.next_key
  BY <1>12
<1>14. PlansMatch(next.plans, rest, held')
  BY <1>5, <1>13, NoPlanEnds
<1>15. KeysLeft(next.store, rest, next_ticket)
  BY <1>5, <1>8, <1>10, <1>13, StoreShape DEF KeysLeft
<1> HIDE DEF rest
<1> QED BY <1>3, <1>7, <1>13, <1>14, <1>15, Assembled

\* Evicting a device bank whose save cannot start reports the failure and keeps the invariant.
LEMMA EvictFailedKeeps ==
    ASSUME CacheInv, NEW d \in Arena, EvictFailed(d)
    PROVE  CacheInv'
<1>1. PICK i \in PositionOf(saved[d].ticket) :
        /\ pending[i].kind = "failed"
        /\ Settled(i)
        /\ Dropped(d)
        /\ UNCHANGED <<store, plans, next_ticket, payloads, held>>
  BY DEF EvictFailed
<1> DEFINE x == pending[i]
           all == ToSet(pending)
           rest == all \ {x}
<1>2. i \in DOMAIN pending
  BY DEF PositionOf
<1>3. /\ x \in all /\ x \in EntryRecords /\ ToSet(pending') = rest /\ QueueOK(pending')
      /\ TicketsMatch(rest, settled', next_ticket)
      /\ SavedMatch(saved', rest, next_ticket) /\ next_ticket \in Nat
  BY <1>1, <1>2, EntryLeaves
<1>4. BooksOK(Books) /\ Books.plans = plans /\ Books.store = store /\ TakesBooks(Books)
  BY <1>1, CurrentBooks DEF TakesBooks, Books
<1>5. IssuedIn(rest) = IssuedIn(all) /\ DeferredIn(rest) = DeferredIn(all)
  BY <1>1 DEF IssuedIn, DeferredIn
<1> HIDE DEF x
<1>6. PlansMatch(plans, rest, held)
  BY <1>5, NoPlanEnds DEF CacheInv
<1>7. KeysLeft(store, rest, next_ticket)
  BY <1>5 DEF CacheInv, KeysLeft
<1> HIDE DEF rest, all
<1> QED BY <1>1, <1>3, <1>4, <1>6, <1>7, Assembled

\* Evicting a device bank with nothing in flight changes the bank alone.
LEMMA EvictCleanKeeps ==
    ASSUME CacheInv, NEW d \in Arena, EvictClean(d)
    PROVE  CacheInv'
<1>1. /\ saved' = [saved EXCEPT ![d] = Empty]
      /\ UNCHANGED <<store, plans, pending, next_ticket, payloads, held, settled>>
  BY DEF EvictClean, Dropped, cache_vars
<1>2. SavedMatch(saved', ToSet(pending), next_ticket)
  <2>1. SavedMatch(saved, ToSet(pending), next_ticket)
        /\ ToSet(pending) \subseteq EntryRecords /\ next_ticket \in Nat
    BY EntriesFinite, NextIsNat DEF CacheInv
  <2> QED BY <1>1, <2>1, DroppedKeeps
<1>3. StoreInv(store, plans) /\ PayloadsMatch(store, payloads)
  BY CurrentBooks DEF CacheInv, BooksOK, Books
<1> QED BY <1>1, <1>2, <1>3, StoreOnly

-----------------------------------------------------------------------------
(* Restoring a snapshot, looking one up, freeing a page. *)

Registrations(st, s, ids, n, f) ==
    f = [i \in 0..n |-> IF i = 0 THEN st ELSE Registered(f[i - 1], ids[i], s.pages[i])]

\* The function of "the store after registering i restored pages" exists, for every list of
\* pages.
LEMMA RegistrationsExist ==
    ASSUME NEW st, NEW s, NEW ids, NEW n \in Nat
    PROVE  \E f : Registrations(st, s, ids, n, f)
<1> DEFINE T == {m \in Nat : \E f : Registrations(st, s, ids, m, f)}
<1>1. 0 \in T
  <2>1. Registrations(st, s, ids, 0, [i \in 0..0 |-> st])
    BY DEF Registrations
  <2> QED BY <2>1
<1>2. ASSUME NEW m \in Nat, m \in T PROVE m + 1 \in T
  <2>1. PICK f : Registrations(st, s, ids, m, f)
    BY <1>2
  <2> DEFINE g == [i \in 0..m + 1 |->
                      IF i = m + 1 THEN Registered(f[m], ids[m + 1], s.pages[m + 1])
                      ELSE f[i]]
  <2>2. \A i \in 0..m :
           f[i] = IF i = 0 THEN st ELSE Registered(f[i - 1], ids[i], s.pages[i])
    BY <2>1 DEF Registrations
  <2>3. \A i \in 0..m + 1 :
           g[i] = IF i = 0 THEN st ELSE Registered(g[i - 1], ids[i], s.pages[i])
    BY <2>2
  <2>4. Registrations(st, s, ids, m + 1, g)
    <3>1. g = [i \in 0..m + 1 |-> g[i]]
      OBVIOUS
    <3> HIDE DEF g
    <3> QED BY <2>3, <3>1 DEF Registrations
  <2> QED BY <2>4
<1> HIDE DEF T
<1>3. n \in T
  BY <1>1, <1>2, SetInduction
<1> QED BY <1>3 DEF T

\* RegisteredAll registers the pages of a restored snapshot one after the other.
LEMMA RegisteredAllFacts ==
    ASSUME NEW st, NEW s, NEW ids, Len(ids) \in Nat
    PROVE  \E f : /\ RegisteredAll(st, s, ids) = f[Len(ids)]
                  /\ f[0] = st
                  /\ \A i \in 1..Len(ids) :
                        f[i] = Registered(f[i - 1], ids[i], s.pages[i])
<1> DEFINE f == CHOOSE f : Registrations(st, s, ids, Len(ids), f)
<1>1. Registrations(st, s, ids, Len(ids), f)
  BY RegistrationsExist
<1>2. RegisteredAll(st, s, ids) = f[Len(ids)]
  BY DEF RegisteredAll, Registrations
<1> HIDE DEF f
<1>3. /\ f[0] = st
      /\ \A i \in 1..Len(ids) : f[i] = Registered(f[i - 1], ids[i], s.pages[i])
  BY <1>1 DEF Registrations
<1> QED BY <1>2, <1>3

\* Registering the pages of a resident snapshot, one after the other.
LEMMA RegisteredAllKeeps ==
    ASSUME NEW st, NEW pl, StoreInv(st, pl), NEW k \in Resident(st),
           NEW ids \in Seq(PageId), DOMAIN ids = DOMAIN st.snapshots[k].pages
    PROVE  LET t == RegisteredAll(st, st.snapshots[k], ids) IN
           /\ StoreInv(t, pl) /\ t.snapshots = st.snapshots
           /\ t.next_key = st.next_key
<1> DEFINE s == st.snapshots[k]
<1>1. Len(ids) \in Nat /\ DOMAIN ids = 1..Len(ids) /\ \A i \in 1..Len(ids) : ids[i] \in PageId
  BY ONLY ids \in Seq(PageId), SequenceFacts
<1>2. PICK f : /\ RegisteredAll(st, s, ids) = f[Len(ids)]
               /\ f[0] = st
               /\ \A i \in 1..Len(ids) : f[i] = Registered(f[i - 1], ids[i], s.pages[i])
  BY <1>1, RegisteredAllFacts
<1> DEFINE Good(u) ==
              StoreInv(u, pl) /\ u.snapshots = st.snapshots /\ u.next_key = st.next_key
           T == {n \in Nat : n <= Len(ids) => Good(f[n])}
<1>3. 0 \in T
  BY <1>2
<1>4. ASSUME NEW n \in Nat, n \in T PROVE n + 1 \in T
  <2> SUFFICES ASSUME n + 1 <= Len(ids) PROVE Good(f[n + 1])
    OBVIOUS
  <2> DEFINE u == f[n]
             i == n + 1
  <2>1. Good(u) /\ i \in 1..Len(ids) /\ f[i] = Registered(u, ids[i], s.pages[i])
    <3>1. n <= Len(ids) /\ n + 1 \in 1..Len(ids) /\ (n + 1) - 1 = n
      BY <1>1
    <3> QED BY <1>2, <1>4, <3>1
  <2> HIDE DEF u, i
  <2>2. /\ k \in Resident(u) /\ s = u.snapshots[k]
        /\ i \in DOMAIN u.snapshots[k].pages /\ ids[i] \in PageId
    BY <1>1, <2>1 DEF Resident
  <2>3. LET t == Registered(u, ids[i], u.snapshots[k].pages[i]) IN
        StoreInv(t, pl) /\ t.snapshots = u.snapshots /\ t.next_key = u.next_key
    BY <2>1, <2>2, RegisteredKeeps
  <2>4. Good(f[i])
    BY <2>1, <2>2, <2>3
  <2> QED BY <2>4 DEF i
<1> HIDE DEF T
<1>5. Len(ids) \in T
  BY <1>1, <1>3, <1>4, SetInduction
<1> QED BY <1>1, <1>2, <1>5 DEF T

\* Restoring a snapshot registers the pages the device now holds and keeps the invariant.
LEMMA RestoreKeeps ==
    ASSUME CacheInv, NEW k \in Resident(store), NEW d \in Arena, NEW m \in Meta,
           Restore(k, d, m.pages)
    PROVE  CacheInv'
<1> DEFINE s == store.snapshots[k]
           ids == m.pages
           meta == [s.meta EXCEPT !.pages = ids]
           t == RegisteredAll(store, s, ids)
<1>1. /\ meta \in Meta /\ store' = t
      /\ saved' = [saved EXCEPT ![d] = [ticket |-> NoTicket, meta |-> meta]]
      /\ UNCHANGED <<plans, pending, next_ticket, payloads, held, settled>>
  BY DEF Restore, RestoresTo
<1>2. StoreInv(store, plans) /\ PayloadsMatch(store, payloads)
  BY CurrentBooks DEF CacheInv, BooksOK, Books
<1>3. s.meta \in Meta /\ DOMAIN s.pages = DOMAIN s.meta.pages
  <2>1. store \in StoreRecords /\ PlansExact(store, plans)
    BY <1>2 DEF StoreInv
  <2>2. s \in SnapshotRecords
    BY <2>1, Shapes
  <2> QED BY <2>1, <2>2 DEF PlansExact, SnapshotRecords
<1> HIDE DEF s
<1>4. ids \in Seq(PageId) /\ DOMAIN ids = DOMAIN s.pages
  <2>1. /\ s.meta \in [kind : Kind, tokens : Seq(Nat), pages : Seq(PageId), parts : Nat]
        /\ m.pages \in Seq(PageId)
    BY <1>3, MetaShape
  <2>2. meta.tokens = s.meta.tokens /\ meta.pages = ids
    BY <2>1
  <2> HIDE DEF meta
  <2>3. Len(ids) = Len(s.meta.pages)
    BY <1>1, <1>3, <2>2, CacheShape
  <2> QED BY <1>3, <2>1, <2>3
<1> HIDE DEF ids, meta
<1>5. StoreInv(t, plans) /\ t.snapshots = store.snapshots /\ t.next_key = store.next_key
  BY <1>2, <1>4, RegisteredAllKeeps DEF s
<1> HIDE DEF t
<1>6. PayloadsMatch(t, payloads)
  BY <1>2, <1>5 DEF PayloadsMatch, Resident
<1>7. SavedMatch(saved', ToSet(pending), next_ticket)
  <2>1. /\ SavedMatch(saved, ToSet(pending), next_ticket)
        /\ ToSet(pending) \subseteq EntryRecords /\ next_ticket \in Nat
        /\ meta \in Meta \cup {NoPayload}
    BY <1>1, EntriesFinite, NextIsNat DEF CacheInv
  <2>2. SavedMatch([saved EXCEPT ![d] = [ticket |-> NoTicket, meta |-> meta]],
                   ToSet(pending), next_ticket)
    BY ONLY <2>1, SavedWithout, d \in Arena
  <2> QED BY <1>1, <2>2
<1> QED BY <1>1, <1>5, <1>6, <1>7, StoreOnly

\* A lookup that is not followed by a restore only renews the snapshot's age.
LEMMA LookupOnlyKeeps ==
    ASSUME CacheInv, NEW k \in Resident(store), LookupOnly(k)
    PROVE  CacheInv'
<1> DEFINE n == store.snapshots[k].meta.kind
           t == [store EXCEPT !.bank[n] = Accessed(@, k)]
<1>1. /\ store' = t
      /\ UNCHANGED <<plans, pending, next_ticket, payloads, held, settled, saved>>
  BY DEF LookupOnly, Lookup, engine_vars
<1>2. StoreInv(store, plans) /\ PayloadsMatch(store, payloads)
  BY CurrentBooks DEF CacheInv, BooksOK, Books
<1>3. n \in Kind /\ k \in ToSet(store.bank[n])
  <2>1. store \in StoreRecords /\ PlansExact(store, plans) /\ BanksExact(store)
    BY <1>2 DEF StoreInv
  <2>2. store.snapshots[k] \in SnapshotRecords
    BY <2>1, Shapes
  <2>3. n \in Kind
    BY <2>2, MetaShape DEF SnapshotRecords
  <2> QED BY <2>1, <2>3 DEF BanksExact, Lists
<1>4. SameBooks(store, t) /\ StoreInv(t, plans)
  BY <1>2, <1>3, AccessedKeeps
<1> HIDE DEF t
<1>5. PayloadsMatch(t, payloads) /\ t.next_key = store.next_key
  BY <1>2, <1>4 DEF PayloadsMatch, Resident, SameBooks
<1> QED BY <1>1, <1>4, <1>5, StoreOnly DEF CacheInv

\* Freeing a device page, told to the cache or not, leaves the store's slabs alone.
LEMMA FreePageKeeps ==
    ASSUME CacheInv, NEW id \in PageId, NEW told, FreePage(id, told)
    PROVE  CacheInv'
<1>1. /\ store' = IF told THEN Freed(store, id) ELSE store
      /\ UNCHANGED <<plans, pending, next_ticket, payloads, held, settled, saved>>
  BY DEF FreePage
<1>2. StoreInv(store, plans) /\ PayloadsMatch(store, payloads)
  BY CurrentBooks DEF CacheInv, BooksOK, Books
<1> DEFINE t == Freed(store, id)
<1>3. /\ StoreInv(t, plans) /\ t.snapshots = store.snapshots
      /\ t.next_key = store.next_key
  BY <1>2, FreedKeeps
<1>4. PayloadsMatch(t, payloads)
  BY <1>2, <1>3 DEF PayloadsMatch, Resident
<1>5. store' \in {t, store}
  BY <1>1
<1> HIDE DEF t
<1>6. SavedMatch(saved', ToSet(pending), next_ticket)
  BY <1>1 DEF CacheInv
<1> QED BY <1>1, <1>2, <1>3, <1>4, <1>5, <1>6, StoreOnly

-----------------------------------------------------------------------------
(* The invariant of the cache and what follows from it. *)

\* The initial state of the cache satisfies the inductive invariant.
LEMMA InitCacheInv == CacheInit => CacheInv
<1> SUFFICES ASSUME CacheInit PROVE CacheInv
  OBVIOUS
<1>1. /\ Init /\ pending = <<>> /\ next_ticket = 0 /\ held = {}
      /\ payloads = [k \in Key |-> NoPayload]
      /\ saved = [d \in Arena |-> Empty]
      /\ settled = [t \in Ticket |-> 0]
  BY DEF CacheInit
<1>2. /\ StoreInv(store, plans) /\ store.next_key = 0
      /\ Resident(store) = {} /\ HasPlan(plans) = {}
  <2>1. store.next_key = 0 /\ Resident(store) = {} /\ HasPlan(plans) = {}
    BY <1>1 DEF Init, Resident, HasPlan, Absent
  <2> QED BY <1>1, <2>1, InitStoreInv
<1>3. ToSet(pending) = {} /\ pending \in Seq(EntryRecords) /\ Injective(pending)
  BY <1>1 DEF ToSet, Injective
<1>4. BooksOK(Books)
  <2>1. PayloadsMatch(store, payloads)
    BY <1>1, <1>2 DEF PayloadsMatch
  <2> QED BY <1>2, <2>1 DEF BooksOK, Books
<1>5. QueueOK(pending)
  BY <1>3 DEF QueueOK
<1>6. PlansMatch(plans, ToSet(pending), held)
  BY <1>1, <1>2, <1>3 DEF PlansMatch, IssuedIn
<1>7. TicketsMatch(ToSet(pending), settled, next_ticket)
  BY <1>1, <1>3 DEF TicketsMatch, Ticket, Key
<1>8. SavedMatch(saved, ToSet(pending), next_ticket)
  BY <1>1, <1>3 DEF SavedMatch, Empty, NoTicket
<1>9. KeysLeft(store, ToSet(pending), next_ticket)
  <2>1. DeferredIn({}) = {} /\ Cardinality({}) = 0
    BY FS_EmptySet DEF DeferredIn
  <2>2. Cardinality(DeferredIn(ToSet(pending))) = 0
    BY <1>3, <2>1
  <2>3. next_ticket \in 0..MaxKeys
    BY <1>1, StoreShape
  <2> QED BY <1>1, <1>2, <2>2, <2>3 DEF KeysLeft
<1> QED BY <1>4, <1>5, <1>6, <1>7, <1>8, <1>9 DEF CacheInv

\* Steps of the streams and of a restore that timed out touch bytes only.
LEMMA SameCache ==
    ASSUME CacheInv,
           UNCHANGED <<store, plans, pending, next_ticket, payloads, held, settled, saved>>
    PROVE  CacheInv'
<1>1. StoreInv(store, plans) /\ PayloadsMatch(store, payloads)
  BY CurrentBooks DEF CacheInv, BooksOK, Books
<1>2. SavedMatch(saved', ToSet(pending), next_ticket)
  BY DEF CacheInv
<1> QED BY <1>1, <1>2, StoreOnly

\* Every call of the owner keeps the invariant.
LEMMA CallKeeps == ASSUME CacheInv, CallNext PROVE CacheInv'
<1>1. ASSUME NEW d \in Arena, NEW m \in Meta, Store(d, m) PROVE CacheInv'
  BY <1>1, StoreDeferredKeeps, StoreIssuedKeeps DEF Store
<1>2. ASSUME TickAny PROVE CacheInv'
  BY <1>2, TickKeeps DEF TickAny
<1>3. ASSUME NEW d \in Arena, Evict(d) PROVE CacheInv'
  BY <1>3, EvictCleanKeeps, EvictIssuedKeeps, EvictDeferredKeeps, EvictFailedKeeps DEF Evict
<1>4. ASSUME NEW k \in Resident(store), NEW d \in Arena, NEW m \in Meta,
             Restore(k, d, m.pages)
      PROVE  CacheInv'
  BY <1>4, RestoreKeeps
<1>5. ASSUME NEW k \in Resident(store), LookupOnly(k) PROVE CacheInv'
  BY <1>5, LookupOnlyKeeps
<1>6. ASSUME NEW id \in PageId, NEW told \in BOOLEAN, FreePage(id, told) PROVE CacheInv'
  BY <1>6, FreePageKeeps
<1> QED BY <1>1, <1>2, <1>3, <1>4, <1>5, <1>6 DEF CallNext

\* Every step of the cache keeps the invariant.
LEMMA NextCacheInv == CacheInv /\ [CacheNext]_all_vars => CacheInv'
<1> SUFFICES ASSUME CacheInv, [CacheNext]_all_vars PROVE CacheInv'
  OBVIOUS
<1>1. CASE CallNext
  BY <1>1, CallKeeps
<1>2. CASE CopyNext
  BY <1>2, SameCache DEF CopyNext, engine_vars
<1>3. ASSUME NEW k, NEW d, NEW ids, RestoreTimesOut(k, d, ids) PROVE CacheInv'
  BY <1>3, SameCache DEF RestoreTimesOut, cache_vars, engine_vars
<1>4. CASE UploadNext
  BY <1>4, SameCache DEF UploadNext, cache_vars
<1>5. CASE ReleaseTarget
  BY <1>5, SameCache DEF ReleaseTarget, cache_vars
<1>6. CASE UNCHANGED all_vars
  BY <1>6, SameCache DEF all_vars, cache_vars, engine_vars
<1> QED BY <1>1, <1>2, <1>3, <1>4, <1>5, <1>6 DEF CacheNext

\* Whatever the engine calls and however copies fare, the store's invariant
\* holds, each plan outstanding is that of one store in flight or held, and each
\* ticket given out is in flight or was reported (cache.rs).
THEOREM CacheInvariant == CacheSpec => []CacheInv
BY InitCacheInv, NextCacheInv, PTL DEF CacheSpec

\* A payload is resident exactly while its snapshot is.
THEOREM CachePayloads == CacheSpec => []PayloadsFollowSnapshots
<1>1. CacheInv => PayloadsFollowSnapshots
  BY DEF CacheInv, BooksOK, Books, PayloadsMatch, PayloadsFollowSnapshots
<1> QED BY <1>1, CacheInvariant, PTL

\* No way a store can end forgets its plan: outstanding plans are those of the
\* stores in flight and those held on purpose.
THEOREM CachePlans == CacheSpec => []PlansAreInFlightOrHeld
<1>1. ASSUME CacheInv PROVE PlansAreInFlightOrHeld
  <2>1. /\ DOMAIN pending = 1..Len(pending)
        /\ ToSet(pending) = {pending[i] : i \in 1..Len(pending)}
    BY <1>1, SequenceFacts DEF CacheInv, QueueOK
  <2>2. {x.key : x \in IssuedIn(ToSet(pending))} = {pending[i].key : i \in IssuedEntries}
    BY <2>1 DEF IssuedIn, IssuedEntries
  <2>3. HasPlan(plans) = {x.key : x \in IssuedIn(ToSet(pending))} \cup held
    BY <1>1 DEF CacheInv, PlansMatch
  <2>4. Outstanding = HasPlan(plans)
    BY DEF Outstanding, HasPlan
  <2> QED BY <2>2, <2>3, <2>4 DEF PlansAreInFlightOrHeld
<1> QED BY <1>1, CacheInvariant, PTL

\* A ticket given out is in flight or was reported, never twice.
THEOREM CacheTickets == CacheSpec => []TicketsReportedOnce
<1>1. ASSUME CacheInv, NEW t \in Ticket
      PROVE  settled[t] + Cardinality(PositionOf(t)) = IF t < next_ticket THEN 1 ELSE 0
  <2>1. /\ DOMAIN pending = 1..Len(pending) /\ Injective(pending)
        /\ ToSet(pending) = {pending[i] : i \in 1..Len(pending)}
        /\ \A x, y \in ToSet(pending) : x.ticket = y.ticket => x = y
    BY <1>1, SequenceFacts DEF CacheInv, QueueOK
  <2>2. /\ \A x \in ToSet(pending) : x.ticket < next_ticket
        /\ settled[t] = IF t < next_ticket /\ \A x \in ToSet(pending) : x.ticket # t
                        THEN 1 ELSE 0
    BY <1>1 DEF CacheInv, TicketsMatch
  <2>3. CASE \E x \in ToSet(pending) : x.ticket = t
    <3>1. PICK i \in 1..Len(pending) : pending[i].ticket = t
      BY <2>1, <2>3
    <3>2. PositionOf(t) = {i}
      <4>1. \A j \in 1..Len(pending) : pending[j].ticket = t => j = i
        BY <2>1, <3>1 DEF Injective
      <4> QED BY <2>1, <3>1, <4>1 DEF PositionOf
    <3>3. Cardinality(PositionOf(t)) = 1
      BY <3>2, FS_Singleton
    <3> QED BY <2>2, <2>3, <3>3
  <2>4. CASE \A x \in ToSet(pending) : x.ticket # t
    <3>1. PositionOf(t) = {}
      BY <2>1, <2>4 DEF PositionOf
    <3>2. Cardinality(PositionOf(t)) = 0
      BY <3>1, FS_EmptySet
    <3> QED BY <2>2, <2>4, <3>2
  <2> QED BY <2>3, <2>4
<1>2. CacheInv => TicketsReportedOnce
  BY <1>1 DEF TicketsReportedOnce
<1> QED BY <1>2, CacheInvariant, PTL

\* The store inside the cache satisfies the store's own invariant, so the store's theorems
\* apply to it.
LEMMA CacheStoreInv == CacheInv => StoreInv(store, plans)
  BY CurrentBooks

\* The slabs of a cache that evicts, replaces, aborts and commits as calls and
\* copies come: none is lost or used twice.
THEOREM CacheSlabs == CacheSpec => []SlabsAccounted
BY CacheInvariant, CacheStoreInv, InvSlabsAccounted, PTL

\* The device identities of host pages stay exact in the cache too.
THEOREM CacheMap == CacheSpec => []IdentityMapExact
<1>1. StoreInv(store, plans) => IdentityMapExact
  BY DEF StoreInv, MapExact, IdentityMapExact
<1> QED BY <1>1, CacheInvariant, CacheStoreInv, PTL

\* The banks of the cache list its resident snapshots, each once.
THEOREM CacheBanks == CacheSpec => []BanksListResidents
BY CacheInvariant, CacheStoreInv, InvBanks, PTL

-----------------------------------------------------------------------------
(* A tick on a drained stream.                                             *)

\* The loop has met no store still being copied, and leaves deferred ones only.
Drains(at) ==
    /\ IsLoop(at) /\ ~at.stopped
    /\ at.left \in Seq(EntryRecords)
    /\ \A x \in ToSet(at.left) : x.kind = "deferred"

\* When nothing is left in the stream no entry stops the loop.
LEMMA PolledDrains ==
    ASSUME stream = <<>>, NEW errors, NEW at, Drains(at), NEW p \in EntryRecords
    PROVE  Drains(Polled(at, p, errors))
<1> DEFINE next == Polled(at, p, errors)
           keep == [at EXCEPT !.left = Append(@, p)]
           report == [at EXCEPT !.reported = @ \cup {p.ticket}]
<1>1. /\ IsLoop(at) /\ at.stopped = FALSE /\ at.left \in Seq(EntryRecords)
      /\ \A x \in ToSet(at.left) : x.kind = "deferred"
  BY DEF Drains
<1>2. ~(at.stopped \/ Stops(p, errors))
  <2>1. DOMAIN stream = {}
    OBVIOUS
  <2>2. Landed(stream, p.key)
    BY <2>1 DEF Landed
  <2> QED BY <1>1, <2>2 DEF Stops
<1>3. p.kind \in {"issued", "deferred", "failed"}
  BY DEF EntryRecords
<1>4. CASE p.kind = "deferred"
  <2>1. next = keep
    BY <1>2, <1>4 DEF Polled
  <2>2. /\ IsLoop(keep) /\ keep.stopped = FALSE /\ keep.left = Append(at.left, p)
    BY <1>1 DEF IsLoop, LoopFields
  <2>3. /\ Append(at.left, p) \in Seq(EntryRecords)
        /\ ToSet(Append(at.left, p)) = ToSet(at.left) \cup {p}
    BY <1>1, AppendFacts
  <2> HIDE DEF keep, next
  <2>4. \A x \in ToSet(keep.left) : x.kind = "deferred"
    BY <1>1, <1>4, <2>2, <2>3
  <2>5. Drains(keep)
    BY <2>2, <2>3, <2>4 DEF Drains
  <2> QED BY <2>1, <2>5 DEF next
<1>5. CASE p.kind \in {"issued", "failed"}
  <2>1. /\ IsLoop(report) /\ report.stopped = FALSE /\ report.left = at.left
    BY <1>1 DEF IsLoop, LoopFields
  <2>2. \A b : LET done == [report EXCEPT !.books = b]
               IN  IsLoop(done) /\ done.stopped = FALSE /\ done.left = at.left
    BY <2>1 DEF IsLoop, LoopFields
  <2>3. next = report \/ \E b : next = [report EXCEPT !.books = b]
    BY <1>2, <1>5 DEF Polled
  <2> HIDE DEF report, next
  <2>4. IsLoop(next) /\ next.stopped = FALSE /\ next.left = at.left
    BY <2>1, <2>2, <2>3
  <2>5. Drains(next)
    BY <1>1, <2>4 DEF Drains
  <2> QED BY <2>5 DEF next
<1> QED BY <1>3, <1>4, <1>5

\* So none is left when the loop ends.
LEMMA PollingDrains ==
    ASSUME stream = <<>>, NEW errors, pending \in Seq(EntryRecords)
    PROVE  Drains(Polling(errors))
<1>1. /\ Len(pending) \in Nat
      /\ \A i \in 1..Len(pending) : pending[i] \in EntryRecords
  BY SequenceFacts
<1>2. PICK f : /\ Polling(errors) = f[Len(pending)]
               /\ f[0] = Unpolled
               /\ \A i \in 1..Len(pending) : f[i] = Polled(f[i - 1], pending[i], errors)
  BY <1>1, PollingFacts
<1> DEFINE T == {n \in Nat : n <= Len(pending) => Drains(f[n])}
<1>3. 0 \in T
  <2>1. IsLoop(Unpolled) /\ Unpolled.left = <<>> /\ Unpolled.stopped = FALSE
    BY DEF Unpolled, IsLoop, LoopFields
  <2>2. <<>> \in Seq(EntryRecords) /\ ToSet(<<>>) = {}
    BY DEF ToSet
  <2>3. Drains(Unpolled)
    BY <2>1, <2>2 DEF Drains
  <2> QED BY <1>2, <2>3
<1>4. ASSUME NEW n \in Nat, n \in T PROVE n + 1 \in T
  <2> SUFFICES ASSUME n + 1 <= Len(pending) PROVE Drains(f[n + 1])
    OBVIOUS
  <2>1. n + 1 \in 1..Len(pending) /\ (n + 1) - 1 = n /\ Drains(f[n])
    BY <1>1, <1>4
  <2>2. f[n + 1] = Polled(f[n], pending[n + 1], errors)
    BY <1>2, <2>1
  <2> QED BY <1>1, <2>1, <2>2, PolledDrains
<1> HIDE DEF T
<1>5. Len(pending) \in T
  BY <1>1, <1>3, <1>4, SetInduction
<1> QED BY <1>1, <1>2, <1>5 DEF T

\* Once the stream has drained one tick reports every store that was issued or
\* has failed, wherever it stands in the queue: what is left has not been issued.
THEOREM CacheDrains == CacheSpec => DrainedTickReportsAll
<1>1. ASSUME CacheInv, stream = <<>>, TickAny
      PROVE  \A i \in DOMAIN pending' : pending'[i].kind = "deferred"
  <2>1. PICK errors : Tick(errors)
    BY <1>1 DEF TickAny
  <2>2. pending \in Seq(EntryRecords)
    BY <1>1 DEF CacheInv, QueueOK
  <2>3. Drains(Polling(errors)) /\ pending' = Polling(errors).left
    BY <1>1, <2>1, <2>2, PollingDrains DEF Tick
  <2> QED BY <2>3 DEF Drains, ToSet
<1>2. CacheInv => [stream = <<>> /\ TickAny =>
          \A i \in DOMAIN pending' : pending'[i].kind = "deferred"]_<<pending, settled>>
  BY <1>1
<1> QED BY <1>2, CacheInvariant, PTL DEF DrainedTickReportsAll

-----------------------------------------------------------------------------
(* What the methods of the store do to the identity map.                   *)

\* u has no snapshot and no identity that st has not.
Shrinks(st, u) ==
    /\ \A k \in Resident(u) : k \in Resident(st) /\ u.snapshots[k] = st.snapshots[k]
    /\ \A id \in PageId : u.map[id] \in {st.map[id], NoSlab}

\* Evicting a snapshot, aborting a plan and forgetting a device page take
\* snapshots and identities away and add none.
LEMMA StoreShrinks ==
    ASSUME NEW st, NEW pl, StoreInv(st, pl)
    PROVE  /\ \A k \in Resident(st) : Shrinks(st, Removed(st, k))
           /\ \A k \in HasPlan(pl) : Shrinks(st, Aborted(st, pl[k]))
           /\ \A id \in PageId : Shrinks(st, Freed(st, id))
<1>1. st \in StoreRecords
  BY DEF StoreInv
<1>2. ASSUME NEW k \in Resident(st) PROVE Shrinks(st, Removed(st, k))
  <2>1. \A id \in PageId : Removed(st, k).map[id] \in {st.map[id], NoSlab}
    BY <1>1, StoreFields, RemovedMap
  <2> QED BY <2>1, RemovedKeeps DEF Shrinks
<1>3. ASSUME NEW k \in HasPlan(pl) PROVE Shrinks(st, Aborted(st, pl[k]))
  <2>1. \A id \in PageId : Aborted(st, pl[k]).map[id] \in {st.map[id], NoSlab}
    BY <1>1, StoreFields, ReleaseMap DEF Aborted
  <2>2. Aborted(st, pl[k]).snapshots = st.snapshots
    BY AbortedKeeps
  <2> QED BY <2>1, <2>2 DEF Shrinks, Resident
<1>4. ASSUME NEW id \in PageId PROVE Shrinks(st, Freed(st, id))
  <2>1. \A x \in PageId : Freed(st, id).map[x] \in {st.map[x], NoSlab}
    BY <1>1 DEF Freed, StoreRecords
  <2>2. Freed(st, id).snapshots = st.snapshots
    BY FreedKeeps
  <2> QED BY <2>1, <2>2 DEF Shrinks, Resident
<1> QED BY <1>2, <1>3, <1>4

\* A commit names the pages it copied for device pages nothing stood for, and
\* adds the snapshot of the plan.
Commits(st, t, p) ==
    /\ \A j \in Resident(t) \ {p.key} : j \in Resident(st) /\ t.snapshots[j] = st.snapshots[j]
    /\ t.snapshots[p.key] = SnapshotOf(st, p)
    /\ \A id \in PageId :
          \/ t.map[id] \in {st.map[id], NoSlab}
          \/ \E i \in p.copies : /\ st.map[p.meta.pages[i]] = NoSlab
                                 /\ id = p.meta.pages[i] /\ t.map[id] = p.pages[i]

\* The identity map once the pages a plan copied are named.
LEMMA MapCopiedMap ==
    ASSUME NEW st \in StoreRecords, NEW p
    PROVE  LET t == MapCopiedPages(st, p) IN
           /\ DOMAIN t = DOMAIN st /\ t.snapshots = st.snapshots
           /\ \A id \in PageId :
                 \/ t.map[id] \in {st.map[id], NoSlab}
                 \/ \E i \in p.copies : /\ st.map[p.meta.pages[i]] = NoSlab
                                        /\ id = p.meta.pages[i] /\ t.map[id] = p.pages[i]
<1> DEFINE dups == Duplicates(st, p)
           ids == p.meta.pages
           existing == [i \in dups |-> st.map[ids[i]]]
           copied == [i \in dups |-> p.pages[i]]
           fresh == p.copies \ dups
           r == ReleasePages(st, copied)
           st1 == AddPageRefs(r, existing)
           t == MapCopiedPages(st, p)
           map == [id \in PageId |->
                IF \E i \in fresh : ids[i] = id
                THEN p.pages[CHOOSE i \in fresh : ids[i] = id] ELSE st1.map[id]]
<1>1. DOMAIN st = {"free", "refs", "device", "map", "snapshots", "bank", "next_key"}
  BY StoreFields
<1>2. /\ DOMAIN r = DOMAIN st /\ r.snapshots = st.snapshots
      /\ \A id \in PageId : r.map[id] \in {st.map[id], NoSlab}
  BY <1>1 DEF ReleasePages
<1> HIDE DEF r
<1>3. DOMAIN st1 = DOMAIN st /\ st1.snapshots = st.snapshots /\ st1.map = r.map
  BY <1>1, <1>2 DEF AddPageRefs
<1> HIDE DEF st1
<1>4. DOMAIN t = DOMAIN st /\ t.snapshots = st.snapshots /\ t.map = map
  BY <1>1, <1>3 DEF MapCopiedPages, st1, r
<1>5. \A i \in fresh : i \in p.copies /\ st.map[ids[i]] = NoSlab
  BY DEF Duplicates
<1> HIDE DEF t, fresh
<1>6. ASSUME NEW id \in PageId
      PROVE  \/ t.map[id] \in {st.map[id], NoSlab}
             \/ \E i \in p.copies : /\ st.map[p.meta.pages[i]] = NoSlab
                                    /\ id = p.meta.pages[i] /\ t.map[id] = p.pages[i]
  <2>1. CASE \E i \in fresh : ids[i] = id
    <3> DEFINE j == CHOOSE i \in fresh : ids[i] = id
    <3>1. j \in fresh /\ ids[j] = id
      BY <2>1
    <3>2. t.map[id] = p.pages[j]
      BY <1>4, <2>1
    <3> HIDE DEF j
    <3> QED BY <1>5, <3>1, <3>2
  <2>2. CASE ~\E i \in fresh : ids[i] = id
    <3>1. t.map[id] = st1.map[id]
      BY <1>4, <2>2
    <3> QED BY <1>2, <1>3, <3>1
  <2> QED BY <2>1, <2>2
<1> QED BY <1>4, <1>6 DEF t

\* The commit of a plan is such a step.
LEMMA CommittedCommits ==
    ASSUME NEW st, NEW pl, StoreInv(st, pl), NEW k \in HasPlan(pl)
    PROVE  Commits(st, Committed(st, pl[k]), pl[k])
<1> DEFINE p == pl[k]
           n == p.meta.kind
           m1 == MapCopiedPages(st, p)
           mapped == WithDeepestAccessed(m1, p.meta)
           old == Replaced(st, p.meta)
           cleared == IF old = {} THEN mapped ELSE Removed(mapped, CHOOSE j \in old : TRUE)
           t == Committed(st, p)
<1>1. st \in StoreRecords /\ p.key = k /\ k \in Key
  BY DEF StoreInv, PlansExact, HasPlan
<1>2. /\ DOMAIN m1 = DOMAIN st /\ m1.snapshots = st.snapshots
      /\ \A id \in PageId :
            \/ m1.map[id] \in {st.map[id], NoSlab}
            \/ \E i \in p.copies : /\ st.map[p.meta.pages[i]] = NoSlab
                                   /\ id = p.meta.pages[i] /\ m1.map[id] = p.pages[i]
  BY <1>1, MapCopiedMap
<1>3. DOMAIN st = {"free", "refs", "device", "map", "snapshots", "bank", "next_key"}
      /\ DOMAIN st.snapshots = Key
  BY <1>1, StoreFields
<1> HIDE DEF m1
<1>4. DOMAIN mapped = DOMAIN st /\ mapped.snapshots = st.snapshots /\ mapped.map = m1.map
  BY <1>2, <1>3 DEF WithDeepestAccessed
<1> HIDE DEF mapped
<1>5. /\ DOMAIN cleared = DOMAIN st /\ DOMAIN cleared.snapshots = Key
      /\ \A id \in PageId : cleared.map[id] \in {mapped.map[id], NoSlab}
  BY <1>3, <1>4, RemovedMap
<1> HIDE DEF cleared
<1>6. t = [cleared EXCEPT !.snapshots[k] = SnapshotOf(st, p), !.bank[n] = Append(@, k)]
  BY <1>1 DEF Committed, cleared, mapped, m1
<1> HIDE DEF t
<1>7. t.map = cleared.map /\ t.snapshots[k] = SnapshotOf(st, p)
  BY <1>1, <1>3, <1>5, <1>6
<1>8. \A j \in Resident(t) \ {k} : j \in Resident(st) /\ t.snapshots[j] = st.snapshots[j]
  <2> DEFINE gone == Replaced(st, pl[k].meta)
             u == Committed(st, pl[k])
             pl2 == [pl EXCEPT ![k] = Absent]
  <2>1. /\ StoreInv(u, pl2)
        /\ gone \subseteq Resident(st)
        /\ Resident(u) = (Resident(st) \ gone) \cup {k}
        /\ u.snapshots[k].meta = pl[k].meta /\ u.snapshots[k].pins = 0
        /\ \A j \in Resident(st) \ gone : u.snapshots[j] = st.snapshots[j]
        /\ u.next_key = st.next_key
    BY ONLY StoreInv(st, pl), k \in HasPlan(pl), CommittedKeeps DEF gone, u, pl2
  <2> HIDE DEF gone
  <2> QED BY <2>1 DEF t, p
<1>9. ASSUME NEW id \in PageId
      PROVE  \/ t.map[id] \in {st.map[id], NoSlab}
             \/ \E i \in p.copies : /\ st.map[p.meta.pages[i]] = NoSlab
                                    /\ id = p.meta.pages[i] /\ t.map[id] = p.pages[i]
  BY <1>2, <1>4, <1>5, <1>7
<1> HIDE DEF p
<1>10. Commits(st, t, p)
  BY <1>1, <1>7, <1>8, <1>9 DEF Commits
<1> QED BY <1>10 DEF t, p

-----------------------------------------------------------------------------
(* What a slab holds once the copies still queued for it have executed.    *)

\* The copies of the store stream.
CopyRecords == [key : Key, from : PageId \cup Arena, to : Slab]

\* No copy to slab b is queued.
Still(b, str) == Writes(str, b) = {}

\* What c copies is in its slab, or will be: no later copy writes over it.
Comes(c, str, mem, dev) ==
    IF Writes(str, c.to) = {} THEN mem[c.to] = dev[c.from]
    ELSE str[Max(Writes(str, c.to))] = c

\* Slab b keeps, under another stream and memory, what it holds or will hold.
Kept(b, str, mem, str2, mem2, dev) ==
    /\ Still(b, str) => Still(b, str2) /\ mem2[b] = mem[b]
    /\ \A c : c.to = b /\ Comes(c, str, mem, dev) => Comes(c, str2, mem2, dev)

\* The last of some copies to a slab is one of them, and none is later.
LEMMA LastWrite ==
    ASSUME NEW str \in Seq(CopyRecords), NEW b, Writes(str, b) # {}
    PROVE  LET m == Max(Writes(str, b)) IN
           /\ m \in 1..Len(str) /\ str[m].to = b
           /\ \A n \in 1..Len(str) : str[n].to = b => n <= m
<1>1. DOMAIN str = 1..Len(str) /\ Len(str) \in Nat
  BY SequenceFacts
<1>2. Writes(str, b) \in SUBSET Nat /\ \A y \in Writes(str, b) : y <= Len(str)
  BY <1>1 DEF Writes
<1>3. Max(Writes(str, b)) \in Writes(str, b)
      /\ \A y \in Writes(str, b) : Max(Writes(str, b)) >= y
  BY <1>1, <1>2, MaxProperties
<1>4. \A y \in Writes(str, b) : y \in Nat
  BY <1>2
<1>5. \A n : n \in Writes(str, b) <=> n \in 1..Len(str) /\ str[n].to = b
  BY <1>1 DEF Writes
<1> DEFINE m == Max(Writes(str, b))
<1>6. m \in Writes(str, b) /\ \A y \in Writes(str, b) : m >= y
  BY <1>3
<1> HIDE DEF m
<1>7. m \in 1..Len(str) /\ str[m].to = b
      /\ \A n \in 1..Len(str) : str[n].to = b => n <= m
  BY <1>4, <1>5, <1>6
<1> QED BY <1>7 DEF m

\* The latest copy to a slab is found by looking for it.
LEMMA LastWriteIs ==
    ASSUME NEW str \in Seq(CopyRecords), NEW b, NEW m \in 1..Len(str), str[m].to = b,
           \A n \in 1..Len(str) : str[n].to = b => n <= m
    PROVE  Writes(str, b) # {} /\ Max(Writes(str, b)) = m
<1>1. DOMAIN str = 1..Len(str) /\ Len(str) \in Nat
  BY SequenceFacts
<1>2. m \in Writes(str, b)
  BY <1>1 DEF Writes
<1> DEFINE l == Max(Writes(str, b))
<1>3. l \in 1..Len(str) /\ str[l].to = b
      /\ \A n \in 1..Len(str) : str[n].to = b => n <= l
  BY <1>2, LastWrite
<1> HIDE DEF l
<1>4. l = m
  BY <1>1, <1>3
<1> QED BY <1>2, <1>4 DEF l

\* Nothing writes a slab exactly when no copy goes there.
LEMMA StillMeans ==
    ASSUME NEW str \in Seq(CopyRecords), NEW b
    PROVE  Still(b, str) <=> \A n \in 1..Len(str) : str[n].to # b
<1>1. DOMAIN str = 1..Len(str)
  BY SequenceFacts
<1> QED BY <1>1 DEF Still, Writes

\* Executing the first n copies of a stream changes no slab's bytes to come.
LEMMA ExecutedKeeps ==
    ASSUME NEW str \in Seq(CopyRecords), NEW n \in 0..Len(str), NEW mem, NEW dev
    PROVE  LET a == SubSeq(str, 1, n)
               rest == SubSeq(str, n + 1, Len(str))
           IN  \A b \in Slab : Kept(b, str, mem, rest, Executed(dev, mem, a), dev)
<1> DEFINE a == SubSeq(str, 1, n)
           rest == SubSeq(str, n + 1, Len(str))
           mem2 == Executed(dev, mem, a)
<1>1. /\ a \in Seq(CopyRecords) /\ Len(a) = n
      /\ rest \in Seq(CopyRecords) /\ Len(rest) = Len(str) - n
      /\ \A i \in 1..n : a[i] = str[i]
      /\ \A i \in 1..Len(str) - n : rest[i] = str[n + i]
  BY CutFacts
<1>2. Len(str) \in Nat /\ n \in Nat /\ n <= Len(str)
  BY SequenceFacts
<1> SUFFICES ASSUME NEW b \in Slab PROVE Kept(b, str, mem, rest, mem2, dev)
  OBVIOUS
<1>3. mem2[b] = IF Writes(a, b) = {} THEN mem[b] ELSE dev[a[Max(Writes(a, b))].from]
  BY DEF Executed
<1> HIDE DEF a, rest, mem2
<1>4. ASSUME Still(b, str) PROVE Still(b, rest) /\ mem2[b] = mem[b]
  <2>1. \A i \in 1..Len(str) : str[i].to # b
    BY <1>4, StillMeans
  <2>2. \A i \in 1..n : a[i].to # b
    BY <1>1, <1>2, <2>1
  <2>3. \A i \in 1..Len(str) - n : rest[i].to # b
    <3>1. \A i \in 1..Len(str) - n : n + i \in 1..Len(str)
      BY <1>2
    <3> QED BY <1>1, <2>1, <3>1
  <2>4. Still(b, a) /\ Still(b, rest)
    BY <1>1, <2>2, <2>3, StillMeans
  <2> QED BY <1>3, <2>4 DEF Still
<1>5. ASSUME NEW c, c.to = b, Comes(c, str, mem, dev) PROVE Comes(c, rest, mem2, dev)
  <2>1. CASE Still(b, str)
    <3>1. Still(b, rest) /\ mem2[b] = mem[b] /\ mem[b] = dev[c.from]
      BY <1>4, <1>5, <2>1 DEF Comes, Still
    <3> QED BY <1>5, <3>1 DEF Comes, Still
  <2>2. CASE ~Still(b, str)
    <3> DEFINE m == Max(Writes(str, b))
    <3>1. /\ m \in 1..Len(str) /\ str[m].to = b
          /\ \A i \in 1..Len(str) : str[i].to = b => i <= m
      BY <2>2, LastWrite DEF Still
    <3>2. str[m] = c
      BY <1>5, <2>2 DEF Comes, Still
    <3> HIDE DEF m
    <3>3. CASE m > n
      <4>1. m - n \in 1..Len(rest) /\ rest[m - n] = c
        <5>1. m - n \in 1..Len(str) - n /\ n + (m - n) = m
          BY <1>2, <3>1, <3>3
        <5> QED BY <1>1, <3>2, <5>1
      <4>2. \A i \in 1..Len(rest) : rest[i].to = b => i <= m - n
        <5> SUFFICES ASSUME NEW i \in 1..Len(rest), rest[i].to = b PROVE i <= m - n
          OBVIOUS
        <5>1. i \in 1..Len(str) - n /\ n + i \in 1..Len(str) /\ rest[i] = str[n + i]
          BY <1>1, <1>2
        <5>2. n + i <= m
          BY <3>1, <5>1
        <5> QED BY <1>2, <3>1, <5>1, <5>2
      <4>3. Writes(rest, b) # {} /\ Max(Writes(rest, b)) = m - n
        BY <1>1, <1>5, <4>1, <4>2, LastWriteIs
      <4> QED BY <1>5, <4>1, <4>3 DEF Comes
    <3>4. CASE m <= n
      <4>1. m \in 1..Len(a) /\ a[m] = c
        BY <1>1, <1>2, <3>1, <3>2, <3>4
      <4>2. \A i \in 1..Len(a) : a[i].to = b => i <= m
        BY <1>1, <1>2, <3>1
      <4>3. Writes(a, b) # {} /\ Max(Writes(a, b)) = m
        BY <1>1, <1>5, <4>1, <4>2, LastWriteIs
      <4>4. mem2[b] = dev[c.from]
        BY <1>3, <4>1, <4>3
      <4>5. \A i \in 1..Len(rest) : rest[i].to # b
        <5> SUFFICES ASSUME NEW i \in 1..Len(rest), rest[i].to = b PROVE FALSE
          OBVIOUS
        <5>1. i \in 1..Len(str) - n /\ n + i \in 1..Len(str) /\ rest[i] = str[n + i]
          BY <1>1, <1>2
        <5>2. n + i <= m
          BY <3>1, <5>1
        <5> QED BY <1>2, <3>1, <3>4, <5>1, <5>2
      <4>6. Writes(rest, b) = {}
        BY <1>1, <4>5, StillMeans DEF Still
      <4> QED BY <1>5, <4>4, <4>6 DEF Comes
    <3> QED BY <1>2, <3>1, <3>3, <3>4
  <2> QED BY <2>1, <2>2
<1> QED BY <1>4, <1>5 DEF Kept

\* Copies to other slabs change nothing for slab b.
LEMMA AppendedKeeps ==
    ASSUME NEW str \in Seq(CopyRecords), NEW q \in Seq(CopyRecords), NEW mem, NEW dev,
           NEW b, Still(b, q)
    PROVE  Kept(b, str, mem, str \o q, mem, dev)
<1> DEFINE two == str \o q
<1>1. /\ two \in Seq(CopyRecords) /\ Len(two) = Len(str) + Len(q)
      /\ \A i \in 1..Len(str) : two[i] = str[i]
      /\ \A i \in 1..Len(q) : two[Len(str) + i] = q[i]
  BY ConcatFacts
<1>2. Len(str) \in Nat /\ Len(q) \in Nat
  BY SequenceFacts
<1>3. \A i \in 1..Len(q) : q[i].to # b
  BY StillMeans
<1> HIDE DEF two
<1>4. ASSUME NEW i \in 1..Len(two), two[i].to = b
      PROVE  i \in 1..Len(str) /\ str[i].to = b
  <2>1. CASE i <= Len(str)
    BY <1>1, <1>2, <1>4, <2>1
  <2>2. CASE i > Len(str)
    <3>1. i - Len(str) \in 1..Len(q) /\ Len(str) + (i - Len(str)) = i
      BY <1>1, <1>2, <2>2
    <3> QED BY <1>1, <1>3, <1>4, <3>1
  <2> QED BY <1>2, <2>1, <2>2
<1>5. Still(b, str) => Still(b, two)
  BY <1>1, <1>4, StillMeans
<1>6. ASSUME NEW c, c.to = b, Comes(c, str, mem, dev) PROVE Comes(c, two, mem, dev)
  <2>1. CASE Still(b, str)
    BY <1>5, <1>6, <2>1 DEF Comes, Still
  <2>2. CASE ~Still(b, str)
    <3> DEFINE m == Max(Writes(str, b))
    <3>1. /\ m \in 1..Len(str) /\ str[m].to = b
          /\ \A i \in 1..Len(str) : str[i].to = b => i <= m
      BY <2>2, LastWrite DEF Still
    <3>2. str[m] = c
      BY <1>6, <2>2 DEF Comes, Still
    <3> HIDE DEF m
    <3>3. m \in 1..Len(two) /\ two[m] = c
      BY <1>1, <1>2, <3>1, <3>2
    <3>4. Writes(two, b) # {} /\ Max(Writes(two, b)) = m
      BY <1>1, <1>4, <1>6, <3>1, <3>3, LastWriteIs
    <3> QED BY <1>6, <3>3, <3>4 DEF Comes
  <2> QED BY <2>1, <2>2
<1> QED BY <1>5, <1>6 DEF Kept, two

\* The only copy of a batch to a slab comes, whatever was queued before.
LEMMA AppendedComes ==
    ASSUME NEW str \in Seq(CopyRecords), NEW q \in Seq(CopyRecords), NEW mem, NEW dev,
           NEW c \in ToSet(q), \A e \in ToSet(q) : e.to = c.to => e = c
    PROVE  Comes(c, str \o q, mem, dev)
<1> DEFINE two == str \o q
           b == c.to
<1>1. /\ two \in Seq(CopyRecords) /\ Len(two) = Len(str) + Len(q)
      /\ \A i \in 1..Len(str) : two[i] = str[i]
      /\ \A i \in 1..Len(q) : two[Len(str) + i] = q[i]
  BY ConcatFacts
<1>2. Len(str) \in Nat /\ Len(q) \in Nat /\ ToSet(q) = {q[i] : i \in 1..Len(q)}
  BY SequenceFacts
<1> HIDE DEF two
<1>3. PICK i \in 1..Len(q) : q[i] = c
  BY <1>2
<1>4. Len(str) + i \in 1..Len(two) /\ two[Len(str) + i].to = b
  BY <1>1, <1>2, <1>3
<1>5. Writes(two, b) # {}
  <2>1. ~Still(b, two)
    BY <1>1, <1>4, StillMeans
  <2> QED BY <2>1 DEF Still
<1> DEFINE m == Max(Writes(two, b))
<1>6. /\ m \in 1..Len(two) /\ two[m].to = b
      /\ \A n \in 1..Len(two) : two[n].to = b => n <= m
  BY <1>1, <1>5, LastWrite
<1> HIDE DEF m
<1>7. m > Len(str)
  BY <1>1, <1>2, <1>3, <1>4, <1>6
<1>8. m - Len(str) \in 1..Len(q) /\ Len(str) + (m - Len(str)) = m
  BY <1>1, <1>2, <1>6, <1>7
<1>9. two[m] = q[m - Len(str)] /\ q[m - Len(str)] \in ToSet(q)
  BY <1>1, <1>2, <1>8
<1>10. two[m] = c
  BY <1>6, <1>9
<1> QED BY <1>5, <1>10 DEF Comes, two, m

-----------------------------------------------------------------------------
(* The bytes of host memory, device memory and the copies between them.    *)

\* The copy of page i of a plan, and of its part in slab b from buffer d.
PageCopy(p, i) == [key |-> p.key, from |-> p.meta.pages[i], to |-> p.pages[i]]

PartCopy(p, d, b) == [key |-> p.key, from |-> d, to |-> b]

\* The slabs of snapshot s hold its bytes, and nothing queued writes them.
ResidentRight(s, str, mem) ==
    /\ \A i \in DOMAIN s.pages :
          Still(s.pages[i], str) /\ Holds(mem[s.pages[i]], PageBytes(s.meta, i))
    /\ \A b \in s.own : Still(b, str) /\ mem[b] = OwnBytes(s.meta)

\* A device page that host page stands for has been computed, nothing writes the
\* host page, and while the device page is allocated the two hold the same.
MapRight(st, str, mem, dev, tgt) ==
    \A id \in PageId : st.map[id] # NoSlab =>
        /\ id \notin tgt /\ Still(st.map[id], str)
        /\ dev[id] # Fresh
        /\ dev[id] # Junk => mem[st.map[id]] = dev[id]

\* Buffer d and the pages of entry x hold what the store of x copies.
SourceRight(x, d, sav, dev, tgt) ==
    /\ sav[d].ticket = x.ticket
    /\ \A e \in Arena : sav[e].ticket = x.ticket => e = d
    /\ sav[d].meta = x.payload
    /\ d \notin tgt /\ dev[d] = OwnBytes(x.payload)
    /\ \A i \in DOMAIN x.payload.pages :
          /\ x.payload.pages[i] \notin tgt
          /\ Holds(dev[x.payload.pages[i]], PageBytes(x.payload, i))

\* The slabs of a plan hold its bytes, or will when its copies have executed.
PlanRight(p, d, str, mem, dev) ==
    /\ \A i \in p.copies : Comes(PageCopy(p, i), str, mem, dev)
    /\ \A i \in DOMAIN p.pages \ p.copies :
          Still(p.pages[i], str) /\ Holds(mem[p.pages[i]], PageBytes(p.meta, i))
    /\ \A b \in p.own : Comes(PartCopy(p, d, b), str, mem, dev)

\* A store in flight has a right source, and a right plan once it is issued.
EntryRight(pl, x, sav, str, mem, dev, tgt) ==
    \E d \in Arena :
        /\ SourceRight(x, d, sav, dev, tgt)
        /\ x.kind = "issued" => PlanRight(pl[x.key], d, str, mem, dev)

\* What the snapshots, the identity map and the stores in flight rely on.
BytesRight(st, pl, entries, sav, str, mem, dev, tgt) ==
    /\ \A k \in Resident(st) : ResidentRight(st.snapshots[k], str, mem)
    /\ MapRight(st, str, mem, dev, tgt)
    /\ \A x \in entries : x.kind # "failed" => EntryRight(pl, x, sav, str, mem, dev, tgt)

\* A sound store with a plan for each issued entry.
Planning(st, pl, entries) ==
    /\ StoreInv(st, pl)
    /\ entries \subseteq EntryRecords
    /\ \A x, y \in entries : x.ticket = y.ticket => x = y
    /\ \A x, y \in IssuedIn(entries) : x.key = y.key => x = y
    /\ \A x \in IssuedIn(entries) : x.key \in HasPlan(pl) /\ pl[x.key].meta = x.payload

\* The plan of an issued entry.
LEMMA PlanOfEntry ==
    ASSUME NEW st, NEW pl, NEW entries, Planning(st, pl, entries), NEW x \in IssuedIn(entries)
    PROVE  LET p == pl[x.key] IN
           /\ p \in PlanRecords /\ p.key = x.key /\ p.meta = x.payload /\ x.key \in HasPlan(pl)
           /\ p.copies \subseteq DOMAIN p.pages /\ DOMAIN p.pages = DOMAIN p.meta.pages
           /\ x \in entries /\ x.kind = "issued" /\ x.key \in Key /\ x.payload \in Meta
<1>1. x.key \in HasPlan(pl) /\ pl[x.key].meta = x.payload /\ x \in entries
      /\ x.kind = "issued" /\ x \in EntryRecords
  BY DEF Planning, IssuedIn
<1>2. st \in StoreRecords /\ PlansExact(st, pl)
  BY DEF Planning, StoreInv
<1>3. pl[x.key] \in PlanRecords /\ x.key \in Key
  BY <1>1, <1>2, Shapes DEF HasPlan
<1>4. x.payload \in Meta
  BY <1>1 DEF EntryRecords
<1> QED BY <1>1, <1>2, <1>3, <1>4 DEF PlansExact

\* No slab that a snapshot, a plan or the identity map refers to is free.
LEMMA InUse ==
    ASSUME NEW st, NEW pl, StoreInv(st, pl)
    PROVE  /\ \A k \in Resident(st) :
                 /\ \A i \in DOMAIN st.snapshots[k].pages :
                       st.snapshots[k].pages[i] \in Slab \ st.free
                 /\ st.snapshots[k].own \subseteq Slab \ st.free
           /\ \A k \in HasPlan(pl) :
                 /\ \A i \in DOMAIN pl[k].pages : pl[k].pages[i] \in Slab \ st.free
                 /\ pl[k].own \subseteq Slab \ st.free
           /\ \A id \in PageId : st.map[id] # NoSlab => st.map[id] \in Slab \ st.free
<1> DEFINE C == ClaimsIn(st, pl)
           P == PartsIn(st, pl)
<1>1. /\ st \in StoreRecords /\ PlansExact(st, pl) /\ MapExact(st)
      /\ Balanced(st.refs, st.free, C, P)
  BY DEF StoreInv
<1>2. /\ \A b \in st.free : On(C, b) = {} /\ \A k \in Key : <<k, b>> \notin P
      /\ \A b \in Slab : st.refs[b] = Cardinality(On(C, b))
      /\ IsFiniteSet(C)
  BY <1>1 DEF Balanced
<1>3. ASSUME NEW k \in Holding(st, pl)
      PROVE  LET h == HolderOf(st, pl, k) IN
             /\ \A i \in DOMAIN h.pages : h.pages[i] \in Slab \ st.free
             /\ h.own \subseteq Slab \ st.free
  <2> DEFINE h == HolderOf(st, pl, k)
  <2>1. k \in Key /\ h.pages \in Seq(Slab) /\ h.own \in SUBSET Slab
    BY <1>1, Shapes
  <2>2. \A i \in DOMAIN h.pages : <<k, i, h.pages[i]>> \in C
    BY DEF ClaimsIn, ClaimsOf
  <2>3. \A b \in h.own : <<k, b>> \in P
    BY DEF PartsIn
  <2> HIDE DEF h, C, P
  <2>4. ASSUME NEW i \in DOMAIN h.pages PROVE h.pages[i] \in Slab \ st.free
    <3>1. h.pages[i] \in Slab
      BY <2>1, SequenceFacts
    <3>2. <<k, i, h.pages[i]>> \in On(C, h.pages[i])
      BY <2>2 DEF On
    <3> QED BY <1>2, <3>1, <3>2
  <2>5. \A b \in h.own : b \notin st.free
    BY <1>2, <2>1, <2>3
  <2> QED BY <2>1, <2>4, <2>5 DEF h
<1>4. ASSUME NEW k \in Resident(st)
      PROVE  k \in Holding(st, pl) /\ HolderOf(st, pl, k) = st.snapshots[k]
  BY <1>1 DEF PlansExact, Holding, HolderOf
<1>5. ASSUME NEW k \in HasPlan(pl)
      PROVE  k \in Holding(st, pl) /\ HolderOf(st, pl, k) = pl[k]
  BY DEF Holding, HolderOf
<1>6. ASSUME NEW id \in PageId, st.map[id] # NoSlab PROVE st.map[id] \in Slab \ st.free
  <2>1. st.map[id] \in Slab /\ st.refs[st.map[id]] > 0
    BY <1>1, <1>6 DEF MapExact, StoreRecords
  <2>2. Cardinality(On(C, st.map[id])) > 0
    BY <1>2, <2>1
  <2>3. On(C, st.map[id]) # {}
    BY <2>2, FS_EmptySet
  <2> QED BY <1>2, <2>1, <2>3
<1> HIDE DEF C, P
<1>7. /\ \A k \in Resident(st) :
            /\ \A i \in DOMAIN st.snapshots[k].pages :
                  st.snapshots[k].pages[i] \in Slab \ st.free
            /\ st.snapshots[k].own \subseteq Slab \ st.free
      /\ \A k \in HasPlan(pl) :
            /\ \A i \in DOMAIN pl[k].pages : pl[k].pages[i] \in Slab \ st.free
            /\ pl[k].own \subseteq Slab \ st.free
  BY <1>3, <1>4, <1>5
<1> QED BY <1>6, <1>7

\* Executing, queueing and forgetting bytes that keeps each slab in use keeps
\* everything right.
LEMMA BytesMove ==
    ASSUME NEW st, NEW pl, NEW entries, Planning(st, pl, entries),
           NEW sav, NEW str, NEW mem, NEW dev, NEW tgt,
           BytesRight(st, pl, entries, sav, str, mem, dev, tgt),
           NEW str2, NEW mem2,
           \A b \in Slab \ st.free : Kept(b, str, mem, str2, mem2, dev)
    PROVE  BytesRight(st, pl, entries, sav, str2, mem2, dev, tgt)
<1>1. StoreInv(st, pl)
  BY DEF Planning
<1>2. \A b \in Slab \ st.free :
         /\ Still(b, str) => Still(b, str2) /\ mem2[b] = mem[b]
         /\ \A c : c.to = b /\ Comes(c, str, mem, dev) => Comes(c, str2, mem2, dev)
  BY DEF Kept
<1>3. ASSUME NEW k \in Resident(st) PROVE ResidentRight(st.snapshots[k], str2, mem2)
  <2> DEFINE s == st.snapshots[k]
  <2>1. ResidentRight(s, str, mem)
    BY DEF BytesRight
  <2>2. /\ \A i \in DOMAIN s.pages : s.pages[i] \in Slab \ st.free
        /\ s.own \subseteq Slab \ st.free
    BY <1>1, InUse
  <2> HIDE DEF s
  <2>3. ResidentRight(s, str2, mem2)
    BY <1>2, <2>1, <2>2 DEF ResidentRight
  <2> QED BY <2>3 DEF s
<1>4. MapRight(st, str2, mem2, dev, tgt)
  <2>1. MapRight(st, str, mem, dev, tgt)
    BY DEF BytesRight
  <2>2. \A id \in PageId : st.map[id] # NoSlab => st.map[id] \in Slab \ st.free
    BY <1>1, InUse
  <2> QED BY <1>2, <2>1, <2>2 DEF MapRight
<1>5. ASSUME NEW x \in entries, x.kind # "failed"
      PROVE  EntryRight(pl, x, sav, str2, mem2, dev, tgt)
  <2>1. PICK d \in Arena : /\ SourceRight(x, d, sav, dev, tgt)
                           /\ x.kind = "issued" => PlanRight(pl[x.key], d, str, mem, dev)
    BY <1>5 DEF BytesRight, EntryRight
  <2>2. ASSUME x.kind = "issued" PROVE PlanRight(pl[x.key], d, str2, mem2, dev)
    <3> DEFINE p == pl[x.key]
    <3>1. x \in IssuedIn(entries)
      BY <2>2 DEF IssuedIn
    <3>2. x.key \in HasPlan(pl) /\ p.copies \subseteq DOMAIN p.pages
      BY <3>1, PlanOfEntry
    <3>3. /\ \A i \in DOMAIN p.pages : p.pages[i] \in Slab \ st.free
          /\ p.own \subseteq Slab \ st.free
      BY <1>1, <3>2, InUse
    <3>4. PlanRight(p, d, str, mem, dev)
      BY <2>1, <2>2
    <3> HIDE DEF p
    <3>5. \A i \in p.copies : Comes(PageCopy(p, i), str2, mem2, dev)
      <4> SUFFICES ASSUME NEW i \in p.copies PROVE Comes(PageCopy(p, i), str2, mem2, dev)
        OBVIOUS
      <4>1. Comes(PageCopy(p, i), str, mem, dev) /\ PageCopy(p, i).to = p.pages[i]
        BY <3>4 DEF PlanRight, PageCopy
      <4>2. p.pages[i] \in Slab \ st.free
        BY <3>2, <3>3
      <4> HIDE DEF PageCopy
      <4> QED BY <1>2, <4>1, <4>2
    <3>6. \A b \in p.own : Comes(PartCopy(p, d, b), str2, mem2, dev)
      <4> SUFFICES ASSUME NEW b \in p.own PROVE Comes(PartCopy(p, d, b), str2, mem2, dev)
        OBVIOUS
      <4>1. Comes(PartCopy(p, d, b), str, mem, dev) /\ PartCopy(p, d, b).to = b
        BY <3>4 DEF PlanRight, PartCopy
      <4>2. b \in Slab \ st.free
        BY <3>3
      <4> QED BY <1>2, <4>1, <4>2
    <3>7. PlanRight(p, d, str2, mem2, dev)
      BY <1>2, <3>3, <3>4, <3>5, <3>6 DEF PlanRight
    <3> QED BY <3>7 DEF p
  <2> QED BY <2>1, <2>2 DEF EntryRight
<1> QED BY <1>3, <1>4, <1>5 DEF BytesRight

\* A slab in the pool is not in use, so its bytes may be forgotten.
LEMMA UnownedKeeps ==
    ASSUME NEW st, NEW pl, NEW entries, Planning(st, pl, entries),
           NEW sav, NEW str, NEW mem, NEW dev, NEW tgt,
           BytesRight(st, pl, entries, sav, str, mem, dev, tgt)
    PROVE  BytesRight(st, pl, entries, sav, str, Unowned(st, mem), dev, tgt)
<1>1. \A b \in Slab \ st.free : Kept(b, str, mem, str, Unowned(st, mem), dev)
  <2> SUFFICES ASSUME NEW b \in Slab \ st.free
               PROVE  Kept(b, str, mem, str, Unowned(st, mem), dev)
    OBVIOUS
  <2>1. Unowned(st, mem)[b] = mem[b]
    BY DEF Unowned
  <2> QED BY <2>1 DEF Kept, Comes
<1> QED BY <1>1, BytesMove

\* Taking snapshots, identities and entries away keeps the rest right.
LEMMA BytesShrink ==
    ASSUME NEW st, NEW pl, NEW entries,
           NEW sav, NEW str, NEW mem, NEW dev, NEW tgt,
           BytesRight(st, pl, entries, sav, str, mem, dev, tgt),
           NEW u, Shrinks(st, u), NEW rest, rest \subseteq entries,
           NEW pl2, \A x \in IssuedIn(rest) : pl2[x.key] = pl[x.key]
    PROVE  BytesRight(u, pl2, rest, sav, str, mem, dev, tgt)
<1>1. \A k \in Resident(u) : ResidentRight(u.snapshots[k], str, mem)
  BY DEF BytesRight, Shrinks
<1>2. MapRight(u, str, mem, dev, tgt)
  <2>1. MapRight(st, str, mem, dev, tgt)
    BY DEF BytesRight
  <2>2. \A id \in PageId : u.map[id] # NoSlab => u.map[id] = st.map[id]
    BY DEF Shrinks
  <2> QED BY <2>1, <2>2 DEF MapRight
<1>3. ASSUME NEW x \in rest, x.kind # "failed" PROVE EntryRight(pl2, x, sav, str, mem, dev, tgt)
  <2>1. EntryRight(pl, x, sav, str, mem, dev, tgt)
    BY <1>3 DEF BytesRight
  <2>2. x.kind = "issued" => pl2[x.key] = pl[x.key]
    BY DEF IssuedIn
  <2> QED BY <2>1, <2>2 DEF EntryRight
<1> QED BY <1>1, <1>2, <1>3 DEF BytesRight

\* The bytes of a page are a list of tokens: never what an unused page holds.
LEMMA BytesAreTokens ==
    ASSUME NEW meta \in Meta
    PROVE  /\ OwnBytes(meta) \in Seq(Nat)
           /\ OwnBytes(meta) \notin {Fresh, Junk}
           /\ \A i \in DOMAIN meta.pages :
                 PageBytes(meta, i) \in Seq(Nat) /\ Holds(PageBytes(meta, i), PageBytes(meta, i))
<1>1. meta.tokens \in Seq(Nat) /\ meta.pages \in Seq(PageId) /\ PAGE_TOKENS \in Nat
  BY MetaShape, CacheShape
<1>2. OwnBytes(meta) \in Seq(Nat)
  <2>1. <<0>> \in Seq(Nat)
    OBVIOUS
  <2> QED BY <1>1, <2>1, ConcatFacts DEF OwnBytes
<1>3. ASSUME NEW i \in DOMAIN meta.pages
      PROVE  PageBytes(meta, i) \in Seq(Nat) /\ Holds(PageBytes(meta, i), PageBytes(meta, i))
  <2> DEFINE n == Min({i * PAGE_TOKENS, Len(meta.tokens)})
  <2>1. i \in Nat /\ Len(meta.tokens) \in Nat
    BY <1>1, SequenceFacts
  <2>2. i * PAGE_TOKENS \in Nat
    BY <1>1, <2>1
  <2>3. n \in {i * PAGE_TOKENS, Len(meta.tokens)} /\ n <= Len(meta.tokens)
    <3>1. {i * PAGE_TOKENS, Len(meta.tokens)} \in SUBSET Nat
          /\ {i * PAGE_TOKENS, Len(meta.tokens)} # {}
      BY <2>1, <2>2
    <3> QED BY <3>1, MinProperties
  <2>4. n \in 0..Len(meta.tokens)
    BY <2>1, <2>2, <2>3
  <2>5. PageBytes(meta, i) = SubSeq(meta.tokens, 1, n)
    BY DEF PageBytes
  <2> HIDE DEF n
  <2>6. PageBytes(meta, i) \in Seq(Nat)
    BY <1>1, <2>4, <2>5, CutFacts
  <2> DEFINE q == PageBytes(meta, i)
  <2>7. q \in Seq(Nat)
    BY <2>6
  <2> HIDE DEF q
  <2>8. IsPrefix(q, q) /\ q \notin {Fresh, Junk}
    BY <2>7, CacheShape DEF IsPrefix
  <2> QED BY <2>7, <2>8 DEF Holds, q
<1> QED BY <1>2, <1>3, CacheShape

\* A store that has landed is committed: its slabs hold what its source holds, and
\* the snapshot and the identities it leaves are right.
LEMMA BytesCommit ==
    ASSUME NEW st, NEW pl, NEW entries, Planning(st, pl, entries),
           NEW sav, NEW str \in Seq(CopyRecords), NEW mem, NEW dev, NEW tgt,
           BytesRight(st, pl, entries, sav, str, mem, dev, tgt),
           NEW x \in IssuedIn(entries), Landed(str, x.key),
           NEW t, Commits(st, t, pl[x.key]),
           NEW pl2, \A y \in IssuedIn(entries \ {x}) : pl2[y.key] = pl[y.key]
    PROVE  BytesRight(t, pl2, entries \ {x}, sav, str, mem, dev, tgt)
<1> DEFINE p == pl[x.key]
           ids == p.meta.pages
           s == SnapshotOf(st, p)
<1>1. /\ p \in PlanRecords /\ p.key = x.key /\ p.meta = x.payload
      /\ p.copies \subseteq DOMAIN p.pages /\ DOMAIN p.pages = DOMAIN ids
      /\ x \in entries /\ x.kind = "issued" /\ p.meta \in Meta
  BY PlanOfEntry
<1>2. PICK d \in Arena : SourceRight(x, d, sav, dev, tgt) /\ PlanRight(p, d, str, mem, dev)
  BY <1>1 DEF BytesRight, EntryRight
<1>3. Landed(str, p.key) /\ Commits(st, t, p)
  BY <1>1
<1> HIDE DEF p
<1>4. ASSUME NEW c, c.key = p.key, Comes(c, str, mem, dev)
      PROVE  Still(c.to, str) /\ mem[c.to] = dev[c.from]
  <2>1. CASE Writes(str, c.to) = {}
    BY <1>4, <2>1 DEF Comes, Still
  <2>2. CASE Writes(str, c.to) # {}
    <3> DEFINE m == Max(Writes(str, c.to))
    <3>1. m \in 1..Len(str)
      BY <2>2, LastWrite
    <3>2. str[m] = c
      BY <1>4, <2>2 DEF Comes
    <3> HIDE DEF m
    <3>3. m \in DOMAIN str
      BY <3>1, SequenceFacts
    <3> QED BY <1>3, <1>4, <3>2, <3>3 DEF Landed
  <2> QED BY <2>1, <2>2
<1>5. ASSUME NEW i \in p.copies
      PROVE  Still(p.pages[i], str) /\ mem[p.pages[i]] = dev[ids[i]]
  <2> DEFINE c == PageCopy(p, i)
  <2>1. c.key = p.key /\ c.to = p.pages[i] /\ c.from = ids[i]
    BY DEF PageCopy
  <2>2. Comes(c, str, mem, dev)
    BY <1>2 DEF PlanRight
  <2> HIDE DEF c
  <2> QED BY <1>4, <2>1, <2>2
<1>6. ASSUME NEW b \in p.own
      PROVE  Still(b, str) /\ mem[b] = OwnBytes(p.meta)
  <2> DEFINE c == PartCopy(p, d, b)
  <2>1. c.key = p.key /\ c.to = b /\ c.from = d
    BY DEF PartCopy
  <2>2. Comes(c, str, mem, dev)
    BY <1>2 DEF PlanRight
  <2> HIDE DEF c
  <2>3. dev[d] = OwnBytes(p.meta)
    BY <1>1, <1>2 DEF SourceRight
  <2> QED BY <1>4, <2>1, <2>2, <2>3
<1>7. \A i \in DOMAIN p.pages :
         ids[i] \notin tgt /\ Holds(dev[ids[i]], PageBytes(p.meta, i)) /\ ids[i] \in PageId
  <2>1. ids \in Seq(PageId)
    BY <1>1, MetaShape
  <2>2. \A i \in DOMAIN ids : ids[i] \in PageId
    BY <2>1, SequenceFacts
  <2>3. \A i \in DOMAIN ids : ids[i] \notin tgt /\ Holds(dev[ids[i]], PageBytes(p.meta, i))
    BY <1>1, <1>2 DEF SourceRight
  <2> QED BY <1>1, <2>2, <2>3
<1>8. MapRight(st, str, mem, dev, tgt)
  BY DEF BytesRight
<1>9. ResidentRight(s, str, mem)
  <2>1. s.pages = [i \in DOMAIN p.pages |->
                     IF i \in Duplicates(st, p) THEN st.map[ids[i]] ELSE p.pages[i]]
        /\ s.own = p.own /\ s.meta = p.meta
    BY DEF SnapshotOf
  <2> HIDE DEF s
  <2>2. ASSUME NEW i \in DOMAIN p.pages
        PROVE  Still(s.pages[i], str) /\ Holds(mem[s.pages[i]], PageBytes(p.meta, i))
    <3>1. CASE i \in Duplicates(st, p)
      <4>1. s.pages[i] = st.map[ids[i]] /\ st.map[ids[i]] # NoSlab
        BY <2>1, <3>1 DEF Duplicates
      <4>2. dev[ids[i]] # Junk
        BY <1>7 DEF Holds
      <4>3. Still(st.map[ids[i]], str) /\ mem[st.map[ids[i]]] = dev[ids[i]]
        BY <1>7, <1>8, <4>1, <4>2 DEF MapRight
      <4> QED BY <1>7, <4>1, <4>3
    <3>2. CASE i \notin Duplicates(st, p) /\ i \in p.copies
      BY <1>5, <1>7, <2>1, <3>2
    <3>3. CASE i \notin Duplicates(st, p) /\ i \notin p.copies
      BY <1>2, <2>1, <3>3 DEF PlanRight
    <3> QED BY <3>1, <3>2, <3>3
  <2>3. DOMAIN s.pages = DOMAIN p.pages
    BY <2>1
  <2> QED BY <1>6, <2>1, <2>2, <2>3 DEF ResidentRight
<1>10. \A k \in Resident(t) : ResidentRight(t.snapshots[k], str, mem)
  <2> SUFFICES ASSUME NEW k \in Resident(t) PROVE ResidentRight(t.snapshots[k], str, mem)
    OBVIOUS
  <2>1. CASE k = p.key
    BY <1>3, <1>9, <2>1 DEF Commits
  <2>2. CASE k # p.key
    <3>1. k \in Resident(st) /\ t.snapshots[k] = st.snapshots[k]
      BY <1>3, <2>2 DEF Commits
    <3> QED BY <3>1 DEF BytesRight
  <2> QED BY <2>1, <2>2
<1>11. MapRight(t, str, mem, dev, tgt)
  <2> SUFFICES ASSUME NEW id \in PageId, t.map[id] # NoSlab
               PROVE  /\ id \notin tgt /\ Still(t.map[id], str)
                      /\ dev[id] # Fresh
                      /\ dev[id] # Junk => mem[t.map[id]] = dev[id]
    BY DEF MapRight
  <2>1. CASE t.map[id] \in {st.map[id], NoSlab}
    BY <1>8, <2>1 DEF MapRight
  <2>2. CASE \E i \in p.copies : id = ids[i] /\ t.map[id] = p.pages[i]
    <3>1. PICK i \in p.copies : id = ids[i] /\ t.map[id] = p.pages[i]
      BY <2>2
    <3>2. i \in DOMAIN p.pages
      BY <1>1
    <3>3. dev[id] # Fresh /\ id \notin tgt
      BY <1>7, <3>1, <3>2 DEF Holds
    <3> QED BY <1>5, <3>1, <3>3
  <2> QED BY <1>3, <2>1, <2>2 DEF Commits
<1>12. ASSUME NEW y \in entries \ {x}, y.kind # "failed"
       PROVE  EntryRight(pl2, y, sav, str, mem, dev, tgt)
  <2>1. EntryRight(pl, y, sav, str, mem, dev, tgt)
    BY <1>12 DEF BytesRight
  <2>2. y.kind = "issued" => pl2[y.key] = pl[y.key]
    BY DEF IssuedIn
  <2> QED BY <2>1, <2>2 DEF EntryRight
<1> QED BY <1>10, <1>11, <1>12 DEF BytesRight

-----------------------------------------------------------------------------
(* The copies of a plan.                                                   *)

\* A batch has one copy for each page the plan does not share and for each part.
LEMMA BatchFacts ==
    ASSUME NEW plan \in PlanRecords, plan.copies \subseteq DOMAIN plan.meta.pages,
           DOMAIN plan.pages = DOMAIN plan.meta.pages, NEW d \in Arena
    PROVE  /\ Batch(plan, d) \in Seq(CopyRecords)
           /\ ToSet(Batch(plan, d)) = {PageCopy(plan, i) : i \in plan.copies}
                                      \cup {PartCopy(plan, d, b) : b \in plan.own}
<1> DEFINE S == plan.copies
           ids == plan.meta.pages
           order == Ascending(S)
           parts == SetToSeq(plan.own)
           first == [n \in DOMAIN order |->
                       [key |-> plan.key, from |-> ids[order[n]], to |-> plan.pages[order[n]]]]
           last == [n \in DOMAIN parts |-> [key |-> plan.key, from |-> d, to |-> parts[n]]]
<1>1. /\ plan.key \in Key /\ plan.own \subseteq Slab /\ plan.pages \in Seq(Slab)
      /\ ids \in Seq(PageId) /\ Len(ids) \in Nat /\ DOMAIN ids = 1..Len(ids)
      /\ \A i \in 1..Len(ids) : plan.pages[i] \in Slab
      /\ \A i \in 1..Len(ids) : ids[i] \in PageId
  <2>1. plan.meta \in Meta
    BY DEF PlanRecords
  <2>2. ids \in Seq(PageId)
    BY <2>1, MetaShape
  <2> QED BY <2>2, SequenceFacts, DOMAIN plan.pages = DOMAIN plan.meta.pages DEF PlanRecords
<1>2. S \in SUBSET (1..Len(ids))
  BY <1>1
<1> HIDE DEF S, ids
<1>3. Increasing(order, S)
  <2>1. \E q : Increasing(q, S)
    BY <1>1, <1>2, IncreasingExists
  <2>2. PICK q : Increasing(q, S)
    BY <2>1
  <2>3. q \in [1..Cardinality(S) -> S] /\ \A m, n \in DOMAIN q : m < n => q[m] < q[n]
    BY <2>2 DEF Increasing
  <2>4. order \in [1..Cardinality(S) -> S] /\ \A m, n \in DOMAIN order : m < n => order[m] < order[n]
    BY <2>3 DEF Ascending
  <2> HIDE DEF order
  <2> QED BY <2>4 DEF Increasing
<1> HIDE DEF order
<1>4. /\ order \in Seq(S) /\ Len(order) \in Nat /\ DOMAIN order = 1..Len(order)
      /\ ToSet(order) = S
  BY <1>1, <1>2, <1>3, IncreasingFacts, SequenceFacts
<1>5. /\ parts \in Seq(plan.own) /\ Len(parts) \in Nat /\ DOMAIN parts = 1..Len(parts)
      /\ ToSet(parts) = plan.own
  <2>1. IsFiniteSet(plan.own)
    BY <1>1, CacheShape, FS_Subset
  <2> QED BY <2>1, SetToSeqFacts, SequenceFacts
<1> HIDE DEF parts
<1>6. first \in Seq(CopyRecords) /\ ToSet(first) = {PageCopy(plan, i) : i \in S}
  <2>1. \A n \in 1..Len(order) : first[n] = PageCopy(plan, order[n]) /\ order[n] \in S
    BY <1>4, SequenceFacts DEF PageCopy, ids
  <2>2. DOMAIN first = 1..Len(order) /\ first = [n \in 1..Len(order) |-> first[n]]
    BY <1>4
  <2>3. \A i \in S : PageCopy(plan, i) \in CopyRecords
    <3> SUFFICES ASSUME NEW i \in S PROVE PageCopy(plan, i) \in CopyRecords
      OBVIOUS
    <3>1. ids[i] \in PageId
      BY <1>1, <1>2
    <3>2. plan.pages[i] \in Slab
      BY <1>1, <1>2
    <3> QED BY <1>1, <3>1, <3>2 DEF PageCopy, CopyRecords, ids
  <2>4. \A i \in S : \E n \in 1..Len(order) : order[n] = i
    BY <1>4, SequenceFacts
  <2> HIDE DEF first, PageCopy
  <2>5. first \in Seq(CopyRecords)
    BY <1>4, <2>1, <2>2, <2>3
  <2>6. ToSet(first) = {first[n] : n \in 1..Len(order)}
    BY <2>2 DEF ToSet
  <2> QED BY <2>1, <2>4, <2>5, <2>6
<1>7. last \in Seq(CopyRecords) /\ ToSet(last) = {PartCopy(plan, d, b) : b \in plan.own}
  <2>1. \A n \in 1..Len(parts) : last[n] = PartCopy(plan, d, parts[n]) /\ parts[n] \in plan.own
    BY <1>5, SequenceFacts DEF PartCopy
  <2>2. DOMAIN last = 1..Len(parts) /\ last = [n \in 1..Len(parts) |-> last[n]]
    BY <1>5
  <2>3. \A b \in plan.own : PartCopy(plan, d, b) \in CopyRecords
    BY <1>1 DEF PartCopy, CopyRecords
  <2>4. \A b \in plan.own : \E n \in 1..Len(parts) : parts[n] = b
    BY <1>5, SequenceFacts
  <2> HIDE DEF last, PartCopy
  <2>5. last \in Seq(CopyRecords)
    BY <1>5, <2>1, <2>2, <2>3
  <2>6. ToSet(last) = {last[n] : n \in 1..Len(parts)}
    BY <2>2 DEF ToSet
  <2> QED BY <2>1, <2>4, <2>5, <2>6
<1>8. Batch(plan, d) = first \o last
  BY DEF Batch, first, last, order, parts, S, ids
<1> HIDE DEF first, last
<1>9. first \o last \in Seq(CopyRecords) /\ ToSet(first \o last) = ToSet(first) \cup ToSet(last)
  BY <1>6, <1>7, ConcatFacts
<1> QED BY <1>6, <1>7, <1>8, <1>9 DEF S

\* A batch writes slabs that were free, so it changes nothing for those in use.
LEMMA BatchKeeps ==
    ASSUME NEW st, NEW meta \in Meta, NEW plan, PlanFrom(st, meta, plan), NEW d \in Arena,
           NEW q \in Seq(CopyRecords), ToSet(q) \subseteq ToSet(Batch(plan, d)),
           NEW str \in Seq(CopyRecords), NEW mem, NEW dev
    PROVE  \A b \in Slab \ st.free : Kept(b, str, mem, str \o q, mem, dev)
<1>1. /\ plan \in PlanRecords /\ plan.meta = meta /\ DOMAIN plan.pages = DOMAIN meta.pages
      /\ plan.copies \subseteq DOMAIN plan.pages /\ plan.own \subseteq st.free
      /\ \A i \in plan.copies : plan.pages[i] \in st.free
  BY DEF PlanFrom, Unmapped
<1>2. ToSet(Batch(plan, d)) = {PageCopy(plan, i) : i \in plan.copies}
                              \cup {PartCopy(plan, d, b) : b \in plan.own}
  BY <1>1, BatchFacts
<1>3. \A c \in ToSet(q) : c.to \in st.free
  <2>1. \A i \in plan.copies : PageCopy(plan, i).to \in st.free
    BY <1>1 DEF PageCopy
  <2>2. \A b \in plan.own : PartCopy(plan, d, b).to \in st.free
    BY <1>1 DEF PartCopy
  <2> QED BY <1>2, <2>1, <2>2
<1>4. \A n \in 1..Len(q) : q[n] \in ToSet(q)
  BY SequenceFacts
<1> SUFFICES ASSUME NEW b \in Slab \ st.free PROVE Kept(b, str, mem, str \o q, mem, dev)
  OBVIOUS
<1>5. Still(b, q)
  BY <1>3, <1>4, StillMeans
<1> QED BY <1>5, AppendedKeeps

\* When a whole stream has executed every slab holds what it was to hold.
LEMMA ExecutedAll ==
    ASSUME NEW str \in Seq(CopyRecords), NEW mem, NEW dev
    PROVE  \A b \in Slab : Kept(b, str, mem, <<>>, Executed(dev, mem, str), dev)
<1> DEFINE n == Len(str)
           a == SubSeq(str, 1, n)
           rest == SubSeq(str, n + 1, Len(str))
<1>1. n \in Nat /\ n \in 0..Len(str)
  BY SequenceFacts
<1>2. /\ a \in Seq(CopyRecords) /\ Len(a) = n
      /\ rest \in Seq(CopyRecords) /\ Len(rest) = Len(str) - n
      /\ \A i \in 1..n : a[i] = str[i]
  BY <1>1, CutFacts
<1>3. \A b \in Slab : Kept(b, str, mem, rest, Executed(dev, mem, a), dev)
  BY <1>1, ExecutedKeeps
<1> HIDE DEF a, rest
<1>4. a = str
  BY <1>1, <1>2
<1>5. rest = <<>>
  BY <1>1, <1>2
<1> QED BY <1>3, <1>4, <1>5

\* A plan whose batch is queued is right: each copy comes, and the pages it shares
\* hold what the device pages they stand for hold.
LEMMA QueuedPlanRight ==
    ASSUME NEW st, NEW meta \in Meta, NEW plan, PlanFrom(st, meta, plan), NEW d \in Arena,
           NEW str \in Seq(CopyRecords), NEW mem, NEW dev, NEW tgt,
           MapRight(st, str \o Batch(plan, d), mem, dev, tgt),
           \A i \in DOMAIN meta.pages : Holds(dev[meta.pages[i]], PageBytes(meta, i))
    PROVE  PlanRight(plan, d, str \o Batch(plan, d), mem, dev)
<1> DEFINE batch == Batch(plan, d)
           two == str \o batch
           ids == meta.pages
<1>1. /\ plan \in PlanRecords /\ plan.meta = meta /\ DOMAIN plan.pages = DOMAIN ids
      /\ plan.copies \subseteq DOMAIN plan.pages
      /\ \A i \in plan.copies : plan.pages[i] \notin plan.own
      /\ \A i, j \in plan.copies : plan.pages[i] = plan.pages[j] => i = j
      /\ \A i \in DOMAIN plan.pages \ plan.copies :
            plan.pages[i] = st.map[ids[i]] /\ st.map[ids[i]] # NoSlab
  BY DEF PlanFrom, Unmapped
<1>2. /\ batch \in Seq(CopyRecords)
      /\ ToSet(batch) = {PageCopy(plan, i) : i \in plan.copies}
                        \cup {PartCopy(plan, d, b) : b \in plan.own}
  BY <1>1, BatchFacts
<1>3. \A i \in DOMAIN ids : ids[i] \in PageId
  BY MetaShape, SequenceFacts
<1> HIDE DEF batch
<1>4. ASSUME NEW i \in plan.copies PROVE Comes(PageCopy(plan, i), two, mem, dev)
  <2> DEFINE c == PageCopy(plan, i)
  <2>1. c \in ToSet(batch) /\ c.to = plan.pages[i]
    BY <1>2 DEF PageCopy
  <2>2. ASSUME NEW e \in ToSet(batch), e.to = c.to PROVE e = c
    <3>1. CASE e \in {PageCopy(plan, j) : j \in plan.copies}
      <4>1. PICK j \in plan.copies : e = PageCopy(plan, j)
        BY <3>1
      <4>2. e.to = plan.pages[j]
        BY <4>1 DEF PageCopy
      <4>3. i = j
        BY <1>1, <2>1, <2>2, <4>2
      <4> QED BY <4>1, <4>3
    <3>2. CASE e \in {PartCopy(plan, d, b) : b \in plan.own}
      <4>1. PICK b \in plan.own : e = PartCopy(plan, d, b)
        BY <3>2
      <4>2. e.to = b
        BY <4>1 DEF PartCopy
      <4> QED BY <1>1, <2>1, <2>2, <4>2
    <3> QED BY <1>2, <3>1, <3>2
  <2> HIDE DEF c
  <2>3. Comes(c, str \o batch, mem, dev)
    BY <1>2, <2>1, <2>2, AppendedComes
  <2> QED BY <2>3 DEF c
<1>5. ASSUME NEW b \in plan.own PROVE Comes(PartCopy(plan, d, b), two, mem, dev)
  <2> DEFINE c == PartCopy(plan, d, b)
  <2>1. c \in ToSet(batch) /\ c.to = b
    BY <1>2 DEF PartCopy
  <2>2. ASSUME NEW e \in ToSet(batch), e.to = c.to PROVE e = c
    <3>1. CASE e \in {PageCopy(plan, j) : j \in plan.copies}
      <4>1. PICK j \in plan.copies : e = PageCopy(plan, j)
        BY <3>1
      <4>2. e.to = plan.pages[j]
        BY <4>1 DEF PageCopy
      <4> QED BY <1>1, <2>1, <2>2, <4>2
    <3>2. CASE e \in {PartCopy(plan, d, f) : f \in plan.own}
      <4>1. PICK f \in plan.own : e = PartCopy(plan, d, f)
        BY <3>2
      <4>2. e.to = f
        BY <4>1 DEF PartCopy
      <4> QED BY <2>1, <2>2, <4>1, <4>2
    <3> QED BY <1>2, <3>1, <3>2
  <2> HIDE DEF c
  <2>3. Comes(c, str \o batch, mem, dev)
    BY <1>2, <2>1, <2>2, AppendedComes
  <2> QED BY <2>3 DEF c
<1>6. MapRight(st, two, mem, dev, tgt)
  BY DEF batch
<1> HIDE DEF two
<1>7. ASSUME NEW i \in DOMAIN plan.pages \ plan.copies
      PROVE  Still(plan.pages[i], two) /\ Holds(mem[plan.pages[i]], PageBytes(meta, i))
  <2>1. /\ plan.pages[i] = st.map[ids[i]] /\ st.map[ids[i]] # NoSlab /\ ids[i] \in PageId
        /\ Holds(dev[ids[i]], PageBytes(meta, i))
    BY <1>1, <1>3
  <2>2. dev[ids[i]] # Junk
    BY <2>1 DEF Holds
  <2>3. Still(st.map[ids[i]], two) /\ mem[st.map[ids[i]]] = dev[ids[i]]
    BY <1>6, <2>1, <2>2 DEF MapRight
  <2> QED BY <2>1, <2>3
<1>8. PlanRight(plan, d, two, mem, dev)
  BY <1>1, <1>4, <1>5, <1>7 DEF PlanRight
<1> QED BY <1>8 DEF two, batch

\* A sound store with the same plans for the entries is one for them still.
LEMMA PlanningKept ==
    ASSUME NEW st, NEW pl, NEW entries, Planning(st, pl, entries),
           NEW u, NEW pl2, StoreInv(u, pl2),
           NEW rest, rest \subseteq entries,
           \A x \in IssuedIn(rest) : pl2[x.key] = pl[x.key]
    PROVE  Planning(u, pl2, rest)
<1>1. IssuedIn(rest) \subseteq IssuedIn(entries)
  BY DEF IssuedIn
<1>2. \A x \in IssuedIn(rest) : x.key \in HasPlan(pl2) /\ pl2[x.key].meta = x.payload
  <2> SUFFICES ASSUME NEW x \in IssuedIn(rest)
               PROVE  x.key \in HasPlan(pl2) /\ pl2[x.key].meta = x.payload
    OBVIOUS
  <2>1. x.key \in HasPlan(pl) /\ pl[x.key].meta = x.payload
    BY <1>1 DEF Planning
  <2> QED BY <2>1 DEF HasPlan
<1> QED BY <1>1, <1>2 DEF Planning

\* Planning and issuing a store keeps everything right, however far the copies got,
\* and the plan of a store that was issued is right.
LEMMA IssuesBytes ==
    ASSUME NEW base, Planning(store, plans, base), NEW meta \in Meta, store.next_key < MaxKeys,
           NEW d \in Arena, NEW sav, NEW dev, NEW tgt, stream \in Seq(CopyRecords),
           BytesRight(store, plans, base, sav, stream, memory, dev, tgt),
           \A i \in DOMAIN meta.pages : Holds(dev[meta.pages[i]], PageBytes(meta, i)),
           NEW o \in Issues(meta, d, dev),
           NEW pl2, pl2 = IF o.plan = Absent THEN plans
                          ELSE [plans EXCEPT ![o.plan.key] = o.plan]
    PROVE  /\ o.stream \in Seq(CopyRecords)
           /\ Planning(o.store, pl2, base)
           /\ BytesRight(o.store, pl2, base, sav, o.stream, o.memory, dev, tgt)
           /\ o.result = "issued" => PlanRight(o.plan, d, o.stream, o.memory, dev)
<1> DEFINE room == RoomFor(store, meta)
           Goal == /\ o.stream \in Seq(CopyRecords)
                   /\ Planning(o.store, pl2, base)
                   /\ BytesRight(o.store, pl2, base, sav, o.stream, o.memory, dev, tgt)
                   /\ o.result = "issued" => PlanRight(o.plan, d, o.stream, o.memory, dev)
<1>1. StoreInv(store, plans)
  BY DEF Planning
<1>2. /\ StoreInv(room, plans) /\ room.next_key = store.next_key /\ Shrinks(store, room)
      /\ room \in StoreRecords
  <2>1. Fewer(store, room, plans)
    BY <1>1, RoomForKeeps
  <2> HIDE DEF room
  <2> QED BY <2>1 DEF Fewer, Shrinks, StoreInv
<1> HIDE DEF room
<1>3. Planning(room, plans, base) /\ BytesRight(room, plans, base, sav, stream, memory, dev, tgt)
  BY <1>2, PlanningKept, BytesShrink
<1>4. CASE ~Fits(room, meta)
  <2>1. o = Issue("exhausted", room, Absent, stream, memory)
    BY <1>4 DEF Issues, room
  <2>2. /\ o.result = "exhausted" /\ o.store = room /\ o.plan = Absent
        /\ o.stream = stream /\ o.memory = memory
    BY <2>1 DEF Issue
  <2> QED BY <1>3, <2>2
<1>5. CASE Fits(room, meta)
  <2>1. PICK plan \in PlansFor(room, meta) : o \in Attempts(room, plan, d, dev)
    BY <1>5 DEF Issues, room
  <2> DEFINE taken == Planned(room, plan)
             pl3 == [plans EXCEPT ![plan.key] = plan]
             batch == Batch(plan, d)
             sent(n) == stream \o SubSeq(batch, 1, n)
  <2>2. PlanFrom(room, meta, plan)
    BY <1>2, PlansForFacts
  <2>3. /\ StoreInv(taken, pl3) /\ plan \in PlanRecords /\ plan.meta = meta
        /\ plan.key \notin HasPlan(plans) /\ plan.key \in Key
        /\ taken.snapshots = room.snapshots
        /\ plans \in [Key -> PlanRecords \cup {Absent}]
        /\ plan.copies \subseteq DOMAIN plan.meta.pages
        /\ DOMAIN plan.pages = DOMAIN plan.meta.pages
    <3>1. StoreInv(taken, pl3) /\ taken.snapshots = room.snapshots
          /\ plan.key \notin Holding(room, plans)
      BY <1>2, PlannedKeeps
    <3> HIDE DEF taken, pl3
    <3> QED BY <1>1, <2>2, <3>1 DEF Holding, PlanFrom, PlanRecords, StoreInv, PlansExact, Unmapped
  <2>4. taken.map = room.map
    BY <1>2, StoreFields DEF Planned, AddPageRefs
  <2>5. Shrinks(room, taken)
    BY <2>3, <2>4 DEF Shrinks, Resident
  <2>6. plan # Absent
    <3>1. "key" \in DOMAIN plan
      BY <2>3 DEF PlanRecords
    <3> QED BY <3>1 DEF Absent
  <2>7. pl3[plan.key] = plan /\ plan.key \in HasPlan(pl3)
    BY <2>3, <2>6 DEF HasPlan
  <2>8. \A x \in IssuedIn(base) : pl3[x.key] = plans[x.key]
    BY <2>3 DEF Planning
  <2> HIDE DEF taken, pl3
  <2>9. Planning(taken, pl3, base)
    BY <1>3, <2>3, <2>8, PlanningKept
  <2>10. batch \in Seq(CopyRecords)
    BY <2>3, BatchFacts
  <2>11. ASSUME NEW q \in Seq(CopyRecords), ToSet(q) \subseteq ToSet(batch)
         PROVE  /\ stream \o q \in Seq(CopyRecords)
                /\ BytesRight(room, plans, base, sav, stream \o q, memory, dev, tgt)
                /\ BytesRight(taken, pl3, base, sav, stream \o q, memory, dev, tgt)
    <3>1. stream \o q \in Seq(CopyRecords)
      BY ConcatFacts
    <3>2. \A b \in Slab \ room.free : Kept(b, stream, memory, stream \o q, memory, dev)
      BY <2>2, <2>11, BatchKeeps
    <3>3. BytesRight(room, plans, base, sav, stream \o q, memory, dev, tgt)
      BY <1>3, <3>2, BytesMove
    <3>4. BytesRight(taken, pl3, base, sav, stream \o q, memory, dev, tgt)
      BY <2>5, <2>8, <3>3, BytesShrink
    <3> QED BY <3>1, <3>3, <3>4
  <2>12. ASSUME NEW n \in 0..Len(batch)
         PROVE  /\ sent(n) \in Seq(CopyRecords)
                /\ BytesRight(taken, pl3, base, sav, sent(n), memory, dev, tgt)
    <3> DEFINE q == SubSeq(batch, 1, n)
    <3>1. q \in Seq(CopyRecords) /\ ToSet(q) \subseteq ToSet(batch)
      BY <2>10, CutFacts
    <3> HIDE DEF q, batch
    <3>2. /\ stream \o q \in Seq(CopyRecords)
          /\ BytesRight(taken, pl3, base, sav, stream \o q, memory, dev, tgt)
      BY <2>11, <3>1
    <3> QED BY <3>2 DEF q
  <2> DEFINE drained == {Issue("drained", Aborted(taken, plan), Absent, <<>>,
                           Executed(dev, memory, sent(n))) : n \in 0..Len(batch) - 1}
             hung == {Issue("held", taken, plan, sent(n), memory) : n \in 0..Len(batch)}
  <2>13. \/ o = Issue("issued", taken, plan, stream \o batch, memory)
         \/ o \in drained \/ o \in hung
    BY <2>1 DEF Attempts, taken
  <2>14. CASE o = Issue("issued", taken, plan, stream \o batch, memory)
    <3>1. /\ o.result = "issued" /\ o.store = taken /\ o.plan = plan
          /\ o.stream = stream \o batch /\ o.memory = memory
      BY <2>14 DEF Issue
    <3>2. pl2 = pl3
      BY <2>6, <3>1 DEF pl3
    <3>3. /\ stream \o batch \in Seq(CopyRecords)
          /\ BytesRight(room, plans, base, sav, stream \o batch, memory, dev, tgt)
          /\ BytesRight(taken, pl3, base, sav, stream \o batch, memory, dev, tgt)
      BY <2>10, <2>11
    <3>4. MapRight(room, stream \o batch, memory, dev, tgt)
      BY <3>3 DEF BytesRight
    <3>5. PlanRight(plan, d, stream \o batch, memory, dev)
      BY <2>2, <3>4, QueuedPlanRight
    <3> HIDE DEF batch
    <3> QED BY <2>9, <3>1, <3>2, <3>3, <3>5
  <2>15. CASE o \in hung
    <3>1. PICK n \in 0..Len(batch) : o = Issue("held", taken, plan, sent(n), memory)
      BY <2>15
    <3>2. /\ o.result = "held" /\ o.store = taken /\ o.plan = plan
          /\ o.stream = sent(n) /\ o.memory = memory
      BY <3>1 DEF Issue
    <3>3. pl2 = pl3
      BY <2>6, <3>2 DEF pl3
    <3>4. /\ sent(n) \in Seq(CopyRecords)
          /\ BytesRight(taken, pl3, base, sav, sent(n), memory, dev, tgt)
      BY <2>12
    <3> HIDE DEF sent
    <3> QED BY <2>9, <3>2, <3>3, <3>4
  <2>16. CASE o \in drained
    <3>1. PICK n \in 0..Len(batch) - 1 :
             o = Issue("drained", Aborted(taken, plan), Absent, <<>>,
                       Executed(dev, memory, sent(n)))
      BY <2>16
    <3>2. n \in 0..Len(batch)
      BY <2>10, SequenceFacts
    <3> DEFINE str == sent(n)
               mem2 == Executed(dev, memory, str)
               u == Aborted(taken, plan)
    <3>3. /\ o.result = "drained" /\ o.store = u /\ o.plan = Absent
          /\ o.stream = <<>> /\ o.memory = mem2
      BY <3>1 DEF Issue
    <3>4. str \in Seq(CopyRecords) /\ BytesRight(taken, pl3, base, sav, str, memory, dev, tgt)
      BY <2>12, <3>2
    <3> HIDE DEF str
    <3>5. \A b \in Slab : Kept(b, str, memory, <<>>, mem2, dev)
      BY <3>4, ExecutedAll
    <3> HIDE DEF mem2
    <3>6. BytesRight(taken, pl3, base, sav, <<>>, mem2, dev, tgt)
      BY <2>9, <3>4, <3>5, BytesMove
    <3>7. Shrinks(taken, Aborted(taken, pl3[plan.key]))
      BY <2>3, <2>7, StoreShrinks
    <3>8. Shrinks(taken, u)
      BY <2>7, <3>7
    <3>9. \A x \in IssuedIn(base) : plans[x.key] = pl3[x.key]
      BY <2>8
    <3>10. StoreInv(u, plans)
      <4>1. StoreInv(Aborted(taken, pl3[plan.key]), [pl3 EXCEPT ![plan.key] = Absent])
        BY <2>3, <2>7, AbortedKeeps
      <4>2. [pl3 EXCEPT ![plan.key] = Absent] = plans
        BY <2>3 DEF HasPlan, pl3
      <4> QED BY <2>7, <4>1, <4>2
    <3> HIDE DEF u
    <3>11. BytesRight(u, plans, base, sav, <<>>, mem2, dev, tgt)
      BY <3>6, <3>8, <3>9, BytesShrink
    <3>12. Planning(u, plans, base)
      BY <2>9, <3>9, <3>10, PlanningKept
    <3>13. pl2 = plans /\ <<>> \in Seq(CopyRecords)
      BY <3>3
    <3> QED BY <3>3, <3>11, <3>12, <3>13
  <2> HIDE DEF drained, hung
  <2> QED BY <2>13, <2>14, <2>15, <2>16
<1> QED BY <1>4, <1>5

-----------------------------------------------------------------------------
(* The end of a store.                                                     *)

\* What the end of a plan leaves in the store.
LEMMA EndedStore ==
    ASSUME NEW books, BooksOK(books), NEW p, NEW payload
    PROVE  /\ ReleasedPlan(books, p).store = Aborted(books.store, p)
           /\ CommittedPlan(books, p, payload).store = Committed(books.store, p)
<1>1. DOMAIN books = {"store", "plans", "payloads"}
  BY DEF BooksOK
<1>2. \A pl2, st2 : [books EXCEPT !.plans = pl2, !.store = st2].store = st2
  BY <1>1
<1>3. \A pl2, st2, all2 : [books EXCEPT !.plans = pl2, !.store = st2, !.payloads = all2].store = st2
  BY <1>1
<1>4. ReleasedPlan(books, p).store = Aborted(books.store, p)
  <2> DEFINE t == Aborted(books.store, p)
             pl2 == [books.plans EXCEPT ![p.key] = Absent]
  <2>1. ReleasedPlan(books, p) = [books EXCEPT !.plans = pl2, !.store = t]
    BY <1>1 DEF ReleasedPlan
  <2> HIDE DEF t, pl2
  <2>2. ReleasedPlan(books, p).store = t
    BY <1>2, <2>1
  <2> QED BY <2>2 DEF t
<1>5. CommittedPlan(books, p, payload).store = Committed(books.store, p)
  <2> DEFINE t == Committed(books.store, p)
             pl2 == [books.plans EXCEPT ![p.key] = Absent]
             kept == IF Replaced(books.store, p.meta) # {} THEN PayloadsIn(t, books.payloads)
                     ELSE books.payloads
             all2 == [kept EXCEPT ![p.key] = payload]
  <2>1. CommittedPlan(books, p, payload) =
           [books EXCEPT !.plans = pl2, !.store = t, !.payloads = all2]
    BY <1>1 DEF CommittedPlan
  <2> HIDE DEF t, pl2, all2
  <2>2. CommittedPlan(books, p, payload).store = t
    BY <1>3, <2>1
  <2> QED BY <2>2 DEF t
<1> QED BY <1>4, <1>5

\* Whichever way a store ends - committed once it has landed, or released at any
\* time - the bytes of what is left stay right.
LEMMA EndBytes ==
    ASSUME NEW books, BooksOK(books), NEW entries,
           Planning(books.store, books.plans, entries),
           NEW sav, NEW str \in Seq(CopyRecords), NEW mem, NEW dev, NEW tgt,
           BytesRight(books.store, books.plans, entries, sav, str, mem, dev, tgt),
           NEW x \in IssuedIn(entries),
           NEW next,
           \/ next = ReleasedPlan(books, books.plans[x.key])
           \/ /\ next = CommittedPlan(books, books.plans[x.key], x.payload)
              /\ Landed(str, x.key)
    PROVE  /\ Planning(next.store, next.plans, entries \ {x})
           /\ BytesRight(next.store, next.plans, entries \ {x}, sav, str, mem, dev, tgt)
<1> DEFINE st == books.store
           pl == books.plans
           p == pl[x.key]
           rest == entries \ {x}
<1>1. p.meta = x.payload /\ x.key \in HasPlan(pl) /\ x.key \in Key
  BY PlanOfEntry
<1>2. Ended(books, next, x.key)
  BY <1>1, ReleasedPlanKeeps, CommittedPlanKeeps
<1>3. pl \in [Key -> PlanRecords \cup {Absent}] /\ StoreInv(st, pl)
  BY PlansShape DEF BooksOK
<1>4. /\ StoreInv(next.store, next.plans) /\ next.plans = [pl EXCEPT ![x.key] = Absent]
  BY <1>2 DEF Ended, BooksOK
<1>5. \A y \in IssuedIn(rest) : y.key # x.key /\ y \in IssuedIn(entries)
  BY DEF Planning, IssuedIn
<1>6. \A y \in IssuedIn(rest) : next.plans[y.key] = pl[y.key]
  <2> SUFFICES ASSUME NEW y \in IssuedIn(rest) PROVE next.plans[y.key] = pl[y.key]
    OBVIOUS
  <2>1. y.key \in Key /\ y.key # x.key
    BY <1>5, PlanOfEntry
  <2> QED BY <1>3, <1>4, <2>1
<1>7. Planning(next.store, next.plans, rest)
  <2> HIDE DEF st, pl
  <2>1. Planning(st, pl, entries) /\ rest \subseteq entries
    BY DEF st, pl
  <2> QED BY <1>4, <1>6, <2>1, PlanningKept
<1>8. BytesRight(next.store, next.plans, rest, sav, str, mem, dev, tgt)
  <2>1. CASE next = ReleasedPlan(books, p)
    <3>1. next.store = Aborted(st, p)
      BY <2>1, EndedStore
    <3>2. Shrinks(st, next.store)
      BY <1>1, <1>3, <3>1, StoreShrinks
    <3> HIDE DEF st, pl, p
    <3>3. BytesRight(st, pl, entries, sav, str, mem, dev, tgt) /\ rest \subseteq entries
      BY DEF st, pl
    <3> QED BY <1>6, <3>2, <3>3, BytesShrink
  <2>2. CASE next = CommittedPlan(books, p, x.payload) /\ Landed(str, x.key)
    <3>1. next.store = Committed(st, p)
      BY <2>2, EndedStore
    <3>2. Commits(st, next.store, p)
      BY <1>1, <1>3, <3>1, CommittedCommits
    <3>3. Planning(st, pl, entries) /\ BytesRight(st, pl, entries, sav, str, mem, dev, tgt)
      OBVIOUS
    <3>4. Commits(st, next.store, pl[x.key])
      BY <3>2
    <3> HIDE DEF st, pl, p
    <3> QED BY <1>6, <2>2, <3>3, <3>4, BytesCommit
  <2> QED BY <2>1, <2>2
<1> QED BY <1>7, <1>8

\* An eviction that waits executes some of the queue and then ends its store.
LEMMA WaitBytes ==
    ASSUME NEW books, BooksOK(books), NEW entries,
           Planning(books.store, books.plans, entries),
           NEW sav, NEW queue \in Seq(CopyRecords), NEW mem, NEW tgt,
           BytesRight(books.store, books.plans, entries, sav, queue, mem, device, tgt),
           NEW x \in IssuedIn(entries),
           WaitAndSettle(books, books.plans[x.key], queue, mem, x.payload)
    PROVE  /\ stream' \in Seq(CopyRecords)
           /\ Planning(store', plans', entries \ {x})
           /\ BytesRight(store', plans', entries \ {x}, sav, stream', memory', device, tgt)
<1> DEFINE p == books.plans[x.key]
<1>1. PICK n \in 0..Len(queue), completed \in BOOLEAN :
        /\ stream' = SubSeq(queue, n + 1, Len(queue))
        /\ completed => Landed(stream', p.key)
        /\ TakesBooks(IF completed THEN CommittedPlan(books, p, x.payload)
                      ELSE ReleasedPlan(books, p))
        /\ memory' = Unowned(store', Executed(device, mem, SubSeq(queue, 1, n)))
  BY DEF WaitAndSettle
<1> DEFINE mem2 == Executed(device, mem, SubSeq(queue, 1, n))
           next == IF completed THEN CommittedPlan(books, p, x.payload) ELSE ReleasedPlan(books, p)
           rest == SubSeq(queue, n + 1, Len(queue))
<1>2. rest \in Seq(CopyRecords)
  BY CutFacts
<1>3. \A b \in Slab : Kept(b, queue, mem, rest, mem2, device)
  BY ExecutedKeeps
<1>4. p.key = x.key
  BY PlanOfEntry
<1>5. completed => Landed(rest, x.key)
  BY <1>1, <1>4
<1>6. TakesBooks(next)
  BY <1>1
<1>7. stream' = rest /\ memory' = Unowned(store', mem2)
  BY <1>1
<1>8. \/ next = ReleasedPlan(books, books.plans[x.key])
      \/ /\ next = CommittedPlan(books, books.plans[x.key], x.payload)
         /\ Landed(rest, x.key)
  BY <1>5
<1> HIDE DEF rest, mem2, next, p
<1>9. BytesRight(books.store, books.plans, entries, sav, rest, mem2, device, tgt)
  BY <1>3, BytesMove
<1>10. /\ Planning(next.store, next.plans, entries \ {x})
       /\ BytesRight(next.store, next.plans, entries \ {x}, sav, rest, mem2, device, tgt)
  BY <1>2, <1>8, <1>9, EndBytes
<1>11. next.store = store' /\ next.plans = plans'
  BY <1>6 DEF TakesBooks
<1>12. BytesRight(next.store, next.plans, entries \ {x}, sav, rest, Unowned(next.store, mem2),
                  device, tgt)
  BY <1>10, UnownedKeeps
<1> QED BY <1>2, <1>7, <1>10, <1>11, <1>12

\* Books and entries that match make a planning.
LEMMA PlanningOf ==
    ASSUME NEW books, BooksOK(books), NEW entries, entries \subseteq EntryRecords,
           \A x, y \in entries : x.ticket = y.ticket => x = y,
           NEW kept, PlansMatch(books.plans, entries, kept)
    PROVE  Planning(books.store, books.plans, entries)
BY DEF Planning, BooksOK, PlansMatch

\* The cache and its stores in flight are such a planning.
LEMMA CurrentPlanning ==
    ASSUME CacheInv
    PROVE  Planning(store, plans, ToSet(pending))
<1>1. BooksOK(Books) /\ Books.store = store /\ Books.plans = plans
  BY CurrentBooks
<1>2. /\ ToSet(pending) \subseteq EntryRecords
      /\ \A x, y \in ToSet(pending) : x.ticket = y.ticket => x = y
  BY EntriesFinite DEF CacheInv, QueueOK
<1>3. PlansMatch(plans, ToSet(pending), held)
  BY DEF CacheInv
<1> QED BY <1>1, <1>2, <1>3, PlanningOf

-----------------------------------------------------------------------------
(* A tick.                                                                 *)

\* The loop commits a store only once its copies are out of the stream.
LEMMA PolledLands ==
    ASSUME NEW at, IsLoop(at), NEW p \in EntryRecords, NEW errors
    PROVE  LET next == Polled(at, p, errors) IN
           \/ next.books = at.books /\ next.reported = at.reported
           \/ /\ next.reported = at.reported \cup {p.ticket}
              /\ p.kind = "failed" /\ next.books = at.books
           \/ /\ next.reported = at.reported \cup {p.ticket}
              /\ p.kind = "issued"
              /\ \/ next.books = ReleasedPlan(at.books, plans[p.key])
                 \/ /\ next.books = CommittedPlan(at.books, plans[p.key], p.payload)
                    /\ Landed(stream, p.key)
<1> DEFINE next == Polled(at, p, errors)
           keep == [at EXCEPT !.left = Append(@, p)]
           report == [at EXCEPT !.reported = @ \cup {p.ticket}]
<1>1. /\ IsLoop(keep) /\ keep.books = at.books /\ keep.reported = at.reported
  BY DEF IsLoop, LoopFields
<1>2. /\ IsLoop(report) /\ report.books = at.books
      /\ report.reported = at.reported \cup {p.ticket}
  BY DEF IsLoop, LoopFields
<1>3. p.kind \in {"issued", "deferred", "failed"}
  BY DEF EntryRecords
<1>4. CASE at.stopped \/ Stops(p, errors)
  <2>1. next = [keep EXCEPT !.stopped = TRUE]
    BY <1>4 DEF Polled
  <2> HIDE DEF keep, next
  <2>2. next.books = at.books /\ next.reported = at.reported
    BY <1>1, <2>1 DEF IsLoop, LoopFields
  <2> QED BY <2>2 DEF next
<1>5. CASE ~(at.stopped \/ Stops(p, errors)) /\ p.kind = "deferred"
  <2>1. next = keep
    BY <1>5 DEF Polled
  <2> HIDE DEF keep, next
  <2>2. next.books = at.books /\ next.reported = at.reported
    BY <1>1, <2>1
  <2> QED BY <2>2 DEF next
<1>6. CASE ~(at.stopped \/ Stops(p, errors)) /\ p.kind = "failed"
  <2>1. next = report
    BY <1>6 DEF Polled
  <2> HIDE DEF report, next
  <2>2. next.books = at.books /\ next.reported = at.reported \cup {p.ticket}
    BY <1>2, <2>1
  <2> QED BY <1>6, <2>2 DEF next
<1>7. CASE ~(at.stopped \/ Stops(p, errors)) /\ p.kind = "issued"
  <2> DEFINE b == IF p.ticket \in errors THEN ReleasedPlan(at.books, plans[p.key])
                  ELSE CommittedPlan(at.books, plans[p.key], p.payload)
  <2>1. next = [report EXCEPT !.books = b]
    BY <1>2, <1>7 DEF Polled, IsLoop, LoopFields
  <2>2. \/ b = ReleasedPlan(at.books, plans[p.key])
        \/ b = CommittedPlan(at.books, plans[p.key], p.payload) /\ p.ticket \notin errors
    OBVIOUS
  <2>3. p.ticket \notin errors => Landed(stream, p.key)
    BY <1>7 DEF Stops
  <2> HIDE DEF report, next, b
  <2>4. next.books = b /\ next.reported = at.reported \cup {p.ticket}
    BY <1>2, <2>1 DEF IsLoop, LoopFields
  <2>5. \/ next.books = ReleasedPlan(at.books, plans[p.key])
        \/ /\ next.books = CommittedPlan(at.books, plans[p.key], p.payload)
           /\ Landed(stream, p.key)
    BY <2>2, <2>3, <2>4
  <2> QED BY <1>7, <2>4, <2>5 DEF next
<1> QED BY <1>3, <1>4, <1>5, <1>6, <1>7

\* The bytes are right for the books the loop has and the entries it has not reported.
PollBytes(at, tgt) ==
    BytesRight(at.books.store, at.books.plans, Unreported(ToSet(pending), at.reported),
               saved, stream, memory, device, tgt)

\* Looking at one more entry keeps them right.
LEMMA PolledBytes ==
    ASSUME CacheInv, stream \in Seq(CopyRecords), NEW tgt, NEW errors, NEW at,
           NEW n \in Nat, n + 1 <= Len(pending), PollInv(at, n), PollBytes(at, tgt)
    PROVE  PollBytes(Polled(at, pending[n + 1], errors), tgt)
<1> DEFINE p == pending[n + 1]
           next == Polled(at, p, errors)
           all == ToSet(pending)
           rest == Unreported(all, at.reported)
<1>1. /\ p \in EntryRecords /\ p \in all /\ p \notin Seen(n) /\ Seen(n) \subseteq all
      /\ all \subseteq EntryRecords
      /\ \A x, y \in all : x.ticket = y.ticket => x = y
  <2>1. /\ pending \in Seq(EntryRecords) /\ Injective(pending) /\ Len(pending) \in Nat
        /\ DOMAIN pending = 1..Len(pending) /\ all = {pending[i] : i \in 1..Len(pending)}
        /\ \A i \in 1..Len(pending) : pending[i] \in EntryRecords
        /\ \A x, y \in all : x.ticket = y.ticket => x = y
    BY SequenceFacts DEF CacheInv, QueueOK
  <2>2. \A i \in 1..n : i \in 1..Len(pending) /\ pending[i] # p
    BY <2>1 DEF Injective
  <2> QED BY <2>1, <2>2 DEF Seen
<1>2. p.ticket \notin at.reported
  <2>1. at.reported \subseteq {x.ticket : x \in Seen(n)}
    BY DEF PollInv
  <2> QED BY <1>1, <2>1
<1>3. /\ IsLoop(at) /\ BooksOK(at.books) /\ PlansMatch(at.books.plans, rest, held)
      /\ \A k \in HasPlan(at.books.plans) : at.books.plans[k] = plans[k]
  BY DEF PollInv
<1>4. p \in rest /\ rest \subseteq all
  BY <1>1, <1>2 DEF Unreported
<1>5. Unreported(all, at.reported \cup {p.ticket}) = rest \ {p}
  BY <1>1 DEF Unreported
<1>6. BytesRight(at.books.store, at.books.plans, rest, saved, stream, memory, device, tgt)
  BY DEF PollBytes
<1>7. \/ next.books = at.books /\ next.reported = at.reported
      \/ /\ next.reported = at.reported \cup {p.ticket}
         /\ p.kind = "failed" /\ next.books = at.books
      \/ /\ next.reported = at.reported \cup {p.ticket}
         /\ p.kind = "issued"
         /\ \/ next.books = ReleasedPlan(at.books, plans[p.key])
            \/ /\ next.books = CommittedPlan(at.books, plans[p.key], p.payload)
               /\ Landed(stream, p.key)
  BY <1>1, <1>3, PolledLands
<1> HIDE DEF next, p, all
<1>8. CASE next.books = at.books /\ next.reported = at.reported
  <2>1. PollBytes(next, tgt)
    BY <1>6, <1>8 DEF PollBytes, all
  <2> QED BY <2>1 DEF next, p
<1>9. CASE /\ next.reported = at.reported \cup {p.ticket}
           /\ p.kind = "failed" /\ next.books = at.books
  <2>1. BytesRight(at.books.store, at.books.plans, rest \ {p}, saved, stream, memory, device, tgt)
    BY <1>6 DEF BytesRight
  <2>2. Unreported(ToSet(pending), next.reported) = rest \ {p}
    BY <1>5, <1>9 DEF all
  <2> HIDE DEF rest
  <2>3. PollBytes(next, tgt)
    BY <1>9, <2>1, <2>2 DEF PollBytes
  <2> QED BY <2>3 DEF next, p
<1>10. CASE /\ next.reported = at.reported \cup {p.ticket}
            /\ p.kind = "issued"
            /\ \/ next.books = ReleasedPlan(at.books, plans[p.key])
               \/ /\ next.books = CommittedPlan(at.books, plans[p.key], p.payload)
                  /\ Landed(stream, p.key)
  <2>0. Unreported(ToSet(pending), next.reported) = rest \ {p}
    BY <1>5, <1>10 DEF all
  <2>a. rest \subseteq EntryRecords /\ \A x, y \in rest : x.ticket = y.ticket => x = y
    BY <1>1, <1>4
  <2> HIDE DEF rest
  <2>1. p \in IssuedIn(rest)
    BY <1>4, <1>10 DEF IssuedIn
  <2>2. at.books.plans[p.key] = plans[p.key]
    BY <1>3, <2>1 DEF PlansMatch
  <2>3. Planning(at.books.store, at.books.plans, rest)
    BY <1>3, <2>a, PlanningOf
  <2>4. BytesRight(next.books.store, next.books.plans, rest \ {p}, saved, stream, memory,
                   device, tgt)
    <3> DEFINE b == next.books
    <3>1. \/ b = ReleasedPlan(at.books, at.books.plans[p.key])
          \/ /\ b = CommittedPlan(at.books, at.books.plans[p.key], p.payload)
             /\ Landed(stream, p.key)
      BY <1>10, <2>2
    <3> HIDE DEF b
    <3>2. BytesRight(b.store, b.plans, rest \ {p}, saved, stream, memory, device, tgt)
      BY <1>3, <1>6, <2>1, <2>3, <3>1, EndBytes
    <3> QED BY <3>2 DEF b
  <2>5. PollBytes(next, tgt)
    BY <2>0, <2>4 DEF PollBytes
  <2> QED BY <2>5 DEF next, p
<1> QED BY <1>7, <1>8, <1>9, <1>10

\* A tick leaves the bytes right.
LEMMA TickBytes ==
    ASSUME CacheInv, stream \in Seq(CopyRecords), NEW tgt,
           BytesRight(store, plans, ToSet(pending), saved, stream, memory, device, tgt),
           NEW errors, Tick(errors)
    PROVE  BytesRight(store', plans', ToSet(pending'), saved, stream, memory', device, tgt)
<1>1. Len(pending) \in Nat
  BY DEF CacheInv, QueueOK
<1>2. PICK f : /\ Polling(errors) = f[Len(pending)]
               /\ f[0] = Unpolled
               /\ \A i \in 1..Len(pending) : f[i] = Polled(f[i - 1], pending[i], errors)
  BY <1>1, PollingFacts
<1> DEFINE Good(at, n) == PollInv(at, n) /\ PollBytes(at, tgt)
           T == {n \in Nat : n <= Len(pending) => Good(f[n], n)}
<1>3. 0 \in T
  <2>1. IsLoop(Unpolled) /\ Unpolled.books = Books /\ Unpolled.reported = {}
    BY DEF Unpolled, IsLoop, LoopFields
  <2>2. Books.store = store /\ Books.plans = plans /\ Unreported(ToSet(pending), {}) = ToSet(pending)
    BY DEF Books, Unreported
  <2>3. PollBytes(Unpolled, tgt)
    BY <2>1, <2>2 DEF PollBytes
  <2> QED BY <1>2, <2>3, UnpolledInv
<1>4. ASSUME NEW n \in Nat, n \in T PROVE n + 1 \in T
  <2> SUFFICES ASSUME n + 1 <= Len(pending) PROVE Good(f[n + 1], n + 1)
    OBVIOUS
  <2>1. PollInv(f[n], n) /\ PollBytes(f[n], tgt)
    BY <1>1, <1>4
  <2>2. f[n + 1] = Polled(f[n], pending[n + 1], errors)
    <3>1. n + 1 \in 1..Len(pending) /\ (n + 1) - 1 = n
      BY <1>1
    <3> QED BY <1>2, <3>1
  <2> QED BY <2>1, <2>2, PolledInv, PolledBytes
<1> HIDE DEF T
<1>5. Len(pending) \in T
  BY <1>1, <1>3, <1>4, SetInduction
<1> DEFINE end == Polling(errors)
           all == ToSet(pending)
<1>6. PollInv(end, Len(pending)) /\ PollBytes(end, tgt)
  BY <1>1, <1>2, <1>5 DEF T
<1>7. /\ TakesBooks(end.books) /\ pending' = end.left /\ memory' = Unowned(store', memory)
  BY DEF Tick
<1>8. Seen(Len(pending)) = all /\ all \subseteq EntryRecords
      /\ \A x, y \in all : x.ticket = y.ticket => x = y
  BY SequenceFacts, EntriesFinite DEF CacheInv, QueueOK, Seen
<1> HIDE DEF end, all
<1>9. ToSet(pending') = Unreported(all, end.reported)
  BY <1>6, <1>7, <1>8 DEF PollInv
<1>10. BytesRight(end.books.store, end.books.plans, ToSet(pending'), saved, stream, memory,
                  device, tgt)
  BY <1>6, <1>9 DEF PollBytes, all
<1>11. Planning(end.books.store, end.books.plans, ToSet(pending'))
  <2>1. BooksOK(end.books) /\ PlansMatch(end.books.plans, Unreported(all, end.reported), held)
    BY <1>6 DEF PollInv, all
  <2>2. /\ ToSet(pending') \subseteq EntryRecords
        /\ \A x, y \in ToSet(pending') : x.ticket = y.ticket => x = y
    BY <1>8, <1>9 DEF Unreported
  <2> QED BY <1>9, <2>1, <2>2, PlanningOf
<1>12. end.books.store = store' /\ end.books.plans = plans'
  BY <1>7 DEF TakesBooks
<1> QED BY <1>7, <1>10, <1>11, <1>12, UnownedKeeps

-----------------------------------------------------------------------------
(* Steps of the engine.                                                    *)

\* What entry x copies from is where and what it was.
SourceKept(x, d, sav2, dev, dev2, tgt2) ==
    /\ sav2[d].ticket = x.ticket /\ sav2[d].meta = x.payload
    /\ \A e \in Arena : sav2[e].ticket = x.ticket => e = d
    /\ d \notin tgt2 /\ dev2[d] = dev[d]
    /\ \A i \in DOMAIN x.payload.pages :
          x.payload.pages[i] \notin tgt2 /\ dev2[x.payload.pages[i]] = dev[x.payload.pages[i]]

\* The engine may change what it likes on the device but the sources of stores in
\* flight, and may only forget the pages that host pages stand for.
LEMMA BytesDevice ==
    ASSUME NEW st, NEW pl, NEW entries, Planning(st, pl, entries),
           NEW sav, NEW str, NEW mem, NEW dev, NEW tgt,
           BytesRight(st, pl, entries, sav, str, mem, dev, tgt),
           NEW sav2, NEW dev2, NEW tgt2,
           \A id \in PageId : st.map[id] # NoSlab =>
                id \notin tgt2 /\ dev2[id] \in {dev[id], Junk},
           \A x \in entries : \A d \in Arena :
                x.kind # "failed" /\ SourceRight(x, d, sav, dev, tgt)
                => SourceKept(x, d, sav2, dev, dev2, tgt2)
    PROVE  BytesRight(st, pl, entries, sav2, str, mem, dev2, tgt2)
<1>1. \A k \in Resident(st) : ResidentRight(st.snapshots[k], str, mem)
  BY DEF BytesRight
<1>2. MapRight(st, str, mem, dev2, tgt2)
  <2>1. MapRight(st, str, mem, dev, tgt)
    BY DEF BytesRight
  <2> SUFFICES ASSUME NEW id \in PageId, st.map[id] # NoSlab
               PROVE  /\ id \notin tgt2 /\ Still(st.map[id], str)
                      /\ dev2[id] # Fresh
                      /\ dev2[id] # Junk => mem[st.map[id]] = dev2[id]
    BY DEF MapRight
  <2>2. /\ Still(st.map[id], str) /\ dev[id] # Fresh
        /\ dev[id] # Junk => mem[st.map[id]] = dev[id]
    BY <2>1 DEF MapRight
  <2>3. id \notin tgt2 /\ dev2[id] \in {dev[id], Junk} /\ Junk # Fresh
    BY CacheShape
  <2> QED BY <2>2, <2>3
<1>3. ASSUME NEW x \in entries, x.kind # "failed"
      PROVE  EntryRight(pl, x, sav2, str, mem, dev2, tgt2)
  <2>1. PICK d \in Arena : /\ SourceRight(x, d, sav, dev, tgt)
                           /\ x.kind = "issued" => PlanRight(pl[x.key], d, str, mem, dev)
    BY <1>3 DEF BytesRight, EntryRight
  <2>2. SourceKept(x, d, sav2, dev, dev2, tgt2)
    BY <1>3, <2>1
  <2>3. SourceRight(x, d, sav2, dev2, tgt2)
    BY <2>1, <2>2 DEF SourceKept, SourceRight
  <2>4. ASSUME x.kind = "issued" PROVE PlanRight(pl[x.key], d, str, mem, dev2)
    <3> DEFINE p == pl[x.key]
    <3>1. x \in IssuedIn(entries)
      BY <2>4 DEF IssuedIn
    <3>2. /\ p.meta = x.payload /\ p.copies \subseteq DOMAIN p.pages
          /\ DOMAIN p.pages = DOMAIN p.meta.pages
      BY <3>1, PlanOfEntry
    <3>3. PlanRight(p, d, str, mem, dev)
      BY <2>1, <2>4
    <3> HIDE DEF p
    <3>4. ASSUME NEW i \in p.copies PROVE Comes(PageCopy(p, i), str, mem, dev2)
      <4> DEFINE c == PageCopy(p, i)
      <4>1. Comes(c, str, mem, dev) /\ c.from = x.payload.pages[i]
        BY <3>2, <3>3 DEF PlanRight, PageCopy
      <4>2. dev2[x.payload.pages[i]] = dev[x.payload.pages[i]]
        BY <2>2, <3>2 DEF SourceKept
      <4> HIDE DEF c
      <4>3. Comes(c, str, mem, dev2)
        BY <4>1, <4>2 DEF Comes
      <4> QED BY <4>3 DEF c
    <3>5. ASSUME NEW b \in p.own PROVE Comes(PartCopy(p, d, b), str, mem, dev2)
      <4> DEFINE c == PartCopy(p, d, b)
      <4>1. Comes(c, str, mem, dev) /\ c.from = d
        BY <3>3 DEF PlanRight, PartCopy
      <4>2. dev2[d] = dev[d]
        BY <2>2 DEF SourceKept
      <4> HIDE DEF c
      <4>3. Comes(c, str, mem, dev2)
        BY <4>1, <4>2 DEF Comes
      <4> QED BY <4>3 DEF c
    <3>6. PlanRight(p, d, str, mem, dev2)
      BY <3>3, <3>4, <3>5 DEF PlanRight
    <3> QED BY <3>6 DEF p
  <2> QED BY <2>3, <2>4 DEF EntryRight
<1> QED BY <1>1, <1>2, <1>3 DEF BytesRight

\* The copies of a restore.
UploadRecords == [from : Slab, to : PageId \cup Arena]

\* The last copy to a device page or buffer decides; one nobody copies to is as before.
LEMMA UploadedFacts ==
    ASSUME NEW copies \in Seq(UploadRecords), NEW x \in PageId \cup Arena
    PROVE  /\ (\A n \in 1..Len(copies) : copies[n].to # x) => Uploaded(copies)[x] = device[x]
           /\ \A b : /\ \E n \in 1..Len(copies) : copies[n].to = x
                     /\ \A n \in 1..Len(copies) : copies[n].to = x => copies[n].from = b
                     => Uploaded(copies)[x] = memory[b]
<1>1. DOMAIN copies = 1..Len(copies) /\ Len(copies) \in Nat
  BY SequenceFacts
<1> DEFINE W == Writes(copies, x)
<1>2. Uploaded(copies)[x] = IF W = {} THEN device[x] ELSE memory[copies[Max(W)].from]
  BY DEF Uploaded
<1>3. /\ W \in SUBSET Nat /\ \A y \in W : y <= Len(copies)
      /\ \A n : n \in W <=> n \in 1..Len(copies) /\ copies[n].to = x
  BY <1>1 DEF Writes
<1> HIDE DEF W
<1>4. W # {} => Max(W) \in W
  BY <1>1, <1>3, MaxProperties
<1> QED BY <1>2, <1>3, <1>4

-----------------------------------------------------------------------------
(* The invariant with the bytes, and the steps of the engine.              *)

\* What is being written by a restore that was given up.
GivingUpOK ==
    /\ giving_up = [uploads |-> giving_up.uploads, target |-> giving_up.target]
    /\ giving_up.uploads \in Seq(UploadRecords)
    /\ giving_up.target \subseteq PageId \cup Arena
    /\ \A n \in 1..Len(giving_up.uploads) : giving_up.uploads[n].to \in giving_up.target

\* The bytes of this state are right.
BytesOK ==
    /\ stream \in Seq(CopyRecords)
    /\ DOMAIN device = PageId \cup Arena
    /\ BytesRight(store, plans, ToSet(pending), saved, stream, memory, device,
                  giving_up.target)

\* The invariant of the cache with the bytes: what every slab in use holds, or will
\* once the copies queued have executed.
BytesInv == CacheInv /\ GivingUpOK /\ BytesOK

\* What changes is in the buffers D, which no entry copies from, or had not been used,
\* or is being written.
EngineStep(entries, sav, dev, tgt, D, sav2, dev2, tgt2) ==
    /\ D \subseteq Arena
    /\ \A e \in Arena \ D : sav2[e] = sav[e]
    /\ \A d \in D : \A x \in entries : sav2[d] = sav[d] \/ sav2[d].ticket # x.ticket
    /\ \A d \in D : dev[d] \in {Fresh, Junk} \/ \A x \in entries : sav[d].ticket # x.ticket
    /\ \A y \in (PageId \cup Arena) \ D :
          y \notin tgt /\ dev[y] # Fresh => y \notin tgt2 /\ dev2[y] = dev[y]

\* An engine step that touches only buffers no store in flight copies from, and
\* otherwise only what has not been used or is being written, keeps the bytes right.
LEMMA EngineBytes ==
    ASSUME NEW st, NEW pl, NEW entries, Planning(st, pl, entries),
           NEW sav, NEW str, NEW mem, NEW dev, NEW tgt,
           BytesRight(st, pl, entries, sav, str, mem, dev, tgt),
           NEW D, NEW sav2, NEW dev2, NEW tgt2,
           EngineStep(entries, sav, dev, tgt, D, sav2, dev2, tgt2)
    PROVE  BytesRight(st, pl, entries, sav2, str, mem, dev2, tgt2)
<1>1. PageId \cap Arena = {}
  BY CacheShape
<1>2. ASSUME NEW id \in PageId, st.map[id] # NoSlab
      PROVE  id \notin tgt2 /\ dev2[id] \in {dev[id], Junk}
  <2>1. id \notin tgt /\ dev[id] # Fresh
    BY <1>2 DEF BytesRight, MapRight
  <2>2. id \in (PageId \cup Arena) \ D
    BY <1>1 DEF EngineStep
  <2> QED BY <2>1, <2>2 DEF EngineStep
<1>3. ASSUME NEW x \in entries, NEW b \in Arena,
             x.kind # "failed", SourceRight(x, b, sav, dev, tgt)
      PROVE  SourceKept(x, b, sav2, dev, dev2, tgt2)
  <2>1. x.payload \in Meta
    BY DEF Planning, EntryRecords
  <2>2. /\ sav[b].ticket = x.ticket
        /\ \A e \in Arena : sav[e].ticket = x.ticket => e = b
        /\ sav[b].meta = x.payload
        /\ b \notin tgt /\ dev[b] = OwnBytes(x.payload)
        /\ \A i \in DOMAIN x.payload.pages :
              /\ x.payload.pages[i] \notin tgt
              /\ dev[x.payload.pages[i]] \notin {Fresh, Junk}
    BY <1>3 DEF SourceRight, Holds
  <2>3. dev[b] \notin {Fresh, Junk}
    BY <2>1, <2>2, BytesAreTokens
  <2>4. b \notin D
    BY <2>2, <2>3 DEF EngineStep
  <2>5. sav2[b] = sav[b] /\ b \notin tgt2 /\ dev2[b] = dev[b]
    BY <2>2, <2>3, <2>4 DEF EngineStep
  <2>6. ASSUME NEW e \in Arena, sav2[e].ticket = x.ticket PROVE e = b
    <3>1. sav[e].ticket = x.ticket
      BY <2>6 DEF EngineStep
    <3> QED BY <2>2, <3>1
  <2>7. ASSUME NEW i \in DOMAIN x.payload.pages
        PROVE  /\ x.payload.pages[i] \notin tgt2
               /\ dev2[x.payload.pages[i]] = dev[x.payload.pages[i]]
    <3>1. x.payload.pages \in Seq(PageId)
      BY <2>1, MetaShape
    <3>2. x.payload.pages[i] \in PageId
      BY <3>1
    <3>3. x.payload.pages[i] \in (PageId \cup Arena) \ D
      BY <1>1, <3>2 DEF EngineStep
    <3> QED BY <2>2, <3>3 DEF EngineStep
  <2> QED BY <2>2, <2>5, <2>6, <2>7 DEF SourceKept
<1> QED BY <1>2, <1>3, BytesDevice

\* Every page of meta is unused, or holds what meta says of it.
PagesReady(meta) ==
    \A i \in DOMAIN meta.pages :
        \/ IsFresh(meta.pages[i])
        \/ Allocated(meta.pages[i]) /\ IsPrefix(PageBytes(meta, i), device[meta.pages[i]])

\* The device once a snapshot is retained: its pages and its buffer hold its bytes,
\* and nothing else that was in use changes.
LEMMA DeviceWithFacts ==
    ASSUME NEW meta \in Meta, NEW d \in Arena, PagesReady(meta)
    PROVE  LET dev2 == DeviceWith(meta, d) IN
           /\ DOMAIN dev2 = PageId \cup Arena
           /\ dev2[d] = OwnBytes(meta)
           /\ \A i \in DOMAIN meta.pages : Holds(dev2[meta.pages[i]], PageBytes(meta, i))
           /\ \A y \in (PageId \cup Arena) \ {d} : device[y] # Fresh => dev2[y] = device[y]
<1> DEFINE dev2 == DeviceWith(meta, d)
<1>1. /\ DOMAIN dev2 = PageId \cup Arena /\ dev2[d] = OwnBytes(meta)
      /\ \A y \in (PageId \cup Arena) \ {d} :
            /\ device[y] # Fresh => dev2[y] = device[y]
            /\ y \in ToSet(meta.pages) /\ device[y] = Fresh =>
                  dev2[y] = PageBytes(meta, CHOOSE i \in DOMAIN meta.pages : meta.pages[i] = y)
  BY DEF DeviceWith
<1> HIDE DEF dev2
<1>2. ASSUME NEW i \in DOMAIN meta.pages
      PROVE  Holds(dev2[meta.pages[i]], PageBytes(meta, i))
  <2> DEFINE y == meta.pages[i]
             j == CHOOSE n \in DOMAIN meta.pages : meta.pages[n] = y
  <2>1. /\ meta.pages \in Seq(PageId)
        /\ \A m, n \in DOMAIN meta.pages : meta.pages[m] = meta.pages[n] => m = n
    BY MetaShape
  <2>2. y \in (PageId \cup Arena) \ {d} /\ y \in ToSet(meta.pages)
    BY <2>1, CacheShape DEF ToSet
  <2>3. j = i
    <3>1. j \in DOMAIN meta.pages /\ meta.pages[j] = y
      OBVIOUS
    <3> HIDE DEF j
    <3> QED BY <2>1, <3>1
  <2>4. CASE device[y] = Fresh
    <3>1. dev2[y] = PageBytes(meta, i)
      BY <1>1, <2>2, <2>3, <2>4
    <3> QED BY <3>1, BytesAreTokens
  <2>5. CASE device[y] # Fresh
    <3>1. dev2[y] = device[y]
      BY <1>1, <2>2, <2>5
    <3>2. device[y] \notin {Fresh, Junk} /\ IsPrefix(PageBytes(meta, i), device[y])
      BY <2>5 DEF PagesReady, IsFresh, Allocated
    <3> QED BY <3>1, <3>2 DEF Holds
  <2> QED BY <2>4, <2>5
<1> QED BY <1>1, <1>2 DEF dev2

\* The entry of a store that begins is right if its source and its plan are.
LEMMA EntryAdded ==
    ASSUME NEW st, NEW pl, NEW entries, NEW sav, NEW str, NEW mem, NEW dev, NEW tgt,
           BytesRight(st, pl, entries, sav, str, mem, dev, tgt),
           NEW x, x.kind # "failed" => EntryRight(pl, x, sav, str, mem, dev, tgt)
    PROVE  BytesRight(st, pl, entries \cup {x}, sav, str, mem, dev, tgt)
BY DEF BytesRight

\* What is retained can be stored: its source is right, and the bytes of the rest
\* stay right.
LEMMA RetainBytes ==
    ASSUME BytesInv, giving_up.target = {}, NEW d \in Arena, NEW meta \in Meta,
           PagesReady(meta), saved[d] = Empty, NEW t \in {next_ticket, NoTicket},
           NEW sav2, sav2 = [saved EXCEPT ![d] = [ticket |-> t, meta |-> meta]]
    PROVE  LET dev2 == DeviceWith(meta, d) IN
           /\ BytesRight(store, plans, ToSet(pending), sav2, stream, memory, dev2, {})
           /\ \A e : t = next_ticket /\ e.ticket = t /\ e.payload = meta =>
                 SourceRight(e, d, sav2, dev2, {})
<1> DEFINE dev2 == DeviceWith(meta, d)
           all == ToSet(pending)
<1>1. /\ dev2[d] = OwnBytes(meta)
      /\ \A i \in DOMAIN meta.pages : Holds(dev2[meta.pages[i]], PageBytes(meta, i))
      /\ \A y \in (PageId \cup Arena) \ {d} : device[y] # Fresh => dev2[y] = device[y]
  BY DeviceWithFacts
<1>2. /\ BytesRight(store, plans, all, saved, stream, memory, device, {})
      /\ Planning(store, plans, all)
  BY CurrentPlanning DEF BytesInv, BytesOK
<1>3. /\ next_ticket \in Nat
      /\ DOMAIN saved = Arena
      /\ \A x \in all : x.ticket \in Nat /\ x.ticket < next_ticket
      /\ \A e \in Arena : saved[e].ticket < next_ticket
  <2>1. CacheInv
    BY DEF BytesInv
  <2>2. all \subseteq EntryRecords
    BY <2>1, EntriesFinite DEF CacheInv
  <2>3. \A x \in all : x.ticket \in Nat
    BY <2>2, StoreShape DEF EntryRecords, Ticket, Key
  <2> QED BY <2>1, <2>3, NextIsNat DEF CacheInv, TicketsMatch, SavedMatch
<1>4. sav2[d] = [ticket |-> t, meta |-> meta] /\ \A e \in Arena \ {d} : sav2[e] = saved[e]
  BY <1>3
<1> HIDE DEF dev2, all
<1>5. \A x \in all : sav2[d].ticket # x.ticket /\ saved[d].ticket # x.ticket
  BY <1>3, <1>4 DEF Empty, NoTicket
<1>6. BytesRight(store, plans, all, sav2, stream, memory, dev2, {})
  <2> DEFINE none == {}
  <2>1. EngineStep(all, saved, device, none, {d}, sav2, dev2, none)
    BY <1>1, <1>4, <1>5 DEF EngineStep
  <2>2. BytesRight(store, plans, all, saved, stream, memory, device, none)
    BY <1>2
  <2> HIDE DEF none
  <2>3. BytesRight(store, plans, all, sav2, stream, memory, dev2, none)
    BY ONLY <1>2, <2>1, <2>2, EngineBytes
  <2> QED BY <2>3 DEF none
<1>7. ASSUME NEW e, t = next_ticket, e.ticket = t, e.payload = meta
      PROVE  SourceRight(e, d, sav2, dev2, {})
  <2>1. ASSUME NEW b \in Arena, sav2[b].ticket = e.ticket PROVE b = d
    BY <1>3, <1>4, <1>7, <2>1
  <2> QED BY <1>1, <1>4, <1>7, <2>1 DEF SourceRight
<1> QED BY <1>6, <1>7 DEF dev2, all

\* A deferred store records its source.
LEMMA StoreDeferredBytes ==
    ASSUME BytesInv, giving_up.target = {}, giving_up' = giving_up,
           NEW d \in Arena, NEW meta \in Meta, PagesReady(meta), StoreDeferred(d, meta)
    PROVE  BytesOK'
<1> DEFINE e == Entry(next_ticket, "deferred", NoKey, meta)
           all == ToSet(pending)
           dev2 == DeviceWith(meta, d)
           sav2 == [saved EXCEPT ![d] = [ticket |-> next_ticket, meta |-> meta]]
<1>1. /\ next_ticket < MaxKeys /\ pending' = Append(pending, e) /\ saved[d] = Empty
      /\ saved' = sav2 /\ device' = dev2
      /\ UNCHANGED <<store, plans, stream, memory>>
  BY DEF StoreDeferred, CanStore
<1>2. /\ BytesRight(store, plans, all, sav2, stream, memory, dev2, {})
      /\ \A x : x.ticket = next_ticket /\ x.payload = meta => SourceRight(x, d, sav2, dev2, {})
  <2> HIDE DEF dev2, sav2
  <2> QED BY <1>1, RetainBytes DEF dev2, sav2
<1>3. e.ticket = next_ticket /\ e.payload = meta /\ e.kind = "deferred"
  BY DEF Entry
<1>4. ToSet(pending') = all \cup {e}
  <2>1. pending \in Seq(EntryRecords)
    BY DEF BytesInv, CacheInv, QueueOK
  <2>2. next_ticket \in Ticket
    BY <1>1, NextIsNat, StoreShape DEF Ticket, Key, BytesInv
  <2>3. e \in EntryRecords
    BY <2>2 DEF Entry, EntryRecords
  <2> HIDE DEF e
  <2> QED BY <1>1, <2>1, <2>3, AppendFacts
<1>5. DOMAIN dev2 = PageId \cup Arena
  BY DeviceWithFacts
<1> HIDE DEF e, all, dev2, sav2
<1>6. EntryRight(plans, e, sav2, stream, memory, dev2, {})
  BY <1>2, <1>3 DEF EntryRight
<1>7. BytesRight(store, plans, all \cup {e}, sav2, stream, memory, dev2, {})
  BY <1>2, <1>6, EntryAdded
<1> QED BY <1>1, <1>4, <1>5, <1>7 DEF BytesOK, BytesInv

\* The next state of the cache is a planning too.
LEMMA NextPlanning ==
    ASSUME CacheInv'
    PROVE  Planning(store', plans', ToSet(pending'))
<1> DEFINE books == [store |-> store', plans |-> plans', payloads |-> payloads']
<1>1. BooksOK(books) /\ books.store = store' /\ books.plans = plans'
  BY DEF CacheInv, Books
<1>2. QueueOK(pending') /\ PlansMatch(plans', ToSet(pending'), held')
  BY DEF CacheInv
<1> HIDE DEF books
<1>3. /\ ToSet(pending') \subseteq EntryRecords
      /\ \A x, y \in ToSet(pending') : x.ticket = y.ticket => x = y
  BY <1>2, EntriesFinite DEF QueueOK
<1> QED BY <1>1, <1>2, <1>3, PlanningOf

\* A store that is issued, fails or finds no room keeps the bytes right.
LEMMA StoreIssuedBytes ==
    ASSUME BytesInv, giving_up.target = {}, giving_up' = giving_up,
           NEW d \in Arena, NEW meta \in Meta, PagesReady(meta), StoreIssued(d, meta)
    PROVE  BytesOK'
<1> DEFINE all == ToSet(pending)
           dev2 == DeviceWith(meta, d)
<1>1. CacheInv /\ CacheInv' /\ Planning(store, plans, all) /\ stream \in Seq(CopyRecords)
      /\ saved[d] = Empty /\ device' = dev2 /\ next_ticket < MaxKeys
  BY StoreIssuedKeeps, CurrentPlanning DEF BytesInv, BytesOK, StoreIssued, CanStore
<1>2. PICK o \in Issues(meta, d, dev2) :
        /\ TakesBooks(BooksAfter(o))
        /\ stream' = o.stream
        /\ memory' = Unowned(o.store, o.memory)
        /\ IF o.result = "exhausted"
           THEN /\ saved' = [saved EXCEPT ![d] = [ticket |-> NoTicket, meta |-> meta]]
                /\ UNCHANGED <<pending, next_ticket>>
           ELSE /\ saved' = [saved EXCEPT ![d] = [ticket |-> next_ticket, meta |-> meta]]
                /\ pending' = Append(pending,
                     IF o.result = "issued"
                     THEN Entry(next_ticket, "issued", o.plan.key, meta)
                     ELSE Entry(next_ticket, "failed", NoKey, meta))
  BY DEF StoreIssued
<1> DEFINE pl2 == IF o.plan = Absent THEN plans ELSE [plans EXCEPT ![o.plan.key] = o.plan]
           t == IF o.result = "exhausted" THEN NoTicket ELSE next_ticket
           sav2 == [saved EXCEPT ![d] = [ticket |-> t, meta |-> meta]]
           none == {}
<1>3. store.next_key < MaxKeys /\ BooksOK(Books) /\ StoreInv(store, plans)
  BY <1>1, NextIsNat, CurrentBooks, StoreShape
<1>4. /\ IssueOK(meta, o)
      /\ store' = o.store /\ plans' = pl2
  <2>1. IssueOK(meta, o)
    BY <1>1, <1>3, IssuesKeep
  <2> QED BY <1>2, <1>3, <2>1, BooksAfterKeeps DEF TakesBooks
<1>5. saved' = sav2 /\ t \in {next_ticket, NoTicket}
  BY <1>2
<1> HIDE DEF dev2, pl2, t
<1>6. /\ BytesRight(store, plans, all, sav2, stream, memory, dev2, none)
      /\ \A e : t = next_ticket /\ e.ticket = t /\ e.payload = meta =>
            SourceRight(e, d, sav2, dev2, none)
  <2> HIDE DEF sav2
  <2> QED BY <1>1, <1>5, RetainBytes DEF dev2, sav2
<1>7. /\ DOMAIN dev2 = PageId \cup Arena
      /\ \A i \in DOMAIN meta.pages : Holds(dev2[meta.pages[i]], PageBytes(meta, i))
  BY DeviceWithFacts DEF dev2
<1> HIDE DEF sav2, none
<1>8. /\ o.stream \in Seq(CopyRecords)
      /\ BytesRight(o.store, pl2, all, sav2, o.stream, o.memory, dev2, none)
      /\ o.result = "issued" => PlanRight(o.plan, d, o.stream, o.memory, dev2)
  <2>1. pl2 = IF o.plan = Absent THEN plans ELSE [plans EXCEPT ![o.plan.key] = o.plan]
    BY DEF pl2
  <2> HIDE DEF all
  <2> QED BY ONLY <1>1, <1>3, <1>6, <1>7, <2>1, IssuesBytes, meta \in Meta, d \in Arena,
                  o \in Issues(meta, d, dev2)
<1>9. BytesRight(o.store, pl2, ToSet(pending'), sav2, o.stream, o.memory, dev2, none)
  <2>1. CASE o.result = "exhausted"
    <3>1. ToSet(pending') = all
      BY <1>2, <2>1
    <3> QED BY <1>8, <3>1
  <2>2. CASE o.result # "exhausted"
    <3> DEFINE e == IF o.result = "issued" THEN Entry(next_ticket, "issued", o.plan.key, meta)
                    ELSE Entry(next_ticket, "failed", NoKey, meta)
    <3>1. /\ e.ticket = next_ticket /\ e.payload = meta
          /\ e.kind = (IF o.result = "issued" THEN "issued" ELSE "failed")
          /\ o.result = "issued" => e.key = o.plan.key
      BY DEF Entry
    <3>2. pending' = Append(pending, e)
      BY <1>2, <2>2
    <3>3. e \in EntryRecords
      <4>1. next_ticket \in Ticket
        BY <1>1, NextIsNat, StoreShape DEF Ticket, Key
      <4>2. CASE o.result = "issued"
        BY <1>4, <4>1, <4>2 DEF IssueOK, Entry, EntryRecords
      <4>3. CASE o.result # "issued"
        BY <4>1, <4>3 DEF Entry, EntryRecords
      <4> QED BY <4>2, <4>3
    <3> HIDE DEF e
    <3>4. ToSet(pending') = all \cup {e}
      <4>1. pending \in Seq(EntryRecords)
        BY <1>1 DEF CacheInv, QueueOK
      <4> QED BY <3>2, <3>3, <4>1, AppendFacts
    <3>5. ASSUME e.kind # "failed"
          PROVE  EntryRight(pl2, e, sav2, o.stream, o.memory, dev2, none)
      <4>1. o.result = "issued" /\ e.key = o.plan.key
        BY <3>1, <3>5
      <4>2. pl2[e.key] = o.plan
        <5>1. o.plan # Absent /\ o.plan.key \in Key /\ DOMAIN plans = Key
          BY <1>1, <1>4, <4>1, CurrentBooks DEF IssueOK
        <5> QED BY <4>1, <5>1 DEF pl2
      <4>3. SourceRight(e, d, sav2, dev2, none)
        <5>1. t = next_ticket
          BY <2>2 DEF t
        <5> QED BY <1>6, <3>1, <5>1
      <4> QED BY <1>8, <4>1, <4>2, <4>3 DEF EntryRight
    <3> QED BY <1>8, <3>4, <3>5, EntryAdded
  <2> QED BY <2>1, <2>2
<1>10. Planning(o.store, pl2, ToSet(pending'))
  BY <1>1, <1>4, NextPlanning
<1>11. BytesRight(o.store, pl2, ToSet(pending'), sav2, o.stream,
                  Unowned(o.store, o.memory), dev2, none)
  BY ONLY <1>9, <1>10, UnownedKeeps
<1>12. BytesRight(store', plans', ToSet(pending'), saved', stream', memory', device',
                  giving_up'.target)
  BY <1>1, <1>2, <1>4, <1>5, <1>11 DEF none
<1> QED BY <1>1, <1>2, <1>7, <1>8, <1>12 DEF BytesOK

\* Fewer entries are right if more are.
LEMMA EntriesFewer ==
    ASSUME NEW st, NEW pl, NEW entries, NEW sav, NEW str, NEW mem, NEW dev, NEW tgt,
           BytesRight(st, pl, entries, sav, str, mem, dev, tgt),
           NEW rest, rest \subseteq entries
    PROVE  BytesRight(st, pl, rest, sav, str, mem, dev, tgt)
BY DEF BytesRight

\* The engine drops a buffer no store in flight copies from.
LEMMA DroppedBytes ==
    ASSUME BytesInv, NEW d \in Arena, Dropped(d),
           NEW st, NEW pl, NEW rest, Planning(st, pl, rest),
           NEW str, NEW mem, NEW none, none = {},
           BytesRight(st, pl, rest, saved, str, mem, device, none),
           \A x \in rest : x.ticket # saved[d].ticket
    PROVE  /\ BytesRight(st, pl, rest, saved', str, mem, device', none)
           /\ DOMAIN device' = PageId \cup Arena
<1>1. /\ DOMAIN device = PageId \cup Arena /\ DOMAIN saved = Arena
      /\ saved' = [saved EXCEPT ![d] = Empty] /\ device' = [device EXCEPT ![d] = Junk]
  BY DEF BytesInv, BytesOK, CacheInv, SavedMatch, Dropped
<1>2. \A x \in rest : x.ticket # NoTicket
  BY StoreShape DEF Planning, EntryRecords, Ticket, Key, NoTicket
<1>3. EngineStep(rest, saved, device, none, {d}, saved', device', none)
  BY <1>1, <1>2 DEF Empty, EngineStep
<1>4. BytesRight(st, pl, rest, saved', str, mem, device', none)
  <2> DEFINE sav2 == saved'
             dev2 == device'
  <2>1. EngineStep(rest, saved, device, none, {d}, sav2, dev2, none)
    BY <1>3
  <2> HIDE DEF sav2, dev2
  <2>2. BytesRight(st, pl, rest, sav2, str, mem, dev2, none)
    BY <2>1, EngineBytes
  <2> QED BY <2>2 DEF sav2, dev2
<1> QED BY <1>1, <1>4

\* What a settled entry leaves.
LEMMA SettledLeaves ==
    ASSUME BytesInv, NEW d \in Arena, NEW i \in PositionOf(saved[d].ticket),
           Settled(i), Dropped(d)
    PROVE  LET x == pending[i] rest == ToSet(pending) \ {x} IN
           /\ x \in ToSet(pending) /\ x \in EntryRecords /\ x.ticket = saved[d].ticket
           /\ ToSet(pending') = rest
           /\ \A y \in rest : y.ticket # saved[d].ticket
           /\ saved[d].meta = x.payload
<1> DEFINE x == pending[i]
           rest == ToSet(pending) \ {x}
<1>1. i \in DOMAIN pending /\ x.ticket = saved[d].ticket
  BY DEF PositionOf
<1>2. CacheInv
  BY DEF BytesInv
<1>3. x \in ToSet(pending) /\ x \in EntryRecords /\ ToSet(pending') = rest
  BY <1>1, <1>2, EntryLeaves
<1>4. \A y, z \in ToSet(pending) : y.ticket = z.ticket => y = z
  BY <1>2 DEF CacheInv, QueueOK
<1>5. saved[d].meta = x.payload
  BY <1>1, <1>2, <1>3 DEF CacheInv, SavedMatch
<1> HIDE DEF x
<1> QED BY <1>1, <1>3, <1>4, <1>5 DEF x

\* Dropping a snapshot that has no store in flight.
LEMMA EvictCleanBytes ==
    ASSUME BytesInv, giving_up.target = {}, giving_up' = giving_up,
           NEW d \in Arena, EvictClean(d)
    PROVE  BytesOK'
<1> DEFINE all == ToSet(pending)
           none == {}
<1>1. /\ Dropped(d) /\ PositionOf(saved[d].ticket) = {}
      /\ UNCHANGED <<store, plans, stream, memory, pending>>
  BY DEF EvictClean, cache_vars
<1>2. Planning(store, plans, all) /\ stream \in Seq(CopyRecords)
      /\ BytesRight(store, plans, all, saved, stream, memory, device, none)
  BY CurrentPlanning DEF BytesInv, BytesOK
<1>3. \A x \in all : x.ticket # saved[d].ticket
  BY <1>1 DEF PositionOf, ToSet
<1> HIDE DEF all, none
<1>4. /\ BytesRight(store, plans, all, saved', stream, memory, device', none)
      /\ DOMAIN device' = PageId \cup Arena
  <2>1. none = {}
    BY DEF none
  <2> QED BY <1>1, <1>2, <1>3, <2>1, DroppedBytes
<1> QED BY <1>1, <1>2, <1>4 DEF BytesOK, all, none

\* Dropping one whose store had failed.
LEMMA EvictFailedBytes ==
    ASSUME BytesInv, giving_up.target = {}, giving_up' = giving_up,
           NEW d \in Arena, EvictFailed(d)
    PROVE  BytesOK'
<1>1. PICK i \in PositionOf(saved[d].ticket) :
        /\ Settled(i) /\ Dropped(d)
        /\ UNCHANGED <<store, plans, stream, memory>>
  BY DEF EvictFailed
<1> DEFINE x == pending[i]
           all == ToSet(pending)
           rest == all \ {x}
           none == {}
<1>2. /\ ToSet(pending') = rest
      /\ \A y \in rest : y.ticket # saved[d].ticket
  BY <1>1, SettledLeaves
<1>3. Planning(store, plans, all) /\ stream \in Seq(CopyRecords)
      /\ BytesRight(store, plans, all, saved, stream, memory, device, none)
  BY CurrentPlanning DEF BytesInv, BytesOK
<1>4. none = {} /\ rest \subseteq all
  OBVIOUS
<1> HIDE DEF rest, none
<1>5. /\ Planning(store, plans, rest)
      /\ BytesRight(store, plans, rest, saved, stream, memory, device, none)
  <2>1. Planning(store, plans, rest)
    BY <1>3, <1>4 DEF Planning, IssuedIn
  <2> HIDE DEF all
  <2> QED BY <1>3, <1>4, <2>1, EntriesFewer
<1>6. /\ BytesRight(store, plans, rest, saved', stream, memory, device', none)
      /\ DOMAIN device' = PageId \cup Arena
  BY <1>1, <1>2, <1>4, <1>5, DroppedBytes
<1> QED BY <1>1, <1>2, <1>3, <1>6 DEF BytesOK, none

\* Dropping one whose store is being copied: the eviction waits for it.
LEMMA EvictIssuedBytes ==
    ASSUME BytesInv, giving_up.target = {}, giving_up' = giving_up,
           NEW d \in Arena, EvictIssued(d)
    PROVE  BytesOK'
<1>1. PICK i \in PositionOf(saved[d].ticket) :
        /\ pending[i].kind = "issued"
        /\ WaitAndSettle(Books, plans[pending[i].key], stream, memory,
                         pending[i].payload)
        /\ Settled(i) /\ Dropped(d)
  BY DEF EvictIssued
<1> DEFINE x == pending[i]
           all == ToSet(pending)
           rest == all \ {x}
           none == {}
<1>2. /\ x \in all /\ ToSet(pending') = rest
      /\ \A y \in rest : y.ticket # saved[d].ticket
  BY <1>1, SettledLeaves
<1>3. Planning(store, plans, all) /\ stream \in Seq(CopyRecords)
      /\ BytesRight(store, plans, all, saved, stream, memory, device, none)
  BY CurrentPlanning DEF BytesInv, BytesOK
<1>4. /\ BooksOK(Books) /\ Books.store = store /\ Books.plans = plans
      /\ none = {} /\ x \in IssuedIn(all)
  BY <1>1, <1>2, CurrentBooks DEF BytesInv, IssuedIn
<1>5. WaitAndSettle(Books, Books.plans[x.key], stream, memory, x.payload)
  BY <1>1, <1>4
<1> HIDE DEF x, all, none
<1>6. /\ stream' \in Seq(CopyRecords)
      /\ Planning(store', plans', rest)
      /\ BytesRight(store', plans', rest, saved, stream', memory', device, none)
  <2>1. /\ Planning(Books.store, Books.plans, all)
        /\ BytesRight(Books.store, Books.plans, all, saved, stream, memory, device, none)
    BY <1>3, <1>4
  <2> QED BY ONLY <1>3, <1>4, <1>5, <2>1, WaitBytes
<1> HIDE DEF rest
<1>7. /\ BytesRight(store', plans', rest, saved', stream', memory', device', none)
      /\ DOMAIN device' = PageId \cup Arena
  BY ONLY <1>1, <1>2, <1>4, <1>6, DroppedBytes, BytesInv, d \in Arena
<1> QED BY <1>2, <1>6, <1>7 DEF BytesOK, none

\* An entry whose plan has just been issued joins those in flight.
LEMMA PlanningJoined ==
    ASSUME NEW st, NEW pl, NEW rest, Planning(st, pl, rest),
           NEW e \in EntryRecords, e.kind = "issued",
           \A y \in rest : y.ticket # e.ticket,
           \A y \in IssuedIn(rest) : y.key # e.key,
           e.key \in HasPlan(pl), pl[e.key].meta = e.payload
    PROVE  Planning(st, pl, rest \cup {e}) /\ (rest \cup {e}) \ {e} = rest
BY DEF Planning, IssuedIn

\* Dropping a snapshot whose store was deferred: it is issued now and waited for.
LEMMA EvictDeferredBytes ==
    ASSUME BytesInv, giving_up.target = {}, giving_up' = giving_up,
           NEW d \in Arena, EvictDeferred(d)
    PROVE  BytesOK'
<1>1. PICK i \in PositionOf(saved[d].ticket) :
        /\ pending[i].kind = "deferred"
        /\ \E o \in Issues(saved[d].meta, d, device) :
            IF o.result = "issued"
            THEN WaitAndSettle(BooksAfter(o), o.plan, o.stream, o.memory,
                               pending[i].payload)
            ELSE /\ TakesBooks(BooksAfter(o))
                 /\ stream' = o.stream
                 /\ memory' = Unowned(o.store, o.memory)
        /\ Settled(i) /\ Dropped(d)
  BY DEF EvictDeferred
<1> DEFINE x == pending[i]
           all == ToSet(pending)
           rest == all \ {x}
           none == {}
           meta == saved[d].meta
<1>2. /\ x \in all /\ x \in EntryRecords /\ x.ticket = saved[d].ticket
      /\ ToSet(pending') = rest
      /\ \A y \in rest : y.ticket # saved[d].ticket
      /\ meta = x.payload
  BY <1>1, SettledLeaves
<1>3. PICK o \in Issues(meta, d, device) :
            IF o.result = "issued"
            THEN WaitAndSettle(BooksAfter(o), o.plan, o.stream, o.memory, x.payload)
            ELSE /\ TakesBooks(BooksAfter(o))
                 /\ stream' = o.stream
                 /\ memory' = Unowned(o.store, o.memory)
  BY <1>1
<1>4. /\ CacheInv /\ x.kind = "deferred" /\ Dropped(d) /\ none = {} /\ rest \subseteq all
  BY <1>1 DEF BytesInv
<1>5. Planning(store, plans, all) /\ stream \in Seq(CopyRecords)
      /\ BytesRight(store, plans, all, saved, stream, memory, device, none)
  BY CurrentPlanning DEF BytesInv, BytesOK
<1>6. store.next_key < MaxKeys
  <2>1. /\ Cardinality(DeferredIn(rest)) \in Nat
        /\ store.next_key + 1 + Cardinality(DeferredIn(rest)) <= next_ticket
    BY <1>2, <1>4, DeferredLeaves
  <2> HIDE DEF rest
  <2> QED BY <1>4, <2>1, NextIsNat, StoreShape
<1> HIDE DEF x, all, none, meta, rest
<1>7. meta \in Meta
  BY <1>2 DEF EntryRecords
<1>8. Planning(store, plans, rest)
      /\ BytesRight(store, plans, rest, saved, stream, memory, device, none)
  <2>1. Planning(store, plans, rest)
    BY <1>4, <1>5 DEF Planning, IssuedIn
  <2> QED BY <1>4, <1>5, <2>1, EntriesFewer
<1>9. SourceRight(x, d, saved, device, none)
  <2>1. PICK b \in Arena : SourceRight(x, b, saved, device, none)
    BY <1>2, <1>4, <1>5 DEF BytesRight, EntryRight
  <2>2. b = d
    BY <1>2, <2>1 DEF SourceRight
  <2> QED BY <2>1, <2>2
<1>10. \A j \in DOMAIN meta.pages : Holds(device[meta.pages[j]], PageBytes(meta, j))
  BY <1>2, <1>9 DEF SourceRight
<1> DEFINE pl2 == IF o.plan = Absent THEN plans ELSE [plans EXCEPT ![o.plan.key] = o.plan]
           books == BooksAfter(o)
<1>11. /\ IssueOK(meta, o)
       /\ BooksOK(books) /\ books.store = o.store /\ books.plans = pl2
  <2>1. StoreInv(store, plans) /\ BooksOK(Books)
    BY <1>4, CurrentBooks
  <2>2. IssueOK(meta, o)
    BY <1>6, <1>7, <2>1, IssuesKeep
  <2> QED BY <2>1, <2>2, BooksAfterKeeps
<1>12. /\ IF o.result = "issued"
          THEN WaitAndSettle(books, o.plan, o.stream, o.memory, x.payload)
          ELSE /\ TakesBooks(books)
               /\ stream' = o.stream
               /\ memory' = Unowned(o.store, o.memory)
       /\ pl2 = IF o.plan = Absent THEN plans ELSE [plans EXCEPT ![o.plan.key] = o.plan]
  BY <1>3
<1> HIDE DEF pl2, books
<1>13. /\ o.stream \in Seq(CopyRecords)
       /\ Planning(o.store, pl2, rest)
       /\ BytesRight(o.store, pl2, rest, saved, o.stream, o.memory, device, none)
       /\ o.result = "issued" => PlanRight(o.plan, d, o.stream, o.memory, device)
  BY ONLY <1>5, <1>6, <1>7, <1>8, <1>10, <1>12, IssuesBytes, d \in Arena,
          o \in Issues(meta, d, device)
<1>14. /\ stream' \in Seq(CopyRecords)
       /\ Planning(store', plans', rest)
       /\ BytesRight(store', plans', rest, saved, stream', memory', device, none)
  <2>1. CASE o.result # "issued"
    <3>1. BytesRight(o.store, pl2, rest, saved, o.stream, Unowned(o.store, o.memory),
                     device, none)
      BY ONLY <1>13, UnownedKeeps
    <3> QED BY <1>11, <1>12, <1>13, <2>1, <3>1 DEF TakesBooks
  <2>2. CASE o.result = "issued"
    <3> DEFINE e == Entry(x.ticket, "issued", o.plan.key, x.payload)
    <3>1. /\ e.ticket = x.ticket /\ e.payload = x.payload /\ e.kind = "issued"
          /\ e.key = o.plan.key
      BY DEF Entry
    <3>2. o.plan # Absent /\ o.plan.key \in Key /\ o.plan.key \notin HasPlan(plans)
          /\ o.plan.meta = meta
      BY <1>11, <2>2 DEF IssueOK, Holding, HasPlan
    <3>3. e \in EntryRecords
      BY <1>2, <3>2 DEF Entry, EntryRecords
    <3> HIDE DEF e
    <3>4. pl2[e.key] = o.plan /\ e.key \in HasPlan(pl2)
      <4>1. DOMAIN plans = Key
        BY <1>4, CurrentBooks
      <4> QED BY <1>12, <3>1, <3>2, <4>1 DEF HasPlan
    <3>5. \A y \in IssuedIn(rest) : y.key # e.key
      BY <1>8, <3>1, <3>2 DEF Planning
    <3>6. \A y \in rest : y.ticket # e.ticket
      BY <1>2, <3>1
    <3>7. Planning(o.store, pl2, rest \cup {e}) /\ (rest \cup {e}) \ {e} = rest
      <4>1. pl2[e.key].meta = e.payload
        BY <1>2, <3>1, <3>2, <3>4
      <4> QED BY <1>13, <3>1, <3>3, <3>4, <3>5, <3>6, <4>1, PlanningJoined
    <3>8. EntryRight(pl2, e, saved, o.stream, o.memory, device, none)
      <4>1. SourceRight(e, d, saved, device, none)
        BY <1>9, <3>1 DEF SourceRight
      <4> QED BY <1>13, <2>2, <3>4, <4>1 DEF EntryRight
    <3>9. BytesRight(o.store, pl2, rest \cup {e}, saved, o.stream, o.memory, device, none)
      BY <1>13, <3>8, EntryAdded
    <3> DEFINE two == rest \cup {e}
    <3>10. /\ Planning(books.store, books.plans, two)
           /\ BytesRight(books.store, books.plans, two, saved, o.stream, o.memory,
                         device, none)
           /\ e \in IssuedIn(two) /\ two \ {e} = rest
           /\ WaitAndSettle(books, books.plans[e.key], o.stream, o.memory, e.payload)
      BY <1>11, <1>12, <2>2, <3>1, <3>4, <3>7, <3>9 DEF IssuedIn
    <3> HIDE DEF two
    <3>11. /\ stream' \in Seq(CopyRecords)
           /\ Planning(store', plans', two \ {e})
           /\ BytesRight(store', plans', two \ {e}, saved, stream', memory', device, none)
      BY ONLY <1>11, <1>13, <3>10, WaitBytes
    <3> QED BY <3>10, <3>11
  <2> QED BY <2>1, <2>2
<1>15. /\ BytesRight(store', plans', rest, saved', stream', memory', device', none)
       /\ DOMAIN device' = PageId \cup Arena
  BY ONLY <1>2, <1>4, <1>14, DroppedBytes, BytesInv, d \in Arena
<1> QED BY <1>2, <1>4, <1>14, <1>15 DEF BytesOK

-----------------------------------------------------------------------------
(* Restores.                                                               *)

\* The upload of page i of a snapshot, and of its part in slab b to buffer d.
PageUpload(s, ids, i) == [from |-> s.pages[i], to |-> ids[i]]

PartUpload(b, d) == [from |-> b, to |-> d]

\* A restore has one copy for each page and for each part.
LEMMA UploadsFacts ==
    ASSUME NEW s, s.pages \in Seq(Slab), s.own \subseteq Slab, NEW d \in Arena,
           NEW ids \in Seq(PageId), DOMAIN ids = DOMAIN s.pages
    PROVE  /\ Uploads(s, d, ids) \in Seq(UploadRecords)
           /\ ToSet(Uploads(s, d, ids)) = {PageUpload(s, ids, i) : i \in DOMAIN ids}
                                          \cup {PartUpload(b, d) : b \in s.own}
<1> DEFINE parts == SetToSeq(s.own)
           first == [i \in DOMAIN ids |-> [from |-> s.pages[i], to |-> ids[i]]]
           last == [n \in DOMAIN parts |-> [from |-> parts[n], to |-> d]]
<1>1. /\ Len(ids) \in Nat /\ DOMAIN ids = 1..Len(ids)
      /\ \A i \in 1..Len(ids) : ids[i] \in PageId
      /\ DOMAIN s.pages = 1..Len(s.pages) /\ \A i \in 1..Len(s.pages) : s.pages[i] \in Slab
  BY SequenceFacts
<1>2. \A i \in 1..Len(ids) : s.pages[i] \in Slab
  BY <1>1
<1>3. /\ parts \in Seq(s.own) /\ Len(parts) \in Nat /\ DOMAIN parts = 1..Len(parts)
      /\ ToSet(parts) = s.own
  <2>1. IsFiniteSet(s.own)
    BY CacheShape, FS_Subset
  <2> QED BY <2>1, SetToSeqFacts, SequenceFacts
<1> HIDE DEF parts
<1>4. first \in Seq(UploadRecords)
      /\ ToSet(first) = {PageUpload(s, ids, i) : i \in DOMAIN ids}
  <2>1. \A i \in 1..Len(ids) : first[i] = PageUpload(s, ids, i)
    BY <1>1 DEF PageUpload
  <2>2. DOMAIN first = 1..Len(ids) /\ first = [i \in 1..Len(ids) |-> first[i]]
    BY <1>1
  <2>3. \A i \in 1..Len(ids) : PageUpload(s, ids, i) \in UploadRecords
    BY <1>1, <1>2 DEF PageUpload, UploadRecords
  <2> HIDE DEF first, PageUpload
  <2>4. first \in Seq(UploadRecords)
    BY <1>1, <2>1, <2>2, <2>3
  <2>5. ToSet(first) = {first[i] : i \in 1..Len(ids)}
    BY <2>2 DEF ToSet
  <2> QED BY <1>1, <2>1, <2>4, <2>5
<1>5. last \in Seq(UploadRecords) /\ ToSet(last) = {PartUpload(b, d) : b \in s.own}
  <2>1. \A n \in 1..Len(parts) : last[n] = PartUpload(parts[n], d) /\ parts[n] \in s.own
    BY <1>3, SequenceFacts DEF PartUpload
  <2>2. DOMAIN last = 1..Len(parts) /\ last = [n \in 1..Len(parts) |-> last[n]]
    BY <1>3
  <2>3. \A b \in s.own : PartUpload(b, d) \in UploadRecords
    BY DEF PartUpload, UploadRecords
  <2>4. \A b \in s.own : \E n \in 1..Len(parts) : parts[n] = b
    BY <1>3, SequenceFacts
  <2> HIDE DEF last, PartUpload
  <2>5. last \in Seq(UploadRecords)
    BY <1>3, <2>1, <2>2, <2>3
  <2>6. ToSet(last) = {last[n] : n \in 1..Len(parts)}
    BY <2>2 DEF ToSet
  <2>7. ASSUME NEW b \in s.own PROVE PartUpload(b, d) \in ToSet(last)
    <3>1. PICK n \in 1..Len(parts) : parts[n] = b
      BY <2>4
    <3> QED BY <2>1, <2>6, <3>1
  <2> QED BY <2>1, <2>5, <2>6, <2>7
<1>6. Uploads(s, d, ids) = first \o last
  BY DEF Uploads, first, last, parts
<1> HIDE DEF first, last
<1>7. first \o last \in Seq(UploadRecords)
      /\ ToSet(first \o last) = ToSet(first) \cup ToSet(last)
  BY <1>4, <1>5, ConcatFacts
<1> QED BY <1>4, <1>5, <1>6, <1>7

\* What a restore is given: pages never used, and a buffer nothing is retained in.
LEMMA RestoreTargets ==
    ASSUME NEW k, NEW d \in Arena, NEW ids \in Seq(PageId), RestoresTo(k, d, ids)
    PROVE  /\ \A i \in DOMAIN ids : device[ids[i]] = Fresh
           /\ device[d] \in {Fresh, Junk}
<1> DEFINE U == {id \in PageId : device[id] = Fresh}
<1>1. /\ Unused \in Seq(U) /\ Len(Unused) \in Nat
      /\ \A i \in 1..Len(Unused) : Unused[i] \in U
  <2>1. IsFiniteSet(U)
    BY CacheShape, FS_Subset
  <2> HIDE DEF U
  <2>2. SetToSeq(U) \in Seq(U)
    BY <2>1, SetToSeqFacts
  <2> QED BY <2>2, SequenceFacts DEF Unused, U
<1>2. Len(ids) \in Nat /\ DOMAIN ids = 1..Len(ids)
  BY SequenceFacts
<1>3. Len(ids) <= Len(Unused) /\ SubSeq(ids, 1, Len(ids)) = SubSeq(Unused, 1, Len(ids))
  BY DEF RestoresTo, IsPrefix
<1> HIDE DEF U
<1>4. ASSUME NEW i \in 1..Len(ids) PROVE ids[i] \in U
  <2>1. SubSeq(ids, 1, Len(ids))[i] = ids[i]
    BY <1>2
  <2>2. SubSeq(Unused, 1, Len(ids))[i] = Unused[i]
    <3>1. Len(ids) \in 0..Len(Unused)
      BY <1>1, <1>2, <1>3
    <3> QED BY <1>1, <3>1, CutFacts
  <2>3. Unused[i] \in U
    BY <1>1, <1>2, <1>3
  <2> QED BY <1>3, <2>1, <2>2, <2>3
<1>5. Takeable(d)
  BY DEF RestoresTo
<1>6. device[d] \in {Fresh, Junk}
  BY <1>5 DEF Takeable
<1> QED BY <1>2, <1>4, <1>6 DEF U

\* Registering restored pages makes the identity map point to them and adds nothing else.
LEMMA RegisteredAllMap ==
    ASSUME NEW st, NEW pl, StoreInv(st, pl), NEW k \in Resident(st),
           NEW ids \in Seq(PageId), DOMAIN ids = DOMAIN st.snapshots[k].pages
    PROVE  LET s == st.snapshots[k]
               t == RegisteredAll(st, s, ids)
           IN  \A id \in PageId :
                  \/ t.map[id] \in {st.map[id], NoSlab}
                  \/ \E i \in DOMAIN ids : id = ids[i] /\ t.map[id] = s.pages[i]
<1> DEFINE s == st.snapshots[k]
<1>1. Len(ids) \in Nat /\ DOMAIN ids = 1..Len(ids) /\ \A i \in 1..Len(ids) : ids[i] \in PageId
  BY ONLY ids \in Seq(PageId), SequenceFacts
<1>2. PICK f : /\ RegisteredAll(st, s, ids) = f[Len(ids)]
               /\ f[0] = st
               /\ \A i \in 1..Len(ids) : f[i] = Registered(f[i - 1], ids[i], s.pages[i])
  BY <1>1, RegisteredAllFacts
<1>3. DOMAIN st = {"free", "refs", "device", "map", "snapshots", "bank", "next_key"}
  BY StoreFields DEF StoreInv
<1> HIDE DEF s
<1> DEFINE Points(u) ==
              \A id \in PageId :
                  \/ u.map[id] \in {st.map[id], NoSlab}
                  \/ \E j \in 1..Len(ids) : id = ids[j] /\ u.map[id] = s.pages[j]
           Good(u) == DOMAIN u = DOMAIN st /\ Points(u)
           T == {n \in Nat : n <= Len(ids) => Good(f[n])}
<1>4. 0 \in T
  BY <1>2
<1>5. ASSUME NEW n \in Nat, n \in T PROVE n + 1 \in T
  <2> SUFFICES ASSUME n + 1 <= Len(ids) PROVE Good(f[n + 1])
    OBVIOUS
  <2> DEFINE u == f[n]
             i == n + 1
             v == f[i]
  <2>1. Good(u) /\ i \in 1..Len(ids) /\ v = Registered(u, ids[i], s.pages[i])
    <3>1. n <= Len(ids) /\ n + 1 \in 1..Len(ids) /\ (n + 1) - 1 = n
      BY <1>1
    <3> QED BY <1>2, <1>5, <3>1
  <2> HIDE DEF u, v
  <2>2. /\ DOMAIN v = DOMAIN st
        /\ \A id \in PageId : \/ v.map[id] \in {u.map[id], NoSlab}
                              \/ id = ids[i] /\ v.map[id] = s.pages[i]
    BY <1>3, <2>1 DEF Registered
  <2> HIDE DEF i
  <2>3. Points(v)
    BY <2>1, <2>2
  <2> QED BY <2>2, <2>3 DEF v, i
<1> HIDE DEF T
<1>6. Len(ids) \in T
  BY <1>1, <1>4, <1>5, SetInduction
<1>7. Points(f[Len(ids)])
  BY <1>1, <1>6 DEF T
<1> QED BY <1>1, <1>2, <1>7 DEF s

\* Restored pages hold what their host pages hold, so they can stand for them.
LEMMA BytesRegister ==
    ASSUME NEW st, NEW pl, NEW entries,
           NEW sav, NEW str, NEW mem, NEW dev, NEW tgt,
           BytesRight(st, pl, entries, sav, str, mem, dev, tgt),
           NEW k \in Resident(st), NEW ids,
           DOMAIN ids = DOMAIN st.snapshots[k].pages,
           NEW t, t.snapshots = st.snapshots,
           \A id \in PageId :
                \/ t.map[id] \in {st.map[id], NoSlab}
                \/ \E i \in DOMAIN ids : id = ids[i] /\ t.map[id] = st.snapshots[k].pages[i],
           \A i \in DOMAIN ids : ids[i] \notin tgt /\ dev[ids[i]] = mem[st.snapshots[k].pages[i]]
    PROVE  BytesRight(t, pl, entries, sav, str, mem, dev, tgt)
<1>1. \A j \in Resident(t) : ResidentRight(t.snapshots[j], str, mem)
  BY DEF BytesRight, Resident
<1>2. ASSUME NEW id \in PageId, t.map[id] # NoSlab
      PROVE  /\ id \notin tgt /\ Still(t.map[id], str) /\ dev[id] # Fresh
             /\ dev[id] # Junk => mem[t.map[id]] = dev[id]
  <2>1. CASE t.map[id] \in {st.map[id], NoSlab}
    BY <1>2, <2>1 DEF BytesRight, MapRight
  <2>2. CASE \E i \in DOMAIN ids : id = ids[i] /\ t.map[id] = st.snapshots[k].pages[i]
    <3>1. PICK i \in DOMAIN ids : id = ids[i] /\ t.map[id] = st.snapshots[k].pages[i]
      BY <2>2
    <3>2. Still(st.snapshots[k].pages[i], str) /\ mem[st.snapshots[k].pages[i]] \notin {Fresh, Junk}
      BY DEF BytesRight, ResidentRight, Holds
    <3> QED BY <3>1, <3>2
  <2> QED BY <2>1, <2>2
<1> QED BY <1>1, <1>2 DEF BytesRight, MapRight

\* A restore is into as many pages as the snapshot has, all different.
LEMMA RestoreShape ==
    ASSUME StoreInv(store, plans), NEW k \in Resident(store), NEW d \in Arena, NEW m \in Meta,
           RestoresTo(k, d, m.pages)
    PROVE  LET s == store.snapshots[k] ids == m.pages IN
           /\ s.pages \in Seq(Slab) /\ s.own \subseteq Slab
           /\ ids \in Seq(PageId) /\ DOMAIN ids = DOMAIN s.pages
           /\ \A i, j \in DOMAIN ids : ids[i] = ids[j] => i = j
<1> DEFINE s == store.snapshots[k]
           ids == m.pages
           meta == [s.meta EXCEPT !.pages = ids]
<1>1. meta \in Meta
  BY DEF RestoresTo
<1>2. s \in SnapshotRecords /\ DOMAIN s.pages = DOMAIN s.meta.pages
  <2>1. store \in StoreRecords /\ PlansExact(store, plans)
    BY DEF StoreInv
  <2>2. s \in SnapshotRecords
    BY <2>1, Shapes
  <2> QED BY <2>1, <2>2 DEF PlansExact
<1>3. s.meta \in Meta /\ s.pages \in Seq(Slab) /\ s.own \subseteq Slab
  BY <1>2 DEF SnapshotRecords
<1> HIDE DEF s
<1>4. /\ ids \in Seq(PageId)
      /\ \A i, j \in DOMAIN ids : ids[i] = ids[j] => i = j
  BY MetaShape
<1>5. DOMAIN ids = DOMAIN s.pages
  <2>1. s.meta \in [kind : Kind, tokens : Seq(Nat), pages : Seq(PageId), parts : Nat]
    BY <1>3, MetaShape
  <2>2. meta.tokens = s.meta.tokens /\ meta.pages = ids
    BY <2>1
  <2> HIDE DEF meta
  <2>3. Len(ids) = Len(s.meta.pages)
    BY <1>1, <1>3, <2>2, CacheShape
  <2> QED BY <1>2, <1>4, <2>1, <2>3
<1> QED BY <1>3, <1>4, <1>5 DEF s

\* A restore writes pages never used and a free buffer, and its pages then stand
\* for those of the host.
LEMMA RestoreBytes ==
    ASSUME BytesInv, giving_up.target = {}, giving_up' = giving_up,
           NEW k \in Resident(store), NEW d \in Arena, NEW m \in Meta,
           Restore(k, d, m.pages)
    PROVE  BytesOK'
<1> DEFINE s == store.snapshots[k]
           ids == m.pages
           all == ToSet(pending)
           none == {}
           ups == Uploads(s, d, ids)
           dev2 == Uploaded(ups)
           sav2 == [saved EXCEPT ![d] =
                      [ticket |-> NoTicket, meta |-> [s.meta EXCEPT !.pages = ids]]]
           t == RegisteredAll(store, s, ids)
<1>1. /\ RestoresTo(k, d, ids) /\ store' = t /\ saved' = sav2 /\ device' = dev2
      /\ UNCHANGED <<plans, pending, stream, memory>>
  BY DEF Restore
<1>2. /\ Planning(store, plans, all) /\ stream \in Seq(CopyRecords) /\ none = {}
      /\ BytesRight(store, plans, all, saved, stream, memory, device, none)
      /\ StoreInv(store, plans) /\ DOMAIN saved = Arena
  BY CurrentPlanning DEF BytesInv, BytesOK, Planning, CacheInv, SavedMatch
<1>3. /\ s.pages \in Seq(Slab) /\ s.own \subseteq Slab
      /\ ids \in Seq(PageId) /\ DOMAIN ids = DOMAIN s.pages
      /\ \A i, j \in DOMAIN ids : ids[i] = ids[j] => i = j
  BY <1>1, <1>2, RestoreShape
<1>4. /\ t.snapshots = store.snapshots
      /\ \A id \in PageId :
            \/ t.map[id] \in {store.map[id], NoSlab}
            \/ \E i \in DOMAIN ids : id = ids[i] /\ t.map[id] = s.pages[i]
  BY <1>2, <1>3, RegisteredAllKeeps, RegisteredAllMap
<1>5. /\ sav2[d].ticket = NoTicket
      /\ \A e \in Arena \ {d} : sav2[e] = saved[e]
  BY <1>2
<1> HIDE DEF ids, t, sav2, none, all
<1>6. /\ \A i \in DOMAIN ids : device[ids[i]] = Fresh
      /\ device[d] \in {Fresh, Junk}
  BY <1>1, <1>3, RestoreTargets
<1>7. /\ ups \in Seq(UploadRecords)
      /\ ToSet(ups) = {PageUpload(s, ids, i) : i \in DOMAIN ids}
                      \cup {PartUpload(b, d) : b \in s.own}
  BY <1>3, UploadsFacts
<1> HIDE DEF s, ups, dev2
<1>8. /\ \A n \in 1..Len(ups) : \/ \E i \in DOMAIN ids : ups[n] = PageUpload(s, ids, i)
                                \/ \E b \in s.own : ups[n] = PartUpload(b, d)
      /\ \A i \in DOMAIN ids : \E n \in 1..Len(ups) : ups[n] = PageUpload(s, ids, i)
  <2>1. ups \in Seq(UploadRecords)
    BY <1>7
  <2>2. ToSet(ups) = {ups[n] : n \in 1..Len(ups)}
    BY ONLY <2>1, SequenceFacts
  <2> QED BY ONLY <1>7, <2>2
<1>8a. /\ \A i : PageUpload(s, ids, i).to = ids[i] /\ PageUpload(s, ids, i).from = s.pages[i]
       /\ \A b : PartUpload(b, d).to = d
  BY DEF PageUpload, PartUpload
<1>9. PageId \cap Arena = {} /\ \A i \in DOMAIN ids : ids[i] \in PageId
  BY <1>3, CacheShape
<1>10. \A i \in DOMAIN ids : dev2[ids[i]] = memory[s.pages[i]]
  <2> SUFFICES ASSUME NEW i \in DOMAIN ids PROVE dev2[ids[i]] = memory[s.pages[i]]
    OBVIOUS
  <2> DEFINE x == ids[i]
             b == s.pages[i]
  <2>1. x \in PageId /\ x # d
    BY <1>9
  <2>2. \E n \in 1..Len(ups) : ups[n].to = x
    BY <1>8, <1>8a
  <2>3. ASSUME NEW n \in 1..Len(ups), ups[n].to = x PROVE ups[n].from = b
    <3>1. ~\E c \in s.own : ups[n] = PartUpload(c, d)
      BY <2>1, <2>3, <1>8a
    <3>2. PICK j \in DOMAIN ids : ups[n] = PageUpload(s, ids, j)
      BY <1>8, <3>1
    <3>3. ids[j] = ids[i] /\ ups[n].from = s.pages[j]
      BY <2>3, <3>2, <1>8a
    <3> QED BY <1>3, <3>3
  <2> HIDE DEF x, b
  <2>4. Uploaded(ups)[x] = memory[b]
    BY <1>7, <2>1, <2>2, <2>3, UploadedFacts
  <2> QED BY <2>4 DEF x, b, dev2
<1>11. ASSUME NEW y \in (PageId \cup Arena) \ {d}, device[y] # Fresh
       PROVE  dev2[y] = device[y]
  <2>1. \A n \in 1..Len(ups) : ups[n].to # y
    BY <1>6, <1>8, <1>11, <1>8a
  <2> QED BY <1>7, <2>1, UploadedFacts DEF dev2
<1>12. DOMAIN dev2 = PageId \cup Arena
  BY DEF Uploaded, dev2
<1>13. BytesRight(store, plans, all, sav2, stream, memory, dev2, none)
  <2>1. \A x \in all : sav2[d].ticket # x.ticket
    BY <1>2, <1>5, StoreShape DEF Planning, EntryRecords, Ticket, Key, NoTicket
  <2>2. EngineStep(all, saved, device, none, {d}, sav2, dev2, none)
    BY <1>5, <1>6, <1>11, <2>1 DEF EngineStep
  <2> QED BY ONLY <1>2, <2>2, EngineBytes
<1>14. BytesRight(t, plans, all, sav2, stream, memory, dev2, none)
  <2>1. /\ DOMAIN ids = DOMAIN store.snapshots[k].pages /\ t.snapshots = store.snapshots
        /\ \A id \in PageId :
              \/ t.map[id] \in {store.map[id], NoSlab}
              \/ \E i \in DOMAIN ids : id = ids[i] /\ t.map[id] = store.snapshots[k].pages[i]
        /\ \A i \in DOMAIN ids :
              ids[i] \notin none /\ dev2[ids[i]] = memory[store.snapshots[k].pages[i]]
    BY <1>2, <1>3, <1>4, <1>10 DEF s
  <2> QED BY ONLY <1>13, <2>1, BytesRegister, k \in Resident(store)
<1> QED BY <1>1, <1>2, <1>12, <1>14 DEF BytesOK, all, none

\* The engine frees a page no retained snapshot has, whether the cache is told or not.
LEMMA FreePageBytes ==
    ASSUME BytesInv, giving_up' = giving_up,
           NEW id \in PageId, NEW told \in BOOLEAN, FreePage(id, told)
    PROVE  BytesOK'
<1> DEFINE all == ToSet(pending)
           tgt == giving_up.target
           dev2 == [device EXCEPT ![id] = Junk]
<1>1. /\ \A d \in Arena : saved[d] # Empty => id \notin ToSet(saved[d].meta.pages)
      /\ device' = dev2
      /\ store' = IF told THEN Freed(store, id) ELSE store
      /\ UNCHANGED <<plans, pending, stream, memory, saved>>
  BY DEF FreePage
<1>2. /\ Planning(store, plans, all) /\ stream \in Seq(CopyRecords)
      /\ BytesRight(store, plans, all, saved, stream, memory, device, tgt)
      /\ StoreInv(store, plans) /\ DOMAIN device = PageId \cup Arena
  BY CurrentPlanning DEF BytesInv, BytesOK, Planning
<1>3. PageId \cap Arena = {}
  BY CacheShape
<1>4. /\ dev2[id] = Junk /\ DOMAIN dev2 = PageId \cup Arena
      /\ \A y \in (PageId \cup Arena) \ {id} : dev2[y] = device[y]
  BY <1>2
<1> HIDE DEF dev2, all, tgt
<1>5. ASSUME NEW x \in all, NEW d \in Arena, x.kind # "failed",
             SourceRight(x, d, saved, device, tgt)
      PROVE  SourceKept(x, d, saved, device, dev2, tgt)
  <2>1. x.payload.pages \in Seq(PageId) /\ x.ticket # NoTicket
    <3>1. x.payload \in Meta /\ x.ticket \in Nat
      BY <1>2, StoreShape DEF Planning, EntryRecords, Ticket, Key
    <3> QED BY <3>1, MetaShape DEF NoTicket
  <2>2. saved[d].ticket = x.ticket /\ saved[d].meta = x.payload
    BY <1>5 DEF SourceRight
  <2>3. id \notin ToSet(x.payload.pages)
    BY <1>1, <2>1, <2>2 DEF Empty
  <2>4. \A i \in DOMAIN x.payload.pages :
           x.payload.pages[i] \in (PageId \cup Arena) \ {id}
    BY <2>1, <2>3 DEF ToSet
  <2>5. d \in (PageId \cup Arena) \ {id}
    BY <1>3
  <2> QED BY <1>4, <1>5, <2>4, <2>5 DEF SourceKept, SourceRight
<1>6. BytesRight(store, plans, all, saved, stream, memory, dev2, tgt)
  <2>1. \A x \in PageId : store.map[x] # NoSlab =>
            x \notin tgt /\ dev2[x] \in {device[x], Junk}
    BY <1>2, <1>4 DEF BytesRight, MapRight
  <2>2. \A x \in all : \A d \in Arena :
            x.kind # "failed" /\ SourceRight(x, d, saved, device, tgt)
            => SourceKept(x, d, saved, device, dev2, tgt)
    BY <1>5
  <2> QED BY ONLY <1>2, <2>1, <2>2, BytesDevice
<1>7. BytesRight(store', plans, all, saved, stream, memory, dev2, tgt)
  <2>1. CASE told
    <3> DEFINE u == Freed(store, id)
    <3>1. Shrinks(store, u)
      BY <1>2, StoreShrinks
    <3>2. store' = u
      BY <1>1, <2>1
    <3> HIDE DEF u
    <3>3. BytesRight(u, plans, all, saved, stream, memory, dev2, tgt)
      BY ONLY <1>6, <3>1, BytesShrink
    <3> QED BY <3>2, <3>3
  <2>2. CASE ~told
    BY <1>1, <1>6, <2>2
  <2> QED BY <2>1, <2>2
<1> QED BY <1>1, <1>2, <1>4, <1>7 DEF BytesOK, all, tgt

\* A lookup changes an age alone.
LEMMA LookupBytes ==
    ASSUME BytesInv, giving_up' = giving_up, NEW k \in Resident(store), LookupOnly(k)
    PROVE  BytesOK'
<1> DEFINE all == ToSet(pending)
<1>1. /\ store' = [store EXCEPT !.bank[store.snapshots[k].meta.kind] = Accessed(@, k)]
      /\ UNCHANGED <<plans, pending, stream, memory, saved, device>>
  BY DEF LookupOnly, Lookup, engine_vars
<1>2. /\ Planning(store, plans, all) /\ BytesOK
      /\ DOMAIN store = {"free", "refs", "device", "map", "snapshots", "bank", "next_key"}
  BY CurrentPlanning, StoreFields DEF BytesInv, Planning, StoreInv
<1>3. store'.snapshots = store.snapshots /\ store'.map = store.map
  BY <1>1, <1>2
<1>4. Shrinks(store, store')
  BY <1>3 DEF Shrinks, Resident
<1> DEFINE u == store'
<1>5. BytesRight(u, plans, all, saved, stream, memory, device, giving_up.target)
  <2>1. Shrinks(store, u)
    BY <1>4
  <2>2. BytesRight(store, plans, all, saved, stream, memory, device, giving_up.target)
    BY <1>2 DEF BytesOK
  <2> HIDE DEF u, all
  <2> QED BY ONLY <2>1, <2>2, BytesShrink
<1> QED BY <1>1, <1>2, <1>5 DEF BytesOK

\* The head of a queue is its first copy and the tail is the rest of it.
LEMMA HeadTailFacts ==
    ASSUME NEW S, NEW q \in Seq(S), q # <<>>
    PROVE  /\ Len(q) \in Nat /\ 1 \in 1..Len(q) /\ Head(q) = q[1] /\ Head(q) \in S
           /\ SubSeq(q, 1, 1) = <<Head(q)>> /\ Tail(q) = SubSeq(q, 2, Len(q))
           /\ Tail(q) \in Seq(S) /\ Len(Tail(q)) = Len(q) - 1
           /\ \A n \in 1..Len(q) - 1 : Tail(q)[n] = q[n + 1]
<1>1. Len(q) \in Nat /\ Len(q) # 0
  OBVIOUS
<1>2. 1 \in 0..Len(q) /\ 1 \in 1..Len(q)
  BY <1>1
<1>3. Head(q) = q[1] /\ Head(q) \in S
  BY <1>1
<1>4. Tail(q) \in Seq(S) /\ Len(Tail(q)) = Len(q) - 1
      /\ \A n \in 1..Len(q) - 1 : Tail(q)[n] = q[n + 1]
  BY <1>1
<1>5. Tail(q) = SubSeq(q, 2, Len(q))
  BY <1>1
<1>6. SubSeq(q, 1, 1) = <<Head(q)>>
  <2> DEFINE a == SubSeq(q, 1, 1)
             b == <<Head(q)>>
  <2>1. a \in Seq(S) /\ Len(a) = 1 /\ a[1] = q[1]
    BY <1>2, CutFacts
  <2>2. b \in Seq(S) /\ Len(b) = 1 /\ b[1] = q[1]
    BY <1>3
  <2> HIDE DEF a, b
  <2>3. DOMAIN a = 1..1 /\ DOMAIN b = 1..1
    BY <2>1, <2>2
  <2>4. a = [i \in 1..1 |-> a[i]] /\ b = [i \in 1..1 |-> b[i]]
    BY <2>1, <2>2
  <2>5. \A i \in 1..1 : a[i] = b[i]
    BY <2>1, <2>2
  <2>6. a = b
    BY ONLY <2>4, <2>5
  <2> QED BY <2>6 DEF a, b
<1> QED BY <1>1, <1>2, <1>3, <1>4, <1>5, <1>6

\* The copy that executes moves bytes to where they were awaited.
LEMMA CopyNextBytes ==
    ASSUME BytesInv, giving_up' = giving_up, CopyNext
    PROVE  BytesOK'
<1> DEFINE all == ToSet(pending)
           tgt == giving_up.target
           mem2 == Executed(device, memory, SubSeq(stream, 1, 1))
           rest == SubSeq(stream, 1 + 1, Len(stream))
           str == stream
<1>1. /\ stream # <<>> /\ stream \in Seq(CopyRecords)
      /\ Planning(store, plans, all)
      /\ BytesRight(store, plans, all, saved, str, memory, device, tgt)
      /\ UNCHANGED <<store, plans, pending, device, saved>>
  BY CurrentPlanning DEF BytesInv, BytesOK, CopyNext, engine_vars
<1>2. /\ 1 \in 0..Len(stream) /\ SubSeq(stream, 1, 1) = <<Head(stream)>>
      /\ Tail(stream) = rest /\ rest \in Seq(CopyRecords)
  BY <1>1, HeadTailFacts
<1>3. \A b \in Slab : Kept(b, str, memory, rest, mem2, device)
  BY <1>1, <1>2, ExecutedKeeps
<1>4. stream' = rest /\ memory' = Unowned(store, mem2)
  BY <1>2 DEF CopyNext
<1> HIDE DEF all, mem2, rest, str, tgt
<1>5. BytesRight(store, plans, all, saved, rest, mem2, device, tgt)
  <2>1. \A b \in Slab \ store.free : Kept(b, str, memory, rest, mem2, device)
    BY <1>3
  <2> QED BY ONLY <1>1, <2>1, BytesMove
<1>6. BytesRight(store, plans, all, saved, rest, Unowned(store, mem2), device, tgt)
  BY ONLY <1>1, <1>5, UnownedKeeps
<1> QED BY <1>1, <1>2, <1>4, <1>6 DEF BytesOK, BytesInv, all, tgt

\* A tick leaves the device, the stream and what is retained alone.
LEMMA TickAnyBytes ==
    ASSUME BytesInv, giving_up' = giving_up, TickAny
    PROVE  BytesOK'
<1>1. PICK errors : Tick(errors)
  BY DEF TickAny
<1>2. UNCHANGED <<stream, device, saved>>
  BY <1>1 DEF Tick, engine_vars
<1> DEFINE tgt == giving_up.target
<1>3. BytesRight(store', plans', ToSet(pending'), saved, stream, memory', device, tgt)
  <2>1. /\ CacheInv /\ stream \in Seq(CopyRecords)
        /\ BytesRight(store, plans, ToSet(pending), saved, stream, memory, device, tgt)
    BY DEF BytesInv, BytesOK
  <2> HIDE DEF tgt
  <2> QED BY <1>1, <2>1, TickBytes
<1> QED BY <1>2, <1>3 DEF BytesInv, BytesOK

\* A restore that is given up goes on writing pages that stand for nothing.
LEMMA RestoreTimesOutBytes ==
    ASSUME BytesInv, giving_up = NoTarget,
           NEW k \in Resident(store), NEW d \in Arena, NEW m \in Meta,
           RestoreTimesOut(k, d, m.pages)
    PROVE  GivingUpOK' /\ BytesOK'
<1> DEFINE s == store.snapshots[k]
           ids == m.pages
           all == ToSet(pending)
           none == {}
           ups == Uploads(s, d, ids)
           tgt2 == ToSet(ids) \cup {d}
<1>1. PICK n \in 0..Len(ups) :
          giving_up' = [uploads |-> SubSeq(ups, 1, n), target |-> tgt2]
  BY DEF RestoreTimesOut
<1>2. /\ RestoresTo(k, d, ids)
      /\ UNCHANGED <<store, plans, pending, stream, memory, saved, device>>
  BY DEF RestoreTimesOut, cache_vars, engine_vars
<1>3. /\ Planning(store, plans, all) /\ BytesOK /\ StoreInv(store, plans)
      /\ BytesRight(store, plans, all, saved, stream, memory, device, none)
  BY CurrentPlanning DEF BytesInv, BytesOK, Planning, NoTarget
<1>4. /\ s.pages \in Seq(Slab) /\ s.own \subseteq Slab
      /\ ids \in Seq(PageId) /\ DOMAIN ids = DOMAIN s.pages
  BY <1>2, <1>3, RestoreShape
<1> HIDE DEF ids, none, all
<1>5. /\ \A i \in DOMAIN ids : device[ids[i]] = Fresh
      /\ device[d] \in {Fresh, Junk}
  BY <1>2, <1>4, RestoreTargets
<1>6. /\ ups \in Seq(UploadRecords)
      /\ ToSet(ups) = {PageUpload(s, ids, i) : i \in DOMAIN ids}
                      \cup {PartUpload(b, d) : b \in s.own}
  BY <1>4, UploadsFacts
<1> HIDE DEF s, ups
<1>7. tgt2 \subseteq PageId \cup Arena /\ \A y \in tgt2 : y = d \/ device[y] = Fresh
  <2>1. ToSet(ids) \subseteq PageId
    BY <1>4, SeqSet
  <2>2. \A y \in ToSet(ids) : \E i \in DOMAIN ids : y = ids[i]
    BY DEF ToSet
  <2> QED BY <1>5, <2>1, <2>2
<1>8. \A c \in ToSet(ups) : c.to \in tgt2
  <2>1. \A i \in DOMAIN ids : PageUpload(s, ids, i).to = ids[i] /\ ids[i] \in ToSet(ids)
    BY DEF PageUpload, ToSet
  <2>2. \A b \in s.own : PartUpload(b, d).to = d
    BY DEF PartUpload
  <2> QED BY <1>6, <2>1, <2>2
<1> HIDE DEF tgt2
<1>9. GivingUpOK'
  <2> DEFINE cut == SubSeq(ups, 1, n)
  <2>1. cut \in Seq(UploadRecords) /\ ToSet(ups) = ToSet(cut) \cup ToSet(SubSeq(ups, n + 1, Len(ups)))
    BY <1>6, CutFacts
  <2>2. giving_up' = [uploads |-> cut, target |-> tgt2]
    BY <1>1
  <2> HIDE DEF cut
  <2>3. \A j \in 1..Len(cut) : cut[j] \in ToSet(cut)
    BY <2>1, SequenceFacts
  <2> QED BY <1>7, <1>8, <2>1, <2>2, <2>3 DEF GivingUpOK
<1>10. BytesRight(store, plans, all, saved, stream, memory, device, tgt2)
  <2>1. EngineStep(all, saved, device, none, {d}, saved, device, tgt2)
    BY <1>5, <1>7 DEF EngineStep
  <2> QED BY ONLY <1>3, <2>1, EngineBytes
<1>11. giving_up'.target = tgt2
  BY <1>1
<1> QED BY <1>2, <1>3, <1>9, <1>10, <1>11 DEF BytesOK, all

\* Changing only what such a restore writes keeps the bytes right.
LEMMA TargetBytes ==
    ASSUME BytesInv, NEW dev2, NEW tgt2,
           \A y \in PageId \cup Arena :
               y \notin giving_up.target => y \notin tgt2 /\ dev2[y] = device[y]
    PROVE  BytesRight(store, plans, ToSet(pending), saved, stream, memory, dev2, tgt2)
<1> DEFINE all == ToSet(pending)
           tgt == giving_up.target
<1>1. /\ Planning(store, plans, all)
      /\ BytesRight(store, plans, all, saved, stream, memory, device, tgt)
      /\ EngineStep(all, saved, device, tgt, {}, saved, dev2, tgt2)
  BY CurrentPlanning DEF BytesInv, BytesOK, EngineStep
<1> HIDE DEF all, tgt
<1>2. BytesRight(store, plans, all, saved, stream, memory, dev2, tgt2)
  BY ONLY <1>1, EngineBytes
<1> QED BY <1>2 DEF all

\* The copies of a restore that was given up run on.
LEMMA UploadNextBytes ==
    ASSUME BytesInv, UploadNext
    PROVE  GivingUpOK' /\ BytesOK'
<1> DEFINE ups == giving_up.uploads
           tgt == giving_up.target
           one == <<Head(ups)>>
           dev2 == Uploaded(one)
<1>1. /\ giving_up = [uploads |-> ups, target |-> tgt]
      /\ ups \in Seq(UploadRecords) /\ tgt \subseteq PageId \cup Arena
      /\ \A n \in 1..Len(ups) : ups[n].to \in tgt
      /\ ups # <<>> /\ device' = dev2
      /\ giving_up' = [giving_up EXCEPT !.uploads = Tail(@)]
      /\ UNCHANGED <<store, plans, pending, stream, memory, saved>>
  BY DEF BytesInv, GivingUpOK, UploadNext, cache_vars
<1> HIDE DEF ups, tgt
<1>2. /\ Len(ups) \in Nat /\ 1 \in 1..Len(ups)
      /\ Head(ups) = ups[1] /\ Head(ups) \in UploadRecords
      /\ Tail(ups) \in Seq(UploadRecords) /\ Len(Tail(ups)) = Len(ups) - 1
      /\ \A n \in 1..Len(ups) - 1 : Tail(ups)[n] = ups[n + 1]
  BY <1>1, HeadTailFacts
<1>3. giving_up' = [uploads |-> Tail(ups), target |-> tgt]
  BY <1>1
<1>4. GivingUpOK'
  <2>1. \A n \in 1..Len(Tail(ups)) : Tail(ups)[n].to \in tgt
    <3> SUFFICES ASSUME NEW n \in 1..Len(Tail(ups)) PROVE Tail(ups)[n].to \in tgt
      OBVIOUS
    <3>1. n + 1 \in 1..Len(ups) /\ n \in 1..Len(ups) - 1
      BY <1>2
    <3> QED BY <1>1, <1>2, <3>1
  <2> DEFINE left == Tail(ups)
  <2>2. /\ left \in Seq(UploadRecords) /\ giving_up' = [uploads |-> left, target |-> tgt]
        /\ \A n \in 1..Len(left) : left[n].to \in tgt
        /\ tgt \subseteq PageId \cup Arena
    BY <1>1, <1>2, <1>3, <2>1
  <2> HIDE DEF left
  <2> QED BY ONLY <2>2 DEF GivingUpOK
<1>5. one \in Seq(UploadRecords) /\ Len(one) = 1 /\ one[1] = ups[1]
  BY <1>2
<1>6. DOMAIN dev2 = PageId \cup Arena
  BY DEF Uploaded
<1> HIDE DEF one
<1>7. ASSUME NEW y \in PageId \cup Arena, y \notin tgt PROVE dev2[y] = device[y]
  <2>1. \A n \in 1..Len(one) : one[n].to # y
    BY <1>1, <1>2, <1>5, <1>7
  <2> QED BY <1>5, <2>1, UploadedFacts
<1> HIDE DEF dev2
<1>8. BytesRight(store, plans, ToSet(pending), saved, stream, memory, dev2, tgt)
  <2>1. \A y \in PageId \cup Arena :
            y \notin giving_up.target => y \notin tgt /\ dev2[y] = device[y]
    BY <1>7 DEF tgt
  <2> QED BY <2>1, TargetBytes
<1> QED BY <1>1, <1>3, <1>4, <1>6, <1>8 DEF BytesInv, BytesOK

\* What such a restore wrote is forgotten when the engine takes it back.
LEMMA ReleaseTargetBytes ==
    ASSUME BytesInv, ReleaseTarget
    PROVE  GivingUpOK' /\ BytesOK'
<1> DEFINE tgt == giving_up.target
           none == {}
           dev2 == [x \in DOMAIN device |-> IF x \in tgt THEN Junk ELSE device[x]]
<1>1. /\ giving_up' = [uploads |-> <<>>, target |-> none] /\ device' = dev2
      /\ UNCHANGED <<store, plans, pending, stream, memory, saved>>
  BY DEF ReleaseTarget, NoTarget, cache_vars
<1>2. DOMAIN device = PageId \cup Arena
  BY DEF BytesInv, BytesOK
<1>3. DOMAIN dev2 = PageId \cup Arena
      /\ \A y \in PageId \cup Arena :
            y \notin giving_up.target => y \notin none /\ dev2[y] = device[y]
  BY <1>2
<1>4. GivingUpOK'
  BY <1>1 DEF GivingUpOK
<1> HIDE DEF dev2, none
<1>5. BytesRight(store, plans, ToSet(pending), saved, stream, memory, dev2, none)
  BY <1>3, TargetBytes
<1> QED BY <1>1, <1>3, <1>4, <1>5 DEF BytesInv, BytesOK

\* At first nothing is stored, copied or retained.
LEMMA InitBytesInv == CacheInit => BytesInv
<1> SUFFICES ASSUME CacheInit PROVE BytesInv
  OBVIOUS
<1>1. /\ Init /\ pending = <<>> /\ stream = <<>> /\ giving_up = NoTarget
      /\ device = [x \in PageId \cup Arena |-> Fresh]
  BY DEF CacheInit
<1>2. Resident(store) = {} /\ \A id \in PageId : store.map[id] = NoSlab
  BY <1>1 DEF Init, Resident, Absent
<1>3. ToSet(pending) = {}
  BY <1>1 DEF ToSet
<1>4. BytesRight(store, plans, ToSet(pending), saved, stream, memory, device,
                 giving_up.target)
  BY <1>2, <1>3 DEF BytesRight, MapRight
<1>5. BytesOK
  BY <1>1, <1>4 DEF BytesOK
<1>6. GivingUpOK
  BY <1>1 DEF GivingUpOK, NoTarget
<1> QED BY <1>5, <1>6, InitCacheInv DEF BytesInv

\* Every call of the owner keeps the bytes right.
LEMMA CallBytes ==
    ASSUME BytesInv, giving_up.target = {}, CallNext, giving_up' = giving_up
    PROVE  BytesOK'
<1>1. ASSUME NEW d \in Arena, NEW m \in Meta, Retainable(m), Store(d, m) PROVE BytesOK'
  <2>1. PagesReady(m)
    BY <1>1 DEF Retainable, PagesReady
  <2> QED BY <1>1, <2>1, StoreDeferredBytes, StoreIssuedBytes DEF Store
<1>2. ASSUME TickAny PROVE BytesOK'
  BY <1>2, TickAnyBytes
<1>3. ASSUME NEW d \in Arena, Evict(d) PROVE BytesOK'
  BY <1>3, EvictCleanBytes, EvictIssuedBytes, EvictDeferredBytes, EvictFailedBytes DEF Evict
<1>4. ASSUME NEW k \in Resident(store), NEW d \in Arena, NEW m \in Meta,
             Restore(k, d, m.pages)
      PROVE  BytesOK'
  BY <1>4, RestoreBytes
<1>5. ASSUME NEW k \in Resident(store), LookupOnly(k) PROVE BytesOK'
  BY <1>5, LookupBytes
<1>6. ASSUME NEW id \in PageId, NEW told \in BOOLEAN, FreePage(id, told) PROVE BytesOK'
  BY <1>6, FreePageBytes
<1> QED BY <1>1, <1>2, <1>3, <1>4, <1>5, <1>6 DEF CallNext

\* Every step keeps them right.
LEMMA NextBytesInv == BytesInv /\ [CacheNext]_all_vars => BytesInv'
<1> SUFFICES ASSUME BytesInv, [CacheNext]_all_vars PROVE BytesInv'
  OBVIOUS
<1>1. CacheInv'
  BY NextCacheInv DEF BytesInv
<1>2. ASSUME giving_up' = giving_up PROVE GivingUpOK'
  BY <1>2 DEF BytesInv, GivingUpOK
<1> SUFFICES GivingUpOK' /\ BytesOK'
  BY <1>1 DEF BytesInv
<1>3. CASE giving_up.target = {} /\ CallNext /\ UNCHANGED giving_up
  BY <1>2, <1>3, CallBytes
<1>4. CASE CopyNext /\ UNCHANGED giving_up
  BY <1>2, <1>4, CopyNextBytes
<1>5. ASSUME NEW k \in Resident(store), NEW d \in Arena, NEW m \in Meta,
             giving_up = NoTarget /\ RestoreTimesOut(k, d, m.pages)
      PROVE  GivingUpOK' /\ BytesOK'
  BY <1>5, RestoreTimesOutBytes
<1>6. CASE UploadNext
  BY <1>6, UploadNextBytes
<1>7. CASE ReleaseTarget
  BY <1>7, ReleaseTargetBytes
<1>8. CASE UNCHANGED all_vars
  <2>1. /\ UNCHANGED <<store, plans, pending, saved, stream, memory, device, giving_up>>
    BY <1>8 DEF all_vars, cache_vars, engine_vars
  <2> QED BY <1>2, <2>1 DEF BytesInv, BytesOK
<1> QED BY <1>3, <1>4, <1>5, <1>6, <1>7, <1>8 DEF CacheNext

\* The bytes are right in every state the cache reaches.
THEOREM BytesInvariant == CacheSpec => []BytesInv
BY InitBytesInv, NextBytesInv, PTL DEF CacheSpec

\* What slabs in use hold or will hold is what a resident snapshot's slabs hold.
LEMMA BytesResident == BytesInv => ResidentBytesRight
<1> SUFFICES ASSUME BytesInv, NEW k \in Resident(store)
             PROVE  LET s == store.snapshots[k] IN
                    /\ \A i \in DOMAIN s.pages : Holds(memory[s.pages[i]], PageBytes(s.meta, i))
                    /\ \A b \in s.own : memory[b] = OwnBytes(s.meta)
  BY DEF ResidentBytesRight
<1>1. ResidentRight(store.snapshots[k], stream, memory)
  BY DEF BytesInv, BytesOK, BytesRight
<1> QED BY <1>1 DEF ResidentRight

\* However stores share pages, time out, fail or are given up with copies still
\* queued, and wherever restores put what they read, a resident snapshot's slabs
\* hold the bytes its tokens stand for (cache.rs, copy.rs).
THEOREM CacheBytes == CacheSpec => []ResidentBytesRight
BY BytesResident, BytesInvariant, PTL

\* The mode is configured once.
LEMMA ModeKept == [CacheNext]_all_vars => mode' = mode
<1> SUFFICES ASSUME [CacheNext]_all_vars PROVE mode' = mode
  OBVIOUS
<1>1. ASSUME NEW d, NEW m, Store(d, m) PROVE mode' = mode
  BY <1>1 DEF Store, StoreDeferred, StoreIssued
<1>2. ASSUME TickAny PROVE mode' = mode
  BY <1>2 DEF TickAny, Tick
<1>3. ASSUME NEW d, Evict(d) PROVE mode' = mode
  <2>1. CASE EvictClean(d)
    BY <2>1 DEF EvictClean, cache_vars
  <2>2. CASE EvictIssued(d)
    BY <2>2 DEF EvictIssued
  <2>3. CASE EvictDeferred(d)
    BY <2>3 DEF EvictDeferred
  <2>4. CASE EvictFailed(d)
    BY <2>4 DEF EvictFailed
  <2> QED BY <1>3, <2>1, <2>2, <2>3, <2>4 DEF Evict
<1>4. ASSUME NEW k, NEW d, NEW ids, Restore(k, d, ids) PROVE mode' = mode
  BY <1>4 DEF Restore
<1>5. ASSUME NEW k, LookupOnly(k) PROVE mode' = mode
  BY <1>5 DEF LookupOnly
<1>6. ASSUME NEW id, NEW told, FreePage(id, told) PROVE mode' = mode
  BY <1>6 DEF FreePage
<1>7. ASSUME CallNext PROVE mode' = mode
  BY <1>1, <1>2, <1>3, <1>4, <1>5, <1>6, <1>7 DEF CallNext
<1>8. ASSUME CopyNext PROVE mode' = mode
  BY <1>8 DEF CopyNext
<1>9. ASSUME NEW k, NEW d, NEW ids, RestoreTimesOut(k, d, ids) PROVE mode' = mode
  BY <1>9 DEF RestoreTimesOut, cache_vars
<1>10. ASSUME UploadNext \/ ReleaseTarget \/ UNCHANGED all_vars PROVE mode' = mode
  BY <1>10 DEF UploadNext, ReleaseTarget, all_vars, cache_vars
<1> QED BY <1>7, <1>8, <1>9, <1>10 DEF CacheNext

\* Every part of the cache stays in its domain: tickets and keys below their bound,
\* copies between the device and slabs, what is retained and being written.
THEOREM CacheTypes == CacheSpec => []CacheTypeOK
<1>1. CacheInit => mode \in StoreModes
  BY DEF CacheInit
<1>2. mode \in StoreModes /\ [CacheNext]_all_vars => (mode \in StoreModes)'
  BY ModeKept
<1>3. CacheSpec => [](mode \in StoreModes)
  BY <1>1, <1>2, PTL DEF CacheSpec
<1>4. BytesInv /\ mode \in StoreModes => CacheTypeOK
  <2> SUFFICES ASSUME BytesInv, mode \in StoreModes PROVE CacheTypeOK
    OBVIOUS
  <2>1. CacheInv /\ StoreInv(store, plans) /\ HasPlan(plans) \subseteq Key
    BY CurrentBooks DEF BytesInv
  <2>2. TypeOK
    BY <2>1, InvTypeOK
  <2>3. pending \in Seq([ticket : Ticket, kind : {"issued", "deferred", "failed"},
                         key : Key \cup {NoKey}, payload : Meta])
    BY <2>1 DEF CacheInv, QueueOK, EntryRecords
  <2>4. next_ticket \in 0..MaxKeys
    BY <2>1 DEF CacheInv, KeysLeft
  <2>5. payloads \in [Key -> Meta \cup {NoPayload}]
    <3>1. \A k \in Resident(store) : store.snapshots[k].meta \in Meta
      BY <2>2 DEF TypeOK
    <3>2. PayloadsMatch(store, payloads)
      BY <2>1 DEF CacheInv, BooksOK, Books
    <3> QED BY <3>1, <3>2 DEF PayloadsMatch
  <2>6. held \subseteq Key
    BY <2>1 DEF CacheInv, PlansMatch
  <2>7. stream \in Seq([key : Key, from : PageId \cup Arena, to : Slab])
    BY DEF BytesInv, BytesOK, CopyRecords
  <2>8. saved \in [Arena -> [ticket : Ticket \cup {NoTicket}, meta : Meta \cup {NoPayload}]]
    BY <2>1 DEF CacheInv, SavedMatch
  <2>9. settled \in [Ticket -> Nat]
    BY <2>1 DEF CacheInv, TicketsMatch
  <2>10. /\ giving_up.uploads \in Seq([from : Slab, to : PageId \cup Arena])
         /\ giving_up.target \subseteq PageId \cup Arena
    BY DEF BytesInv, GivingUpOK, UploadRecords
  <2> QED BY <2>2, <2>3, <2>4, <2>5, <2>6, <2>7, <2>8, <2>9, <2>10 DEF CacheTypeOK
<1> QED BY <1>3, <1>4, BytesInvariant, PTL

=============================================================================
