---------------------------- MODULE HostSnapshots ----------------------------
(***************************************************************************)
(* The store of host snapshots (ds41rt-hostcache/src/snapshot.rs): which   *)
(* slabs a resident snapshot or a planned store holds, which host pages    *)
(* they share, which device page a host page may be shared through, and in *)
(* what order snapshots are evicted.                                       *)
(*                                                                         *)
(* `store` is the struct Snapshots; its methods are operators from a store *)
(* to the next one, so that the cache above (HostCache) can make several   *)
(* calls in a step.  A host page and the slab it lives in are one thing    *)
(* here: a PageRef is live exactly while its slab is taken.  The slabs are *)
(* of one class; SlabPool models how a pool of chunks provides them.       *)
(***************************************************************************)
EXTENDS Integers, SequencesExt

CONSTANTS
    Slab, NoSlab,
    PageId, NoId,  \* device page identities: compressor, index and generation
    Meta,          \* snapshots the engine may store
    MaxKeys        \* stores planned in one run (bound)

Kind == {"prompt", "turn"}

\* A snapshot by what the store looks at: its bank, its key-space tokens, its
\* device pages in order, and how many parts besides pages it has.
ASSUME MetaShape ==
    \A m \in Meta :
        /\ m \in [kind : Kind, tokens : Seq(Nat), pages : Seq(PageId), parts : Nat]
        /\ m.tokens # <<>>
        /\ \A i, j \in DOMAIN m.pages : m.pages[i] = m.pages[j] => i = j

ASSUME StoreShape ==
    /\ NoSlab \notin Slab
    /\ NoId \notin PageId
    /\ MaxKeys \in Nat

Key == 0..MaxKeys - 1

Absent == [resident |-> FALSE]

VARIABLES
    store,   \* the struct Snapshots and its pool
    plans    \* plans[k]: a planned store not committed or aborted yet

-----------------------------------------------------------------------------
(* Host pages. *)

Times(list, b) == Cardinality({i \in DOMAIN list : list[i] = b})

AddPageRefs(st, list) ==
    [st EXCEPT !.refs = [b \in Slab |-> @[b] + Times(list, b)]]

ReleasePagesTwice(st, list) ==
    [st EXCEPT !.refs = [b \in Slab |-> @[b] - 2 * Times(list, b)]]

\* release_page on every page of a list.
ReleasePages(st, list) ==
    LET left == [b \in Slab |-> st.refs[b] - Times(list, b)]
        gone == {b \in Slab : st.refs[b] > 0 /\ left[b] = 0}
    IN  [st EXCEPT
            !.refs = left,
            !.free = @ \cup gone,
            !.map = [id \in PageId |->
                IF @[id] \in gone /\ st.device[@[id]] = id THEN NoSlab ELSE @[id]],
            !.device = [b \in Slab |-> IF b \in gone THEN NoId ELSE @[b]]]

ReleasePagesOnly(st, holder) == ReleasePages(st, holder.pages)

\* release_snapshot, and what abort_store does to a plan.
Release(st, holder) ==
    [ReleasePages(st, holder.pages) EXCEPT !.free = @ \cup holder.own]

-----------------------------------------------------------------------------
(* Banks: resident keys, least recently accessed first. *)

Resident(st) == {k \in Key : st.snapshots[k].resident}

Tokens(st, k) == st.snapshots[k].meta.tokens

Accessed(order, k) == Append(RemoveFirst(order, k), k)

\* What Radix::lookup finds for tokens in a bank, refreshing its clock: the
\* deepest entry whose tokens are a prefix of them.
Ancestors(st, meta) ==
    {k \in ToSet(st.bank[meta.kind]) : IsPrefix(Tokens(st, k), meta.tokens)}

Deepest(st, meta) ==
    CHOOSE k \in Ancestors(st, meta) :
        \A j \in Ancestors(st, meta) : Len(Tokens(st, j)) <= Len(Tokens(st, k))

WithDeepestAccessed(st, meta) ==
    IF Ancestors(st, meta) = {} THEN st
    ELSE [st EXCEPT !.bank[meta.kind] = Accessed(@, Deepest(st, meta))]

Removed(st, k) ==
    Release([st EXCEPT
                !.snapshots[k] = Absent,
                !.bank = [n \in Kind |-> RemoveFirst(@[n], k)]],
            st.snapshots[k])

-----------------------------------------------------------------------------
(* plan_store, commit_store, abort_store. *)

Unmapped(st, meta) == {i \in DOMAIN meta.pages : st.map[meta.pages[i]] = NoSlab}

Fits(st, meta) ==
    Cardinality(st.free) >= meta.parts + Cardinality(Unmapped(st, meta))

\* The store once a plan has taken its slabs and its page references.
Planned(st, plan) ==
    [AddPageRefs(st, plan.pages) EXCEPT
        !.free = @ \ (plan.own \cup {plan.pages[i] : i \in plan.copies}),
        !.next_key = @ + 1]

\* The plans plan_store may return: any free slabs will do for the parts and
\* the pages to copy; a mapped page is shared.
PlansFor(st, meta) ==
    LET copies == Unmapped(st, meta)
        plan(own, f) ==
            [key |-> st.next_key, meta |-> meta, own |-> own, copies |-> copies,
             pages |-> [i \in DOMAIN meta.pages |->
                           IF i \in copies THEN f[i] ELSE st.map[meta.pages[i]]]]
    IN  UNION {{plan(own, f) : f \in Injection(copies, st.free \ own)} :
               own \in kSubset(meta.parts, st.free)}

NoDuplicates(st, plan) == {}

\* Copied pages whose identity another plan mapped first.
Duplicates(st, plan) ==
    {i \in plan.copies : st.map[plan.meta.pages[i]] # NoSlab}

\* map_copied_pages.
MapCopiedPages(st, plan) ==
    LET dups == Duplicates(st, plan)
        ids == plan.meta.pages
        existing == [i \in dups |-> st.map[ids[i]]]
        st1 == AddPageRefs(ReleasePages(st, [i \in dups |-> plan.pages[i]]),
                           existing)
        fresh == plan.copies \ dups
    IN  [st1 EXCEPT
            !.map = [id \in PageId |->
                IF \E i \in fresh : ids[i] = id
                THEN plan.pages[CHOOSE i \in fresh : ids[i] = id] ELSE @[id]],
            !.device = [b \in Slab |->
                IF \E i \in fresh : plan.pages[i] = b
                THEN ids[CHOOSE i \in fresh : plan.pages[i] = b] ELSE @[b]]]

SnapshotOf(st, plan) ==
    [resident |-> TRUE, meta |-> plan.meta, own |-> plan.own, pins |-> 0,
     pages |-> [i \in DOMAIN plan.pages |->
                   IF i \in Duplicates(st, plan)
                   THEN st.map[plan.meta.pages[i]] ELSE plan.pages[i]]]

ReplacedUnlessPinned(st, meta) ==
    {k \in ToSet(st.bank[meta.kind]) :
        Tokens(st, k) = meta.tokens /\ st.snapshots[k].pins = 0}

\* The snapshot a commit replaces: same bank, same tokens.
Replaced(st, meta) ==
    {k \in ToSet(st.bank[meta.kind]) : Tokens(st, k) = meta.tokens}

Committed(st, plan) ==
    LET kind == plan.meta.kind
        mapped == WithDeepestAccessed(MapCopiedPages(st, plan), plan.meta)
        old == Replaced(st, plan.meta)
        cleared == IF old = {} THEN mapped
                   ELSE Removed(mapped, CHOOSE k \in old : TRUE)
    IN  [cleared EXCEPT
            !.snapshots[plan.key] = SnapshotOf(st, plan),
            !.bank[kind] = Append(@, plan.key)]

Aborted(st, plan) == Release(st, plan)

-----------------------------------------------------------------------------
(* Eviction and the device identity map. *)

Unpinned(st, n) ==
    {i \in DOMAIN st.bank[n] : st.snapshots[st.bank[n][i]].pins = 0}

CanEvict(st) == \E n \in Kind : Unpinned(st, n) # {}

\* Prompts before turns, least recently accessed first, never a pinned one.
Victim(st) ==
    LET n == IF Unpinned(st, "prompt") # {} THEN "prompt" ELSE "turn"
    IN  st.bank[n][Min(Unpinned(st, n))]

WithPins(st, k, n) == [st EXCEPT !.snapshots[k].pins = @ + n]

Freed(st, id) ==
    LET b == st.map[id] IN
    IF b = NoSlab THEN st
    ELSE [st EXCEPT !.map[id] = NoSlab, !.device[b] = NoId]

\* register_device_page: b's previous identity and id's previous page let go
\* of each other before the two are tied.
Registered(st, id, b) ==
    LET previous == st.device[b]
        existing == st.map[id]
    IN  [st EXCEPT
            !.map = [i \in PageId |->
                IF i = id THEN b
                ELSE IF i = previous /\ @[i] = b THEN NoSlab ELSE @[i]],
            !.device = [c \in Slab |->
                IF c = b THEN id ELSE IF c = existing THEN NoId ELSE @[c]]]

-----------------------------------------------------------------------------
Init ==
    /\ store = [free |-> Slab,
                refs |-> [b \in Slab |-> 0],
                device |-> [b \in Slab |-> NoId],
                map |-> [id \in PageId |-> NoSlab],
                snapshots |-> [k \in Key |-> Absent],
                bank |-> [n \in Kind |-> <<>>],
                next_key |-> 0]
    /\ plans = [k \in Key |-> Absent]

Outstanding == {k \in Key : plans[k] # Absent}

PlanStore(meta) ==
    /\ store.next_key < MaxKeys
    /\ Fits(store, meta)
    /\ \E plan \in PlansFor(store, meta) :
          /\ store' = Planned(store, plan)
          /\ plans' = [plans EXCEPT ![plan.key] = plan]

CommitStore(k) ==
    /\ k \in Outstanding
    /\ store' = Committed(store, plans[k])
    /\ plans' = [plans EXCEPT ![k] = Absent]

AbortStore(k) ==
    /\ k \in Outstanding
    /\ store' = Aborted(store, plans[k])
    /\ plans' = [plans EXCEPT ![k] = Absent]

\* lookup refreshes the hit; which resident snapshot it is, is the radix's
\* business.
Lookup(k) ==
    LET n == store.snapshots[k].meta.kind IN
    /\ store' = [store EXCEPT !.bank[n] = Accessed(@, k)]
    /\ UNCHANGED plans

Pin(k) ==
    /\ store.snapshots[k].pins = 0
    /\ store' = WithPins(store, k, 1)
    /\ UNCHANGED plans

Unpin(k) ==
    /\ store.snapshots[k].pins > 0
    /\ store' = WithPins(store, k, -1)
    /\ UNCHANGED plans

RemoveSnapshot(k) ==
    /\ store' = Removed(store, k)
    /\ UNCHANGED plans

EvictOne ==
    /\ CanEvict(store)
    /\ store' = Removed(store, Victim(store))
    /\ UNCHANGED plans

DevicePageFreed(id) ==
    /\ store.map[id] # NoSlab
    /\ store' = Freed(store, id)
    /\ UNCHANGED plans

\* After a restore: page i of snapshot k is also on the device as id.
RegisterDevicePage(k, i, id) ==
    /\ i \in DOMAIN store.snapshots[k].pages
    /\ store' = Registered(store, id, store.snapshots[k].pages[i])
    /\ UNCHANGED plans

Next ==
    \/ \E m \in Meta : PlanStore(m)
    \/ \E k \in Key : CommitStore(k) \/ AbortStore(k)
    \/ \E k \in Resident(store) : Lookup(k) \/ Pin(k) \/ Unpin(k) \/ RemoveSnapshot(k)
    \/ \E k \in Resident(store), i \in 1..Cardinality(PageId), id \in PageId :
          RegisterDevicePage(k, i, id)
    \/ EvictOne
    \/ \E id \in PageId : DevicePageFreed(id)

svars == <<store, plans>>

Spec == Init /\ [][Next]_svars

-----------------------------------------------------------------------------
(* Properties. *)

TypeOK ==
    /\ store.free \subseteq Slab
    /\ store.refs \in [Slab -> Nat]
    /\ store.device \in [Slab -> PageId \cup {NoId}]
    /\ store.map \in [PageId -> Slab \cup {NoSlab}]
    /\ store.bank \in [Kind -> Seq(Key)]
    /\ store.next_key \in 0..MaxKeys
    /\ \A k \in Resident(store) :
          /\ store.snapshots[k].meta \in Meta
          /\ store.snapshots[k].pages \in Seq(Slab)
          /\ store.snapshots[k].own \subseteq Slab
          /\ store.snapshots[k].pins \in Nat
    /\ \A k \in Outstanding :
          /\ plans[k].key = k /\ plans[k].meta \in Meta
          /\ plans[k].pages \in Seq(Slab) /\ plans[k].own \subseteq Slab
          /\ plans[k].copies \subseteq DOMAIN plans[k].pages

\* Those with slabs and page references: resident snapshots and plans, each a
\* different key.
Holders == Resident(store) \cup Outstanding

Holder(k) == IF k \in Outstanding THEN plans[k] ELSE store.snapshots[k]

OwnersOf(b) == {k \in Holders : b \in Holder(k).own}

\* The references to a host page: each is some position in some holder's list.
References(b) ==
    UNION {{k} \X {i \in DOMAIN Holder(k).pages : Holder(k).pages[i] = b} : k \in Holders}

\* The count of a host page is the number of references resident snapshots and
\* plans have to it, and a slab is free, one holder's own part, or a page with
\* references: never two of these, never none (snapshot.rs:116 "a page slab is
\* held exactly while its reference count is positive").
SlabsAccounted ==
    /\ Resident(store) \cap Outstanding = {}
    /\ \A b \in Slab :
          /\ store.refs[b] = Cardinality(References(b))
          /\ (IF b \in store.free THEN 1 ELSE 0) + Cardinality(OwnersOf(b))
                + (IF store.refs[b] > 0 THEN 1 ELSE 0) = 1

\* A device page is shared through at most one host page and a host page stands
\* for at most one device page: map and device are inverse to each other, and a
\* released page leaves nothing behind that could share a slab reused since.
IdentityMapExact ==
    /\ \A id \in PageId : store.map[id] # NoSlab =>
          store.refs[store.map[id]] > 0 /\ store.device[store.map[id]] = id
    /\ \A b \in Slab : store.device[b] # NoId => store.map[store.device[b]] = b

\* The radix banks and the snapshot table agree: each resident snapshot is in
\* its kind's bank, once, and no bank has two entries for the same tokens.
BanksListResidents ==
    /\ \A n \in Kind :
          /\ ToSet(store.bank[n]) =
                {k \in Resident(store) : store.snapshots[k].meta.kind = n}
          /\ \A i, j \in DOMAIN store.bank[n] :
                Tokens(store, store.bank[n][i]) = Tokens(store, store.bank[n][j])
                    => i = j

=============================================================================
