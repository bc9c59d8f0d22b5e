------------------------------ MODULE HostCache ------------------------------
(***************************************************************************)
(* The host cache (ds41rt-hostcache/src/cache.rs) over its snapshot store  *)
(* and a copy engine (copy.rs), with the engine that calls it.             *)
(*                                                                         *)
(* A store plans slabs and puts a batch of device-to-host copies on the    *)
(* store stream, a FIFO that reads a source when a copy executes, not when *)
(* it is issued.  A tick commits the stores that landed; evicting a device *)
(* snapshot waits for its store within a budget, or gives it up while its  *)
(* copies may still be queued.                                             *)
(*                                                                         *)
(* The engine is the one copy.rs and cache.rs ask for: a device page keeps *)
(* its bytes while it is allocated, and a retained snapshot is dropped only*)
(* through before_device_evict.  A page holds the tokens up to its end, so *)
(* what a snapshot must contain follows from its tokens.                   *)
(***************************************************************************)
EXTENDS HostSnapshots

CONSTANTS
    Arena,         \* device buffers for the parts of retained snapshots
    Fresh, Junk,   \* a page or buffer never used; bytes nobody answers for
    PAGE_TOKENS,
    StoreModes,    \* the modes the cache may be configured with
    CopiesFail     \* whether issuing or querying copies may fail

ASSUME CacheShape ==
    /\ PAGE_TOKENS \in Nat \ {0}
    /\ StoreModes \subseteq {"OnRetain", "OnEvict"}
    /\ CopiesFail \in BOOLEAN
    /\ IsFiniteSet(Slab) /\ IsFiniteSet(PageId) /\ Arena \cap PageId = {}
    /\ Fresh # Junk /\ Fresh \notin Seq(Nat) /\ Junk \notin Seq(Nat)
    /\ \A m \in Meta :
          Len(m.pages) = (Len(m.tokens) + PAGE_TOKENS - 1) \div PAGE_TOKENS

VARIABLES
    mode,         \* the StoreMode configured
    pending,      \* stores in flight, in issue order
    next_ticket,
    payloads,     \* payloads[k]: what the engine attached to snapshot k
    held,         \* plans given up with copies in flight, their slabs kept
    stream,       \* the store stream's copies not executed yet
    memory,       \* memory[b]: the bytes of host slab b
    device,       \* device[x]: the bytes of a device page or arena buffer
    saved,        \* saved[d]: the retained snapshot whose parts are in d
    giving_up,    \* a restore that timed out: its uploads and what they write
    settled       \* settled[t]: how often ticket t was reported

engine_vars == <<device, saved>>
cache_vars == <<mode, store, plans, pending, next_ticket, payloads, held, stream,
                memory, settled>>
all_vars == <<cache_vars, engine_vars, giving_up>>

Ticket == Key
NoTicket == -1
NoKey == -1
NoPayload == [kind |-> "none"]
Empty == [ticket |-> NoTicket, meta |-> NoPayload]
NoTarget == [uploads |-> <<>>, target |-> {}]

-----------------------------------------------------------------------------
(* Bytes and copies. *)

\* What page i of a snapshot holds, and what its other parts hold.
PageBytes(meta, i) ==
    SubSeq(meta.tokens, 1, Min({i * PAGE_TOKENS, Len(meta.tokens)}))

OwnBytes(meta) == <<0>> \o meta.tokens

\* A finite set of numbers, smallest first.
Ascending(S) ==
    CHOOSE q \in [1..Cardinality(S) -> S] : \A m, n \in DOMAIN q : m < n => q[m] < q[n]

\* The copies of a plan: its unshared pages, then the parts in arena buffer d.
Batch(plan, d) ==
    LET order == Ascending(plan.copies)
        parts == SetToSeq(plan.own)
    IN  [n \in DOMAIN order |->
            [key |-> plan.key, from |-> plan.meta.pages[order[n]],
             to |-> plan.pages[order[n]]]]
        \o [n \in DOMAIN parts |-> [key |-> plan.key, from |-> d, to |-> parts[n]]]

\* The copies that write x.
Writes(copies, x) == {n \in DOMAIN copies : copies[n].to = x}

\* Host memory once some copies executed over device bytes dev, in order: the
\* last one to a slab decides.
Executed(dev, mem, copies) ==
    [b \in Slab |-> IF Writes(copies, b) = {} THEN mem[b]
                    ELSE dev[copies[Max(Writes(copies, b))].from]]

\* The copies of a restore of snapshot s into pages ids and buffer d, and device
\* memory once some of them executed.
Uploads(s, d, ids) ==
    LET parts == SetToSeq(s.own) IN
    [i \in DOMAIN ids |-> [from |-> s.pages[i], to |-> ids[i]]]
        \o [n \in DOMAIN parts |-> [from |-> parts[n], to |-> d]]

Uploaded(copies) ==
    [x \in PageId \cup Arena |-> IF Writes(copies, x) = {} THEN device[x]
                                 ELSE memory[copies[Max(Writes(copies, x))].from]]

\* Bytes of a slab in the pool count as junk: nothing may rely on them.
Unowned(st, mem) == [b \in Slab |-> IF b \in st.free THEN Junk ELSE mem[b]]

HeadLanded(queue, key) == \A i \in DOMAIN queue : i = 1 => queue[i].key # key

\* The event recorded after a plan's copies has completed.
Landed(queue, key) == \A i \in DOMAIN queue : queue[i].key # key

-----------------------------------------------------------------------------
(* plan_and_issue. *)

Evictable(st) == {k \in Resident(st) : st.snapshots[k].pins = 0}

\* The store after n turns of evict_one.
EvictedFirst(st, n) ==
    LET left[i \in 0..n] ==
            IF i = 0 THEN st ELSE Removed(left[i - 1], Victim(left[i - 1]))
    IN  left[n]

\* plan_store_evicting: evicts one snapshot after another until the store can
\* be planned; all of them when it never can.
RoomFor(st, meta) ==
    LET most == Cardinality(Evictable(st))
        enough == {n \in 0..most : Fits(EvictedFirst(st, n), meta)}
    IN  EvictedFirst(st, IF enough = {} THEN most ELSE Min(enough))

AllPayloads(st, all) == all

\* The payloads of the snapshots still resident in st.
PayloadsIn(st, all) ==
    [k \in Key |-> IF k \in Resident(st) THEN all[k] ELSE NoPayload]

Issue(result, st, plan, queue, mem) ==
    [result |-> result, store |-> st, plan |-> plan, stream |-> queue, memory |-> mem]

\* The ways a batch may be issued: all of it; or a copy fails and those before
\* it drain within the budget, so the plan is released; or they do not, or the
\* event cannot be recorded, and the plan is held.
Attempts(st, plan, d, dev) ==
    LET batch == Batch(plan, d)
        sent(n) == stream \o SubSeq(batch, 1, n)
        taken == Planned(st, plan)
        drained == {Issue("drained", Aborted(taken, plan), Absent, <<>>,
                          Executed(dev, memory, sent(n))) : n \in 0..Len(batch) - 1}
        hung == {Issue("held", taken, plan, sent(n), memory) : n \in 0..Len(batch)}
    IN  {Issue("issued", taken, plan, stream \o batch, memory)}
        \cup (IF CopiesFail THEN drained \cup hung ELSE {})

Issues(meta, d, dev) ==
    LET room == RoomFor(store, meta) IN
    IF Fits(room, meta)
    THEN UNION {Attempts(room, plan, d, dev) : plan \in PlansFor(room, meta)}
    ELSE {Issue("exhausted", room, Absent, stream, memory)}

BooksAfter(o) ==
    [store |-> o.store,
     plans |-> IF o.plan = Absent THEN plans
               ELSE [plans EXCEPT ![o.plan.key] = o.plan],
     payloads |-> PayloadsIn(o.store, payloads)]

HeldAfter(o) == IF o.result = "held" THEN held \cup {o.plan.key} ELSE held

-----------------------------------------------------------------------------
(* The end of a store in flight. *)

\* The part of the cache a store's end changes.
Books == [store |-> store, plans |-> plans, payloads |-> payloads]

ForgottenPlan(books, plan) == [books EXCEPT !.plans[plan.key] = plan]

\* release_pending.
ReleasedPlan(books, plan) ==
    [books EXCEPT !.plans[plan.key] = Absent, !.store = Aborted(@, plan)]

\* commit_pending: the payload of a replaced snapshot is dropped.  The commit
\* never has to evict: the pool does not exceed its quota.
CommittedPlan(books, plan, payload) ==
    LET st == Committed(books.store, plan)
        replaces == Replaced(books.store, plan.meta) # {}
        kept == IF replaces THEN PayloadsIn(st, books.payloads) ELSE books.payloads
    IN  [books EXCEPT !.plans[plan.key] = Absent, !.store = st,
                      !.payloads = [kept EXCEPT ![plan.key] = payload]]

TakesBooks(books) ==
    store' = books.store /\ plans' = books.plans /\ payloads' = books.payloads

Entry(ticket, kind, key, meta) ==
    [ticket |-> ticket, kind |-> kind, key |-> key, payload |-> meta]

PositionOf(ticket) == {i \in DOMAIN pending : pending[i].ticket = ticket}

IssuedEntries == {i \in DOMAIN pending : pending[i].kind = "issued"}

CacheInit ==
    /\ Init
    /\ mode \in StoreModes
    /\ pending = <<>> /\ next_ticket = 0
    /\ payloads = [k \in Key |-> NoPayload]
    /\ held = {}
    /\ stream = <<>>
    /\ memory = [b \in Slab |-> Junk]
    /\ device = [x \in PageId \cup Arena |-> Fresh]
    /\ saved = [d \in Arena |-> Empty]
    /\ settled = [t \in Ticket |-> 0]
    /\ giving_up = NoTarget

-----------------------------------------------------------------------------
(* The engine retains a snapshot and stores it. *)

Allocated(id) == device[id] \notin {Fresh, Junk}

\* Identities not used yet, in the order they will be.
Unused == SetToSeq({id \in PageId : device[id] = Fresh})

IsFresh(id) == device[id] = Fresh

\* A page of a new snapshot is newly computed, or one still allocated that
\* holds (at least) its tokens.
Retainable(meta) ==
    /\ IsPrefix(SelectSeq(meta.pages, IsFresh), Unused)
    /\ \A i \in DOMAIN meta.pages :
          LET id == meta.pages[i] IN
          \/ IsFresh(id)
          \/ Allocated(id) /\ IsPrefix(PageBytes(meta, i), device[id])

DeviceWith(meta, d) ==
    [x \in PageId \cup Arena |->
        IF x = d THEN OwnBytes(meta)
        ELSE IF x \in ToSet(meta.pages) /\ device[x] = Fresh
             THEN PageBytes(meta, CHOOSE i \in DOMAIN meta.pages : meta.pages[i] = x)
        ELSE device[x]]

\* The arena's free list is a stack: a released buffer is taken before one
\* never used, and never-used ones in order.
Takeable(d) ==
    LET free(bytes) == {x \in Arena : saved[x] = Empty /\ device[x] = bytes} IN
    IF free(Junk) # {} THEN d \in free(Junk)
    ELSE d \in free(Fresh) /\ d = CHOOSE x \in free(Fresh) : TRUE

CanStore(d) == next_ticket < MaxKeys /\ saved[d] = Empty

\* StoreMode::OnEvict: the snapshot is recorded, nothing is planned or copied.
StoreDeferred(d, meta) ==
    /\ mode = "OnEvict"
    /\ CanStore(d)
    /\ pending' = Append(pending, Entry(next_ticket, "deferred", NoKey, meta))
    /\ next_ticket' = next_ticket + 1
    /\ saved' = [saved EXCEPT ![d] = [ticket |-> next_ticket, meta |-> meta]]
    /\ device' = DeviceWith(meta, d)
    /\ UNCHANGED <<mode, store, plans, payloads, held, stream, memory, settled>>

\* StoreMode::OnRetain: an exhausted store gets no ticket, a failed one does
\* and is reported by the next tick.
StoreIssued(d, meta) ==
    /\ mode = "OnRetain"
    /\ CanStore(d)
    /\ device' = DeviceWith(meta, d)
    /\ \E o \in Issues(meta, d, DeviceWith(meta, d)) :
        /\ TakesBooks(BooksAfter(o))
        /\ stream' = o.stream
        /\ memory' = Unowned(o.store, o.memory)
        /\ held' = HeldAfter(o)
        /\ IF o.result = "exhausted"
           THEN /\ saved' = [saved EXCEPT ![d] = [ticket |-> NoTicket, meta |-> meta]]
                /\ UNCHANGED <<pending, next_ticket>>
           ELSE /\ saved' = [saved EXCEPT ![d] = [ticket |-> next_ticket, meta |-> meta]]
                /\ next_ticket' = next_ticket + 1
                /\ pending' = Append(pending,
                     IF o.result = "issued"
                     THEN Entry(next_ticket, "issued", o.plan.key, meta)
                     ELSE Entry(next_ticket, "failed", NoKey, meta))
    /\ UNCHANGED <<mode, settled>>

-----------------------------------------------------------------------------
(* tick. *)

StopsAtFailed(p, errors) == p.kind # "deferred" /\ p.ticket \notin errors

\* The loop ends at the first store still being copied.
Stops(p, errors) ==
    p.kind = "issued" /\ p.ticket \notin errors /\ ~Landed(stream, p.key)

\* The loop's state after it looked at entry p; errors are the tickets whose
\* event the engine cannot query.
Polled(at, p, errors) ==
    LET keep == [at EXCEPT !.left = Append(@, p)]
        report == [at EXCEPT !.reported = @ \cup {p.ticket}]
    IN  CASE at.stopped \/ Stops(p, errors) -> [keep EXCEPT !.stopped = TRUE]
          [] OTHER ->
               CASE p.kind = "deferred" -> keep
                 [] p.kind = "failed" -> report
                 [] p.kind = "issued" ->
                      [report EXCEPT !.books =
                          IF p.ticket \in errors
                          THEN ReleasedPlan(@, plans[p.key])
                          ELSE CommittedPlan(@, plans[p.key], p.payload)]

Unpolled == [books |-> Books, left |-> <<>>, reported |-> {}, stopped |-> FALSE]

\* The loop's state once it has looked at every entry, in order.
Polling(errors) ==
    LET at[n \in 0..Len(pending)] ==
            IF n = 0 THEN Unpolled ELSE Polled(at[n - 1], pending[n], errors)
    IN  at[Len(pending)]

Tick(errors) ==
    LET end == Polling(errors) IN
    /\ pending # <<>>
    /\ TakesBooks(end.books)
    /\ pending' = end.left
    /\ settled' = [t \in Ticket |->
          IF t \in end.reported THEN settled[t] + 1 ELSE settled[t]]
    /\ memory' = Unowned(store', memory)
    /\ UNCHANGED <<mode, next_ticket, held, stream, engine_vars>>

-----------------------------------------------------------------------------
(* before_device_evict, after which the engine drops the snapshot in d. *)

Dropped(d) ==
    /\ saved' = [saved EXCEPT ![d] = Empty]
    /\ device' = [device EXCEPT ![d] = Junk]

\* The snapshot has no store in flight: nothing was stored, or a tick has
\* reported it.
EvictClean(d) ==
    /\ saved[d] # Empty
    /\ PositionOf(saved[d].ticket) = {}
    /\ Dropped(d)
    /\ UNCHANGED cache_vars

\* Waits for the plan's event while n copies of the queue execute; commits if
\* it completed, otherwise releases the plan.
WaitAndSettle(books, plan, queue, mem, payload) ==
    \E n \in 0..Len(queue), completed \in BOOLEAN :
        /\ stream' = SubSeq(queue, n + 1, Len(queue))
        /\ completed => Landed(stream', plan.key)
        /\ TakesBooks(IF completed THEN CommittedPlan(books, plan, payload)
                      ELSE ReleasedPlan(books, plan))
        /\ memory' = Unowned(store', Executed(device, mem, SubSeq(queue, 1, n)))

SettledTwice(i) ==
    /\ pending' = pending
    /\ settled' = [settled EXCEPT ![pending[i].ticket] = @ + 1]

\* The ticket leaves `pending` with the decision.
Settled(i) ==
    /\ pending' = RemoveAt(pending, i)
    /\ settled' = [settled EXCEPT ![pending[i].ticket] = @ + 1]

EvictIssued(d) ==
    \E i \in PositionOf(saved[d].ticket) :
        /\ pending[i].kind = "issued"
        /\ WaitAndSettle(Books, plans[pending[i].key], stream, memory,
                         pending[i].payload)
        /\ Settled(i)
        /\ Dropped(d)
        /\ UNCHANGED <<mode, next_ticket, held>>

EvictDeferred(d) ==
    \E i \in PositionOf(saved[d].ticket) :
        /\ pending[i].kind = "deferred"
        /\ \E o \in Issues(saved[d].meta, d, device) :
            /\ held' = HeldAfter(o)
            /\ IF o.result = "issued"
               THEN WaitAndSettle(BooksAfter(o), o.plan, o.stream, o.memory,
                                  pending[i].payload)
               ELSE /\ TakesBooks(BooksAfter(o))
                    /\ stream' = o.stream
                    /\ memory' = Unowned(o.store, o.memory)
        /\ Settled(i)
        /\ Dropped(d)
        /\ UNCHANGED <<mode, next_ticket>>

EvictFailed(d) ==
    \E i \in PositionOf(saved[d].ticket) :
        /\ pending[i].kind = "failed"
        /\ Settled(i)
        /\ Dropped(d)
        /\ UNCHANGED <<mode, store, plans, next_ticket, payloads, held, stream, memory>>

-----------------------------------------------------------------------------
(* lookup and restore; the stream; the engine's pages. *)

RestoresTo(k, d, ids) ==
    /\ Takeable(d)
    /\ [store.snapshots[k].meta EXCEPT !.pages = ids] \in Meta
    /\ IsPrefix(ids, Unused)

\* The store once the pages of snapshot s are registered under ids, in order.
RegisteredAll(st, s, ids) ==
    LET done[i \in 0..Len(ids)] ==
            IF i = 0 THEN st ELSE Registered(done[i - 1], ids[i], s.pages[i])
    IN  done[Len(ids)]

\* A restore that completed: snapshot k of the host is now retained in d, on
\* newly allocated pages that later stores share.
Restore(k, d, ids) ==
    LET s == store.snapshots[k] IN
    /\ RestoresTo(k, d, ids)
    /\ store' = RegisteredAll(store, s, ids)
    /\ device' = Uploaded(Uploads(s, d, ids))
    /\ saved' = [saved EXCEPT ![d] =
          [ticket |-> NoTicket, meta |-> [s.meta EXCEPT !.pages = ids]]]
    /\ UNCHANGED <<mode, plans, pending, next_ticket, payloads, held, stream,
                   memory, settled>>

\* A restore that timed out or whose copies failed: the snapshot is unpinned
\* while the copies already issued run on. The engine still owns what they write.
RestoreTimesOut(k, d, ids) ==
    /\ RestoresTo(k, d, ids)
    /\ LET uploads == Uploads(store.snapshots[k], d, ids) IN
       \E n \in 0..Len(uploads) :
          giving_up' = [uploads |-> SubSeq(uploads, 1, n), target |-> ToSet(ids) \cup {d}]
    /\ UNCHANGED <<cache_vars, engine_vars>>

UploadNext ==
    /\ giving_up.uploads # <<>>
    /\ device' = Uploaded(<<Head(giving_up.uploads)>>)
    /\ giving_up' = [giving_up EXCEPT !.uploads = Tail(@)]
    /\ UNCHANGED <<cache_vars, saved>>

\* Mutant: the target is released as soon as the restore returns.
ReleaseTargetAtOnce ==
    /\ giving_up.target # {}
    /\ giving_up' = [giving_up EXCEPT !.target = {}]
    /\ device' = [x \in DOMAIN device |->
          IF x \in giving_up.target THEN Junk ELSE device[x]]
    /\ UNCHANGED <<cache_vars, saved>>

\* The engine synchronizes the restore stream before it releases the target.
ReleaseTarget ==
    /\ giving_up.target # {} /\ giving_up.uploads = <<>>
    /\ giving_up' = NoTarget
    /\ device' = [x \in DOMAIN device |->
          IF x \in giving_up.target THEN Junk ELSE device[x]]
    /\ UNCHANGED <<cache_vars, saved>>

LookupOnly(k) ==
    /\ Lookup(k)
    /\ UNCHANGED <<mode, pending, next_ticket, payloads, held, stream, memory, settled,
                   engine_vars>>

CopyNext ==
    /\ stream # <<>>
    /\ memory' = Unowned(store, Executed(device, memory, <<Head(stream)>>))
    /\ stream' = Tail(stream)
    /\ UNCHANGED <<mode, store, plans, pending, next_ticket, payloads, held, settled,
                   engine_vars>>

\* The engine frees a device page no retained snapshot refers to; it may tell
\* the cache.
FreePage(id, told) ==
    /\ Allocated(id)
    /\ told => store.map[id] # NoSlab
    /\ \A d \in Arena : saved[d] # Empty => id \notin ToSet(saved[d].meta.pages)
    /\ device' = [device EXCEPT ![id] = Junk]
    /\ store' = IF told THEN Freed(store, id) ELSE store
    /\ UNCHANGED <<mode, plans, pending, next_ticket, payloads, held, stream, memory,
                   saved, settled>>

TickAny ==
    \E errors \in SUBSET {pending[i].ticket : i \in IssuedEntries} :
        (errors # {} => CopiesFail) /\ Tick(errors)

Store(d, meta) == StoreDeferred(d, meta) \/ StoreIssued(d, meta)

Evict(d) == EvictClean(d) \/ EvictIssued(d) \/ EvictDeferred(d) \/ EvictFailed(d)

\* What the serve thread calls.
CallNext ==
    \/ \E d \in Arena, m \in Meta : Takeable(d) /\ Retainable(m) /\ Store(d, m)
    \/ TickAny
    \/ \E d \in Arena : Evict(d)
    \/ \E k \in Resident(store), d \in Arena, m \in Meta : Restore(k, d, m.pages)
    \/ \E k \in Resident(store) : LookupOnly(k)
    \/ \E id \in PageId, told \in BOOLEAN : FreePage(id, told)

\* The thread does nothing else until it has released the target of a restore
\* that timed out.
CacheNext ==
    \/ giving_up.target = {} /\ CallNext /\ UNCHANGED giving_up
    \/ CopyNext /\ UNCHANGED giving_up
    \/ \E k \in Resident(store), d \in Arena, m \in Meta :
           giving_up = NoTarget /\ RestoreTimesOut(k, d, m.pages)
    \/ UploadNext
    \/ ReleaseTarget

CacheSpec == CacheInit /\ [][CacheNext]_all_vars

-----------------------------------------------------------------------------
(* Properties. *)

CacheTypeOK ==
    /\ TypeOK
    /\ mode \in StoreModes
    /\ pending \in Seq([ticket : Ticket, kind : {"issued", "deferred", "failed"},
                        key : Key \cup {NoKey}, payload : Meta])
    /\ next_ticket \in 0..MaxKeys
    /\ payloads \in [Key -> Meta \cup {NoPayload}]
    /\ held \subseteq Key
    /\ stream \in Seq([key : Key, from : PageId \cup Arena, to : Slab])
    /\ saved \in [Arena -> [ticket : Ticket \cup {NoTicket},
                            meta : Meta \cup {NoPayload}]]
    /\ settled \in [Ticket -> Nat]
    /\ giving_up.uploads \in Seq([from : Slab, to : PageId \cup Arena])
    /\ giving_up.target \subseteq PageId \cup Arena

Holds(bytes, expected) == bytes \notin {Fresh, Junk} /\ IsPrefix(expected, bytes)

\* A resident snapshot's slabs hold the bytes its tokens stand for, whatever
\* store wrote the pages it shares, and whatever copies of stores that timed
\* out, failed or were given up are still queued for slabs used before it.
ResidentBytesRight ==
    \A k \in Resident(store) :
        LET s == store.snapshots[k] IN
        /\ \A i \in DOMAIN s.pages : Holds(memory[s.pages[i]], PageBytes(s.meta, i))
        /\ \A b \in s.own : memory[b] = OwnBytes(s.meta)

\* A payload is resident exactly while its snapshot is, and is the one stored
\* with it (cache.rs "the payload is resident exactly while its snapshot is").
PayloadsFollowSnapshots ==
    \A k \in Key :
        payloads[k] = IF k \in Resident(store) THEN store.snapshots[k].meta
                      ELSE NoPayload

\* A ticket given out is in flight or has been reported, once (cache.rs "every
\* ticket is reported exactly once").
TicketsReportedOnce ==
    \A t \in Ticket :
        settled[t] + Cardinality(PositionOf(t)) = IF t < next_ticket THEN 1 ELSE 0

\* Slabs leave the pool for a plan that is in flight or was deliberately held;
\* no way a store can end forgets its plan.
PlansAreInFlightOrHeld ==
    Outstanding = {pending[i].key : i \in IssuedEntries} \cup held

\* Once the stream has drained, one tick reports every store that was issued or
\* has failed, whatever deferred, failed or unreadable ones are in front of it:
\* it stops only at a store still being copied (cache.rs, tick).
DrainedTickReportsAll ==
    [][stream = <<>> /\ TickAny =>
          \A i \in DOMAIN pending' : pending'[i].kind = "deferred"]_<<pending, settled>>

=============================================================================
