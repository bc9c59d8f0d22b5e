# A TLA+ model of DS41RT's serving loop and request memory

DS41RT serves one large mixture-of-experts model from a few GPUs. What a request
has computed (compressed source rows, window tails, draft state, scores) is kept
in paged device pools, shared between requests, retained as *snapshots* when a
prompt or a turn is complete, copied to pinned host memory when the device tier
evicts it, and copied back when a client continues the conversation. Every one of
these steps is asynchronous on a CUDA stream, may fail in the middle, and shares
pages by reference count. A wrong step does not crash: it gives a request somebody
else's rows. Above it one serving loop admits requests, runs them on two lanes that
proceed on their own, and answers clients that may leave at any time. This project
models both.

It holds TLA+ modules translated from the Rust source, TLC runs over small
instances, and TLAPS proofs. `tlc -config X.cfg M` checks a run and
`tlapm M.tla` the proofs of the modules named `*Proofs` and of `LibraryLemmas`;
`PROJECT.json` lists runs, mutants, hazards, theorems and the source lines of every
definition.

Paths below are relative to `src/rust/crates/`.

## 1. Inventory of the system

Status: **M** modelled, **P** partly, **-** not modelled.

| Component | Where | State it keeps | Operations | Status |
|---|---|---|---|---|
| Host slab pool | `ds41rt-hostcache/src/pool.rs` | pinned chunks, a class per chunk, free stacks, doubly linked class lists, counters | `take`, `give_back` | M `SlabPool` |
| Host snapshot store | `ds41rt-hostcache/src/snapshot.rs` | resident snapshots, host page counts, device identity map, two radix banks, pins | `plan_store`, `commit_store`, `abort_store`, `lookup`, `pin`, `evict_one`, `device_page_freed`, `register_device_page` | M `HostSnapshots` |
| Host cache | `ds41rt-hostcache/src/cache.rs`, `copy.rs` | stores in flight, tickets, payloads, held plans, copy streams | `store`, `tick`, `before_device_evict`, `lookup`, `restore` | P `HostCache` |
| Prefix tier | `ds41rt-daemon/src/v41_native_serve/prefix.rs`, `prefix/host_cache.rs`, `v41_memory/snapshot.rs` | device banks, snapshot arena, pending copies per lane | `retain`, `queue_retain`, `poll_retain`, `abort_retain`, `restore`, `make_room` | P `PrefixTier` |
| Compressed source cache | `ds41rt-daemon/src/v41_compressor/source_cache*.rs`, `commit.rs`, `prefix.rs` | page pool with counts and generations, a page table per slot, append transactions | `reserve`, `copy_shared_tails`, `apply`, `abort_commit`, `retain_prefix`, `restore_prefix`, `allocate_prefix` | P `SourceCache` |
| Radix banks | `ds41rt-core/src/prefix.rs` | a radix tree per bank with an access clock | `insert`, `lookup`, `lookup_reusable`, `evict_one_where`, `remove_exact` | M `Radix` |
| Scheduler | `v41_native_serve/scheduler.rs`, `scheduler/`, `ds41rt-api/src/native_v41/admission.rs` | the queue, pending and active requests, lanes, finished set, wake condition, client channels | serve loop, admission, lane rounds, retirement, delivery, failure | M `Scheduler` |
| Request bank | `v41_requests.rs`, `v41_backbone_cache*.rs` | leases, 40 windows and 4 sources per request, publication frontier, phase | `begin_request`, `plan_stage`, `reserve_encoder`, `publish_*`, `enqueue_*`, `commit`, `release`, restores, `queue_prefix` | P `RequestBank` |
| Window and draft caches | `v41_window*.rs`, `v41_dspark_cache.rs` | ring windows, draft rows | stage, publish, retain, restore | P (windows, in `RequestBank`) |
| Speculative decoding | `v41_native_serve/speculative.rs` | draft tokens, acceptance, replay | round, verify, commit | - |
| Scores, constraints, images | `v41_native_serve/{scores,constraints}*`, `prefix/images.rs` | per-request decode state | pure per-request bookkeeping | - |
| KV allocator, backing store | `ds41rt-core/src/kv_cache`, `backing_store.rs` | page ownership of the older engine | allocate, release | - |
| Layer waves, expert schedules | `ds41rt-core/src/layerwave`, `replicated_expert_schedule.rs` | plans | pure planning | - |
| Expert transport | `ds41rt-transport`, `v41_experts/` | RDMA rings, credits | post, poll, reconnect | - |
| HTTP API | `ds41rt-api` | sessions, SSE streams | parse, stream, cancel | - |
| Loader, kernels, bindings, legacy commands, Python, scripts | the rest | | | - |

How they interact. The serve loop (`scheduler.rs`) is one thread. It admits a
request by asking the prefix tier to restore a snapshot, prefills what is missing
through the request bank, which appends to the source caches, retains the prompt,
decodes on one or two lanes, and retains the turn when the request finishes. The
prefix tier owns the device banks and calls the host cache when it retains a
snapshot and before it drops one. The host cache plans in the snapshot store,
which takes slabs from the pool, and issues copies on a stream; the serve loop
calls `tick` once per step to learn what has landed. Device pages are shared by
reference count between request tables, retained prefixes and, through the page's
identity `(compressor, index, generation)`, host snapshots.

What is hard, and the property that says it is right:

- *Forks of a partly filled page.* Several requests and prefixes own a page and
  then append. Someone must copy, in stream order, before anyone writes. Correct:
  prefixes and idle requests keep their rows (`PrefixesKeepTheirRows`,
  `IdleSlotsReadTheirRows`), and what a transaction stores is its own
  (`WritesArePrivate`).
- *Claiming by arithmetic and giving back on failure.* Correct: page counts equal
  owners and every page is somewhere exactly once (`PagesAccounted`).
- *Overlapping stores.* Two plans copy one device page; a plan's shared page is
  evicted, renamed or re-registered before it commits. Correct: counts, slabs and
  the identity map are exact (`SlabsAccounted`, `IdentityMapExact`).
- *Copies that outlive their plan.* A timeout gives up a store whose copies are
  still queued; the slabs go to the next store. A timeout gives up a restore whose
  uploads still run; the buffer goes to the next snapshot. Correct: a resident
  snapshot's bytes are the ones its tokens stand for (`ResidentBytesRight`).
- *Four ways for a ticket to end.* Correct: reported exactly once
  (`TicketsReportedOnce`), no plan forgotten (`PlansAreInFlightOrHeld`), and the
  first tick over a drained stream reports every store (`DrainedTickReportsAll`).
- *Two lanes and one arena.* A snapshot's room is made when its copy is queued and
  used when it is polled. Correct: no buffer is lost or doubly owned
  (`BuffersAccounted`), and one is always there (`ArenaCoversRetention`).
- *The end-to-end promise.* A request attached to a snapshot from either tier reads
  its own rows (`TierReadsRight`).
- *Forty-four caches and one history move together.* Rows are queued, published and
  committed cache by cache, chunks overlap, calls fail in the middle, slots are leased
  again. Correct: every cache is where the request says (`FrontiersAgree`), the token
  history too (`HistoriesAgree`), chunks follow each other and complete in order
  (`ChunksFollowEachOther`, `AdvancesByWholeChunks`), and no write reaches a slot it
  was not queued for (`QueuedWritesAreOwned`).
- *A tree that is split and merged under its keys.* An insertion cuts an edge, a removal
  joins two; both move every node below. Correct: the banks are two lists ordered by
  access, and the entry that saves most is found (`ImplementsBanks`, `TreesCompact`).
- *Two decisions about the same thing.* Lanes stop when a request could be admitted;
  the loop admits when the lanes have stopped. If the two conditions differ the lanes
  drain for nothing, or never. Correct: a drain admits (`DrainsAdmit`), the line moves
  (`KeepsTheLine`).
- *Rows promised at admission, pages taken rounds later.* Correct: what active requests
  may still append is always covered by pages that are free or can be freed
  (`BudgetsCovered`).
- *Requests leave one at a time while both lanes run.* Correct: no lane gets more than
  its batch (`LanesWithinBatch`), nobody leaves without an answer (`AnsweredWhenGone`).

## 2. Modules

    RangeStore            abstract: byte ranges handed out never overlap
      ^ implemented by
    SlabPool              pool.rs
    SourceCache           source_cache.rs, ownership, reservation, commit, prefix
    HostSnapshots         snapshot.rs
      ^ EXTENDS
    HostCache             cache.rs over an engine that keeps copy.rs's contract
      ^ EXTENDS
    PrefixTier            prefix.rs: the real engine (requests, banks, lanes)

    RequestBank           v41_backbone_cache.rs, ced, publication, v41_requests.rs

    PrefixBanks           abstract: two bounded lists of keys in access order
      ^ implemented by
    Radix                 core prefix.rs

    ServiceLine           abstract: first come first served, everybody is done
      ^ implemented by
    Scheduler             scheduler.rs, independent.rs, admission.rs

    SlabPoolProofs, HostSnapshotsProofs, HostCacheProofs, PrefixTierProofs,
    SourceCacheProofs, RequestBankProofs, SchedulerProofs
                          the theorems about the module they are named after
    LibraryLemmas         counting, least numbers, sequences: what the others cite

`HostSnapshots` keeps the Rust `struct Snapshots` in one variable, `store`, and its
methods are operators from a store to the next. That is how one step of `HostCache`
can call several of them, as `cache.rs` does: an `Evict` that runs out of slabs
plans, evicts, plans again, issues and commits in one call. `HostCache` in turn
exports operators (`Store`, `Evict`, `Restore`, `TickAny`, `CopyNext`) that
`PrefixTier` calls from its own actions, so the composition is by conjunction of
the same definitions, never a second copy of them. `HostCache` runs them under the
*most general* engine that `copy.rs` and `cache.rs` document; `PrefixTier` under
the engine that is there.

### SlabPool

One action per outcome of `take` (`TakeListed`, `TakeCarved`; refusal changes
nothing and is the predicate `Exhausted`) and `GiveBack`, with `Link`, `Unlink` and
`release_chunk` as in the code: the intrusive `next`/`prev` pointers, the LIFO of
free slabs and the counters are all there. The one added variable is `held`, the
slabs the callers have: the code's contract is stated about them. Handing back a
slab twice is an assertion failure in the code (`slab_free`) and not an action.

### SourceCache

One compressor layer. Its transaction is split where the program can be
interleaved: `Reserve` on the host, `CopySharedTails` and `WriteRows` when the
lane's stream gets there, `Apply` after it drained, or `Abort` at any point.
`Reserve` and `Apply` each run without interruption under the daemon's one thread,
so they are one step. Pages are claimed from the end of the free list with the same
arithmetic (`UsedBefore`, `Claim`), and go back in the order `release` pushes them.
`cells` is device memory and `hist` what each slot has been promised to contain; both
exist only so that "reads its own rows" can be said. Indices are one-based where the
code's are zero-based. `RestorePrefix` includes the truncated prefix that
`restore_compressed_prefix` makes and drops within the call.

### HostSnapshots

A host page and the slab it lives in are one thing here: a `PageRef` is live exactly
while its slab is taken. Slabs are of one class, since `SlabPool` models how classes
come out of chunks, and `meta.parts` counts the parts besides pages (tail, draft,
scores). `PlansFor` lets a plan take *any* free slabs, which includes the ones the
pool would give. A bank is the sequence of its keys by access time, which is what
`evict_oldest` and `lookup` mean; that the tree behaves so is what `Radix` shows.

### HostCache

`stream` is the FIFO of copies not executed yet; `CopyNext` executes one, reading
`device` *then*. A store that is given up leaves its copies in `stream`, and its slabs
may be planned again: that race is the point of the module. `Attempts` lists how a
batch may be issued when `CopiesFail`: all of it, a prefix that drains in time, or a
prefix that does not (the plan is held). `WaitAndSettle` lets any number of copies
run during the wait and lets the wait fail even when they all did, because a query may
fail. `Unowned` sets a slab in the pool to `Junk`: its bytes have no owner, so what
they are is not state (this cannot hide a bug: a slab that is used is written by its
plan's copy or stays `Junk`, which is never right; a late copy into a slab *taken
again* does land). Device pages hold "the tokens up to their end", so the right
bytes of any page follow from a snapshot's tokens.

A restore that completes (`Restore`) is one step: the calling thread waits for its event
and nothing but the store stream runs meanwhile, which writes only slabs that are not
resident. One that times out, or whose copies fail (`RestoreTimesOut`), returns with any
part of its uploads still to run; the engine synchronizes the restore stream and only
then lets go of the pages and the buffer they write (`ReleaseTarget`). Until then the
thread calls nothing else. That the synchronization itself fails means a lost device and
is left out. `PrefixTier` takes the same steps.

### PrefixTier

A request moves through `phase`: restore, (host, attach,) prefill, room, insert,
decode, room, insert or queued. `calling` is the slot the scheduler works for in the
middle of a call: only the stream may run then, and the tick that prefill makes.
`AttachDevice`/`HitHost`/`Miss` are the reuse rule (`Skipped`, `Reused`, `Best`) over
either tier; `MakeBankRoom`, `RetainNow`, `QueueRetain`, `PollRetain`, `Insert`,
`AbortRetain`, `EvictOver` the calls of `prefix.rs`. `MakeRoom` may happen whenever
the code may call it, whatever the pool's level: pressure is nondeterministic.
`Appended` is the source cache seen from here: a partly filled page is appended to in
place by an owner that is alone with it and copied otherwise (`SourceCache` models
how). The skip policy, `prefill_hold` and metrics are left out: they only make fewer
of these steps happen.

### RequestBank

`requests` is what `BackboneCache` knows of a slot's request (end, version, phase,
publications), `histories` what `Requests` knows of it (position hashed, position
prepared ahead), `caches` what each window and source knows of its own slot (lease, end,
version, the `writing` bit). The bank's work is to keep three separately kept records
equal, so no one of them is derived from another. `batches` and `waves` are what a lane
holds between calls: the planned `CacheBatch` and, per cache, the produced or queued rows
with the version they were bound to. `copies` are the two snapshot lanes.

One action per call: `Prepare` and `ReserveEncoder` plan (`plan_stage`), `Produce` runs a
layer, `EnqueueEncoder`, `PublishEncoder` and `PublishFails` are `publication.rs`,
`EnqueueCommit` and `Commit` the transaction, `GiveUp` the guard of a lane that fails or
is cancelled, `Release` the scheduler's. `NextToProduce`, `Publishable` and `Accepts`
collect what the code's `validate_*` chains admit. A lease is the slot's generation, so a
batch of a released request stays behind in its lane and must be refused.

What the callers promise is in the guards: one lane works on a request, or several on
reserved chunks of it (`Unshared`, `OnlyChunks`); a prefix is restored before anything is
planned (`Fresh`); a lane commits at least one row of its batch. A failed publication and
the guard that follows it are one step, because nothing is awaited between them, and so
are a commit or an enqueue that fails half-way and the release that follows: they come to
`GiveUp`. A bank that fails to start or clean up a cache is poisoned and refuses every
call; nothing of it is left to model. A ring's contents and its 128-row wrap are not
state here.

### Radix

`tree[k]` maps a node to its edge and its last access. A node is named by the path of
first tokens that leads to it, as in the code's nested maps, so `Split` and `Collapsed`
rename everything below the edge they cut or join; that renaming is what could lose a
key. Each operation is one action, with the code's order of walking for ties (`Before`,
`Better`, `Chosen`). `call` and `answer` record the last call and what it returned:
`PrefixBanks` states the same calls over two plain lists, so the refinement says that
*every answer* is right, not only that the state is. `EvictOne(kept)` is
`evict_one_where`; the code's `evict_oldest` of one bank is the case that keeps all of the
other. A bank of limit zero and an empty key are refused before the tree is touched.

### Scheduler

One module for the serve thread (`at`: boundary, admission, prefill, a round, failing),
the two lanes (`lane_at`) and the clients. `Boundary` retires what is over and evens out
the lanes; `Admit`, `DropCandidate` and `DoesNotFit` are the ways an admission ends, with
the blocked request in `pending` and the number of active ones in `blocked_at`;
`Dispatch` starts a round on both lanes, on one (`solo`), or fails a request the pool
cannot hold. A lane goes from `top` through its retirements, its room check, its
verification and its delivery and back, until it finds a reason to stop: `Wake`, an
empty lane, an error, or the other lane's. `Join` waits for both.

Prefill and a lane's steps take long and are split where the code awaits; what the
serve thread does without awaiting is one step. Tokens are counted, one message carries
what a member gets of a round, and a page is free, spare (evictable snapshots hold it)
or in use. Choices that make the model larger than the code: `Released` lets the snapshot
of a request that leaves keep any of its pages, and `Rooms` may evict any snapshots that
suffice. Choices that make it smaller, and why that is safe for the properties:

- one source pool instead of four, which grow at different rates but are checked by the
  same code, each on its own;
- active requests share no full pages with each other, so a request's pages are its
  own: sharing only lowers the demand. A *partly filled* last page shared with a
  snapshot, which costs one more page, is modelled (`tails`);
- the banks' own limits evict nothing: `Evicted` may happen whenever room is made;
- errors that end `serve` itself (a poisoned bank, a lost device) stop the process;
- a client that stays connected reads. One that does not blocks the serve thread, as in
  the code (`blocking_send`); nothing can be promised then.

`client` and `mail` are a request's channel seen from both ends: a client reads up to
the first terminal message and hangs up. `drain` is a history variable after the round
is over: it keeps the lanes' reason to stop until the loop takes a request, which is
what `DrainsAdmit` is about.

## 3. Runs

All runs finish within the five minutes; the longest take about two.

| Run | Instance | Shows |
|---|---|---|
| `slab_pool` | 3 chunks of 3 bytes, quota 11, page (1 byte), tail (2), a disabled class | exclusivity, exact lists, refinement of `RangeStore` |
| `source_cache` | 3 pages of 3 rows, 2 slots, 2 lanes, 1 prefix, 4 rows | pages accounted, tables exact, private writes; prefixes and idle slots keep their rows (384k states) |
| `host_snapshots` | 5 slabs, 2 device pages, 3 snapshots, 3 plans | counts, identity map, banks, pins |
| `host_cache` | 3 slabs, 2 pages, 2 buffers, prompt and short turn, 3 stores, both store modes | right bytes and payloads, late copies and uploads, tickets and plans, with failing copies (679k states) |
| `prefix_tier_host` | 1 row to a page, 3 slabs, 2 slots, one queued snapshot | end to end over both tiers, restores that time out (351k states) |
| `prefix_tier_device` | 2 rows to a page, 1 slab, 2 slots, 2 lanes, 2 prompts | forks, arena, banks (333k states) |
| `radix` | 9 keys, banks of 3, replay window 1 | compact trees; refinement of `PrefixBanks` |
| `request_bank` | 3 caches, one of each kind, 2 slots of 3 and 1 rows, 2 lanes, 2 admissions | caches, history and chunks agree; queued writes are owned (171k states) |
| `scheduler` | 3 requests, 3 slots, queue of 2, pools of 1, 4 and 6 pages, both layouts | batches, budgets, answers, drains; refinement of `ServiceLine` with its liveness (184k states) |
| `prefix_tier_tail` | 2 rows to a page, 1 slot | *violation*: finding 1 |
| `prefix_tier_lanes` | as `prefix_tier_host` with 2 lanes | *violation*: finding 2 |
| `scheduler_race` | 2 requests of 3 tokens, 4 pages | *violation*: finding 3 |

### Why these bounds

- Slab pool: three chunks is the least with a middle to unlink; a three-byte chunk
  with a two-byte class has waste and a chunk with one slab, which is linked and
  unlinked in one call. The proofs cover the rest.
- Source cache: two rows to a page would give "partly filled"; *three* are needed for
  two frontiers inside one partly filled page. Three pages are exhausted by two slots
  and a prefix. With one prefix and two slots every number of owners from one to three
  occurs, and with two lanes an append meets another lane's transaction at every stage.
- Host snapshots: three plans is a resident snapshot, one being replaced and one
  overlapping. Five slabs let two finish and starve the third.
- Host cache: three stores are the least for a late copy of the first to meet the
  third in a slab that the second had; a snapshot takes two of the three slabs, so any
  two of them compete. A prompt and a turn of its length share their page or do not, as
  their device pages say. Page lists that share a prefix are `host_snapshots`' and
  `prefix_tier_host`'s business. `StoreModes` holds the modes the configuration may
  choose; `mode` is the choice, made once. `MaxKeys` bounds `next_key` and the tickets.
- Prefix tier: `LIMIT = 1` makes every second retention evict, and the arena is then
  `2 * LIMIT + 2 = 4`, the code's own formula. `REPLAY = 0` instead of 128 keeps
  every partial hit within `MAX_TOKENS` tokens; a larger value only shortens what is
  reused. One row to a page where the host tier is on, because with two the tail
  finding would hide everything after it; two rows where forks are the question, with
  a host too small for any snapshot. `Lanes = 1` in `prefix_tier_host` for the same
  reason: finding 2 needs two.

- Request bank: one cache of each kind is enough, because the code treats the windows of
  a half, and the sources, alike; layer order is kept by their order in `Kinds`. Three
  rows with `REPLAY = 2` give a decoder replay that starts after the first row and takes
  two batches, two reserved chunks outstanding, and a continuation. A chunk has two rows
  where fewer may be accepted (`Full`, encoder replay) and one in the encoder, where
  chunks overlap. `CAPACITY = 2` instead of 16 is reached, and by a third chunk too if it
  is not checked: when a lane gives up while another lane's write keeps the request
  alive. The second slot shares batches with the first. `MaxLeases = 2` allows both
  requests, or one slot leased twice, which is what a stale lease needs.

- Radix: the keys are prefixes of each other, part inside an edge at different depths,
  or share nothing; with three in a bank every removal meets a chain, a fork and a leaf.
  `REPLAY = 1` separates entries that save nothing from those that do, at these lengths.
- Scheduler: three requests over three slots let a lane hold two, be rebalanced, and have
  one blocked behind two. A pool of one page refuses a request for good, four blocks the
  second or third until somebody retires, six fits all. Prompts of one token and answers
  of two make a request cross a page in its lifetime (`PAGE_ROWS = 2`). A channel of one
  message blocks every second send. All three clients may leave. The requests are alike,
  so `InTurnSpec` has them submitted in order of their names, which loses nothing but
  renamings; the liveness property forbids declaring symmetry. In `scheduler_race`
  answers of three give both lanes a round that needs a page at the same time.

Symmetry is over names nothing orders or computes with: slabs (plans take any set of
them), request slots, pages and row contents of `SourceCache`, whose initial states
hold every order of the free list, and lanes of the request bank. Pages of the tiers
are *not* symmetric, because they are used in a fixed order (`Unused`), which only
breaks ties between equal names. Symmetry is not used where liveness is checked. `View`
in `MCSourceCache` identifies states that differ only in rows that no table or prefix
shows and no transaction has prepared; the next step overwrites them or never reads
them. The `hist` is kept in it. `View` in `MCRadix` keeps the order of the clocks
instead of their values, which grow for ever, and leaves out the last call and answer,
on which nothing depends; TLC still checks each step's answer, since a step property is
checked on every transition it generates.

`CHECK_DEADLOCK FALSE` in the host, tier and bank runs: `MaxKeys`, the identities,
`MAX_TOKENS` and `MaxLeases` run out there by design. The scheduler stops once its door
is closed and its requests are done; that it does not stop before is `KeepsTheLine`. The
pool, the source cache and the radix banks are checked for deadlock.

### Fairness

Only the scheduler is given fairness: `WF(ServeStep)`, the serve thread runs; weak
fairness of each lane's step, which one task polls together (`join`); and of each
client's `Read`, without which the code itself waits for ever (`blocking_send`). Nothing
is assumed of submissions, of clients leaving or of the queue closing. A step of the
thread may end in an error wherever the code may return one, so fairness does not
assume success. What the host cache must do eventually is stated as a step property
instead (`DrainedTickReportsAll`): it is the loop's next `tick` that has to do it.

## 4. Findings

1. `prefix_tier_tail`, a bug. Host pages are shared by device identity, which is right
   only if the bytes of an identity do not change. The generation changes when a page is
   released, not when it is appended to in place. A prompt is stored, its device
   snapshot is evicted, so the request is alone with the partly filled page and appends
   in place; retaining the turn finds the page's identity in the map and takes the host
   copy made before the append. The turn is resident without its last rows.
2. `prefix_tier_lanes`. Two lanes queue turns with the same tokens; each makes room
   before either is in the bank, so the second insertion replaces the first value and
   drops it without `before_device_evict`, while its copies are queued.
3. `scheduler_race`. `independent.rs:58` says that a lane reserves its rows before a
   round; `make_room` checks and keeps nothing, and the pages are taken at the commit,
   after the draft and the verification. Two lanes pass the check for the same free page.
   The lifetime budget still covers both (`BudgetsCovered` holds), but the page it counts
   on is a snapshot's, and nobody evicts it for a lane that has already checked: the
   second commit fails and with it every active request.

Each is a run whose one property is the sentence of the source it contradicts; the
counterexample is TLC's.

## 5. Proofs

Every theorem holds for all values of the constants that satisfy the named
assumptions, sets of requests, slots, lanes, pages and keys of any size included. The
assumptions are what the code's types and constructors enforce; TLC evaluates each on
every run of its module.

| Module | Theorem | States |
|---|---|---|
| `SlabPoolProofs` | `PoolTypeCorrect`, `SlabsExclusive`, `ListsAreExact` | `[]TypeOK`, `[]EachSlabInOnePlace`, `[]ListsHoldTheOpenChunks` |
| | `SizesNeverChangeUnderAHolder` | the action property `RecarvedOnlyWhenEmpty` |
| | `PoolImplementsRangeStore` | the refinement `ImplementsRangeStore` |
| `HostSnapshotsProofs` | `StoreTypeOK`, `StoreSlabsAccounted`, `StoreMapExact`, `StoreBanksExact` | `[]TypeOK`, `[]SlabsAccounted`, `[]IdentityMapExact`, `[]BanksListResidents` |
| `HostCacheProofs` | `CachePayloads`, `CachePlans`, `CacheTickets` | `[]PayloadsFollowSnapshots`, `[]PlansAreInFlightOrHeld`, `[]TicketsReportedOnce` |
| | `CacheDrains` | the action property `DrainedTickReportsAll` |
| | `CacheBytes`, `CacheTypes` | `[]ResidentBytesRight`, `[]CacheTypeOK` |
| | `CacheSlabs`, `CacheMap`, `CacheBanks` | the store's invariants under the cache that drives it |
| `PrefixTierProofs` | `TierTypes`, `BuffersOwned`, `ArenaCovers` | `[]TierTypeOK`, `[]BuffersAccounted`, `[]ArenaCoversRetention` |
| | `DropsThroughHost` | the step of `DroppedThroughHost`, of every step but one kind (finding 2) |
| | `ReadsFollowHost` | `TierReadsRight` is kept by every step but the restore of wrong host bytes |
| | `ReadsWithoutHost` | `[]TierReadsRight`, when the host pool is too small for a snapshot |
| | `TiersHoldRight` | what is read and what the host holds is right until a step of one of two kinds (findings 1 and 2) |
| | `TierCache` | the host cache's inductive invariant under the real engine |
| `SourceCacheProofs` | `SourceTypeOK`, `SourcePagesAccounted`, `SourceTablesCover` | `[]TypeOK`, `[]PagesAccounted`, `[]TablesCoverTheirRows` |
| | `SourceWritesPrivate`, `SourcePrefixesKept`, `SourceSlotsKept` | `[]WritesArePrivate`, `[]PrefixesKeepTheirRows`, `[]IdleSlotsReadTheirRows` |
| `RequestBankProofs` | `BankTypes`, `BankFrontiers`, `BankChunks`, `BankHistories`, `BankWrites` | `[]BankTypeOK`, `[]FrontiersAgree`, `[]ChunksFollowEachOther`, `[]HistoriesAgree`, `[]QueuedWritesAreOwned` |
| | `BankAdvances` | the action property `AdvancesByWholeChunks` |
| `SchedulerProofs` | `NobodyLeavesUnanswered`, `AdmittedAreCovered`, `LoopTypeOK` | `[]AnsweredWhenGone`, `[]BudgetsCovered`, `[]SchedulerTypeOK` |
| | `RoundsFindRoom` | making room for a round of any active requests succeeds |
| | `BatchesAreBounded`, `DrainsAreNotForNothing` | `[]LanesWithinBatch`, the action property `DrainsAdmit` |
| | `LoopKeepsTheLine` | the refinement of `ServiceLine`, its safety half |

`PROJECT.json` lists them with the property each states.

### How the proofs are laid out

Each module has one inductive invariant, a conjunction of named parts; one lemma per
action says that the action keeps it; a lemma `Next...Inv` collects them, and each
theorem follows from the invariant by a lemma of its own. Where several actions change
state in the same way, what they have in common is an operator over two states (`LetGo`,
`Fewer`, `Ended`, `Drops`, `Moves`, `Elsewhere`) and is proved once.

The induction theorems of the library take an operator as an argument, which the
installed provers cannot instantiate. Where a definition is recursive (a loop of the
code), the proofs use the least-number principle instead (`LeastNat`: a nonempty set of
numbers has a least member). `SetInduction` follows from it and is stated about a *set*
of numbers, which the provers can instantiate. That the recursive function exists at all
is a lemma beside its first use (`EvictionsExist`, `PollsExist`, `RegistrationsExist`,
`FlatteningsExist`, `SumsExist`). No module declares a RECURSIVE operator.

### SlabPool

From `SizesFitAChunk` (sizes are between zero and a chunk's bytes, a chunk is not empty,
`NoClass` is not a class). `EachSlabInOnePlace` is not inductive: to hand out the head
of a free stack one must know that the listed chunk is of that class and has a free
slab, and carving needs the uncarved chunk to be on the stack once. `IInv` adds that
heads and links only name open chunks of their class and are inverse to each other
(`Linked`), and that the stack of free chunks holds uncarved chunks only, each once
(`UncarvedOnce`).

That is still too little for `ListsHoldTheOpenChunks`: pointers that are inverse to each
other also describe a ring beside the list. `Threaded` says that a list *exists* that
starts at the head, follows the pointers and holds each open chunk of the class once.
`ThreadPrepended` and `ThreadCut` give the new list when a chunk is linked or unlinked
anywhere in it; `WalkOn` and the theorem's own induction then show that the walk of the
invariant reads that list.

### SourceCache

From `PageShape` (finitely many pages, slots and handles; a page has a row). `CacheInv`
has six parts: `TablesInv`, each table has the pages its rows need and each page once;
`Counted`, counts are owners; `Pool`, a page without an owner is free or claimed by one
transaction; `WritingInv`, a slot is in one transaction exactly while it is being
written; `PlansInv`, what an outstanding transaction may still rely on; `RowsInv`, what
the pages show.

`PlansInv` is the hard part. A reservation decides at the start who copies a partly
filled page and who may write in place, and acts on it two awaits later, when other
transactions have reserved, released and applied. What survives is in `PlanAlone`: the
pages the transaction will write are claimed by it, or have no owner but the slot itself
and slots of the same transaction that are leaving the page. Nobody can become an owner
of such a page meanwhile, because retaining, restoring and reserving are refused for a
slot in a transaction. `WritesArePrivate` is this read on rows. `RowsInv` needs it in
turn: a row changes only on a private page (`RowsElsewhere`), so no prefix and no other
slot sees it. `abort`'s release is counted by `DroppedCounts`, the claims by arithmetic
by `ClaimFacts` and `UsedCounts`.

### HostSnapshots and HostCache

From `MetaShape`, `StoreShape` and `CacheShape` (a snapshot has a kind, tokens and
different pages; the null names are not names; pages follow from the tokens). `StoreInv`
speaks of any store and any outstanding plans, not of the variables, so that `HostCache`
can use it of the stores in the middle of a call. Its centre is `Balanced`: a page's
count is the number of *claims* on it (triples of a holder, a place in its list and a
slab), and a slab is free, some holder's own part, or claimed. `ClaimLess` and
`ClaimMore` are the two ways in which books change; every method is one or the other on
the way. `CopiesPrivate` says that a page a plan copies is claimed once and has no name
yet: without it a commit could rename a page another snapshot had registered.

`CacheInv` relates five records that different calls maintain: outstanding plans are
those of issued entries and held ones (`PlansMatch`), a ticket is in the queue or
reported (`TicketsMatch`), what a device snapshot was stored as is what its entry stores
(`SavedMatch`), payloads are those of residents, and each deferred entry still has a key
to take (`KeysLeft`, without which a deferred store could fail where the code has no
path for it). `poll_pending`'s loop has an invariant of its own, `PollInv`: the entries
behind its position are as they were. A second one, `Drains`, holds over a drained
stream only: nothing issued or failed is left in front of the position, whatever was
deferred there. `CacheDrains` is that at the end of the loop.

`ResidentBytesRight` says what a slab *will* hold, so `BytesInv` speaks of the whole
stream. For each slab in use the last queued copy to it decides (`Comes`), and without
one it holds its bytes already. `BytesRight` says so of resident snapshots, of the plans
of issued entries, and of the identity map: a page that the map names has the bytes the
device page had when it was stored, or that page has been released since (`MapRight`).
That part is what a later store relies on when it shares a host page instead of copying
it. For the copies themselves, each entry in flight has a buffer and pages on the device
that still hold what it stores (`SourceRight`); this is the condition the engine is held
to until the ticket is reported (`EngineStep`, `BytesDevice`).

The invariant cannot speak of slabs in use alone. A store that is given up leaves its
copies in the stream, and its slabs go back to the pool while these may still be written.
What makes this right is the order of the stream: whoever is handed such a slab queues
copies of its own behind the stale ones. A slab that nobody owned therefore keeps
nothing (`UnownedKeeps`), a slab in use is never a target behind its own last copy
(`Still`), and an abandoned restore only touches the buffers it was given (`GivingUpOK`).

### PrefixTier

From `TierShape` (the arena has two buffers more than the banks can list, prompts are
not empty and not longer than the bound), `EveryMeta` (any tokens on any pages can be
retained, so that what a request retains is a snapshot the cache knows) and `HasParts` (a
snapshot fills an arena buffer as well as pages, so a restore writes the buffer it takes).

`HostCache` is proved under an engine that may do whatever its contract allows, at any
time between calls; `TierCache` shows that the engine that is there keeps `CacheInv`, the
accounting, the plans, the tickets and the payloads. Most of the actions here are one operation of the cache and a change of requests and banks, so
`CacheInv` is kept by the lemmas of `HostCacheProofs`, and what is left is each
operation's *precondition*: the buffer an eviction names is retained with pages that are
not fresh, the buffer a restore takes is not one that a queued retention has written to,
the key a restore names has been handed out and its plan was committed. `TierInv` adds
what makes those hold:

- `CallsOK`: one request at most is in a call, the others decode or wait for a copy, and
  a request that retains in one call does so only while no copy is queued;
- `RequestsOK`: the rows of a request and its table agree (`TableOK`), and its phase
  says how far it is in its prompt (`PhaseOK`);
- `BanksOK` and `BuffersOK`: a bank lists retained snapshots of its kind, each once and
  no two with the same tokens; a retained buffer is listed or about to be by exactly one
  request; a buffer that holds a copy and is not retained is a queued request's or the
  target of a restore that was given up;
- `TargetsOK`: such a target is waited for inside the call that gave up, so nobody else
  takes it in between;
- `WrittenOK`: nothing that is copied was never written;
- `HitOK`: what `restore` read from the banks and the host's index is still true when
  `host_restore` acts on it, calls later.

`DropKeeps` is the lemma the rest stands on: taking an entry out of its bank and handing
its buffer back, evicted or displaced, keeps all of it. `make_room`, `make_bank_room`,
the insertion of a retention and the drop after a restore put a bank over its limit
each use it. `ArenaCovers` then counts: the two lists and the one copy that another lane
may have queued are at most `2 * LIMIT + 1` buffers, and any other one is free.

Findings 1 and 2 refute `ResidentBytesRight` and `DroppedThroughHost` of the program as it
is, with two lanes and 256 rows to a page, so no theorem states them of it. The next three
theorems say how far the findings go instead. They are action properties, assume nothing
of the lanes or the page size, and name the steps that are excepted by definitions of
their own: `ReplacesInFlight`, `RestoresStale`, `ExtendsKnownTail`.

`DropsThroughHost` excepts `ReplacesInFlight`, the step of finding 2. It needs one more
invariant: `OnlyCopy`, no bank lists the tokens of a snapshot that is about to be
inserted unless another lane may have queued them too (`Races`). What one call retains is
inserted with nothing in between that could list the same tokens (`OneAtATime`: while a
request is in a call, whoever waits for a copy is on the other of two lanes), and the room
it made first had the host cache evict the copy that was there (`RetainSettles`). So only
an insertion from a lane displaces anything, and the drops that are left follow an
eviction of the same buffer, which leaves no store of it in flight (`EvictSettles`).

What is read is `ReadsInv`: each page of a request holds the rows of its tokens up to
that page's end, a retained snapshot's likewise and its buffer the rest, and no page of
either is the target of a restore that was given up. Nothing in it depends on the number
of lanes or of rows to a page. `ComputedReads` is the heart: of the pages that an
append writes, one that was in use is the last of the request's own table and nobody
else's (`WrittenPages`, `Shared`), and a copied tail gets all its rows on its new page. A
partial hit takes a prefix of a snapshot's pages for a prefix of its tokens (`RowsLess`), and
a restore writes what the host's slabs hold (`RestoredBytes`, for which `PlansExact` counts
the parts of every snapshot). That last step is the only one that needs the host to be
right, and `ReadsFollowHost` says so: `TierReadsRight`, once true, stays true in every step but
`RestoresStale`. The part of `ReadsInv` about targets is an invariant by itself, whatever is
read (`TargetApart`). `ReadsWithoutHost` is `[]TierReadsRight` where the pool is too small for a
snapshot, the instance `prefix_tier_device` checks, whatever the lanes and the page size.

`HostCacheProofs` proves `ResidentBytesRight` under an engine that changes no page once it
has been computed. The engine that is there does append in place, and `ComputedBytes` says
what that leaves of the contract: the sources of stores in flight are never touched, since a
page of a retained snapshot is shared and is copied first; but a page that the identity
map still names, and that only the request refers to by now, changes under the map
(`MapRight`): `ExtendsKnownTail`. `TiersHoldRight` puts the tiers together. Its invariant is
`TierReadsRight` with `BytesOK`, the bytes of every slab in use, now or once the queued copies
have executed: readers need the host's bytes when they restore, and the host needs the
readers' when it stores what they retain (`ReadyToRetain`), so neither is kept alone. It
holds at first and is kept by every step but `ExtendsKnownTail` and `ReplacesInFlight`. An
insertion that replaces a snapshot whose store has ended is not excepted (`InsertBytes`).
`TiersHoldRight` thus says that wrong bytes begin in the two findings' steps and nowhere else:
of every behaviour without them, with two lanes and any page size, `ResidentBytesRight` and
`TierReadsRight` hold throughout.

### RequestBank

From `BankConstants` (finitely many slots and lanes, an encoder cache exists, the
capacity and the window are positive) and `BankNone` (the model's null value is none of
the records, which stands for Rust's `Option`). `BankInv` adds to the invariants the run
checks what relates a batch in flight to requests that others move on:

- `Fits`: a request that still has the lease a batch was planned for agrees with it. The
  chunk it has published for the batch is the batch's (`Owns`); an unreserved batch was
  planned for the request as it is or for a version that is past (`Planned`), and while
  it is out nothing is prepared ahead (`Alone`);
- `Carries`, `Unpublished`: a wave carries the rows of its lane's batch to a cache the
  batch has not published;
- `Writer`, `Right`: a cache slot is being written exactly when one wave has queued a
  write to it, and then request, cache and wave agree on lease, rows and version.

What the code checks before a publication or a commit (`Valid`, `Agreed`, `InOrder`) is
not part of the invariant: the batch of a released request fails those checks and stays
in its lane. `PublishableFacts` and `AcceptsFacts` say what the checks establish, and
the steps are proved from that. `Expected` ends move only for the caches
a batch writes (`Appended`, `ExpectedCases`), so overlapping chunks may be published
cache by cache in any order the code admits. A batch id is free when a lane plans
because no request has more than `CAPACITY` chunks (`FreshIdUnused`, by counting).

### Scheduler

From `SchedulerAssumption` (the sizes are positive, `NoRequest` is no request).
`AnsweredWhenGone` needs to know who is *about* to be gone: `AnswerInv` adds that a
request in `finished`, and one that a lane has on its list to retire, has been answered or
has left. The list is fixed when the lane looks and handled one by one, so that it names
only such requests is not obvious from any one step.

`LanesWithinBatch` has a chain of invariants below it. `PlacesInv` says where requests
are: the line holds queued requests, each once; at most one is being admitted, and only
during prefill; lanes are out unless a round runs. `CountsInv` counts: at most `SLOTS`
are active (with the one being admitted), and whenever the loop is at admission the
lanes differ by at most one, because the boundary evens them out (`LanesEven`) and the
next request goes to the lighter one. During a round lanes only lose requests.

`DrainsAdmit` needs that what woke a lane is still there when the loop is back at
admission, across the other lane's last steps, the join and the boundary. `WakeInv` says
that `drain = "wake"` keeps `Wake` true until a request is taken, and that a request is
blocked only while fewer than `SLOTS` are active (`PendingFits`): without that, a wake
for the blocked request could find no slot. `WakeIsAdmitted` is the point: the lanes'
condition implies the loop's.

The refinement of `ServiceLine` maps the blocked request and the queue to the line, the
active, admitting and retiring requests to those in service. Retiring ones have left
their slot, but not the abstract service; `RetiringInv` (a lane has at most one, and only
while it waits for that request's snapshot) says that none is left when the loop admits,
so the bound on those in service holds when one enters.

`BudgetsCovered` and `SchedulerTypeOK` rest on `Accounts`, which speaks of any pool, any
holders of a lease and any row counts, so that the pools in the middle of a step have it
too. A page is a pair of a request and a place, so pages are counted by counting sets:
those the requests hold (`PagesOf`) make up the pool with the free and the spare ones,
and those the holders may still append (`Owed`) are no more than the free and the spare
ones together. `AppendedAccounts` is the heart: an append moves pages from `Owed` to
`PagesOf`, and a page it copies leaves one behind for the snapshot that shared it, so
it takes from the free and adds to the spare. `EvictedIsLooser` and `RoomIsLooser` say
that eviction only moves pages from spare to free; `AdmittedAccounts` is the one place
where `Owed` grows, and admission's check pays for it. `RowsOK` keeps an active request
short of its declared end, so that a round never asks for rows that were not budgeted,
and `WorkInv` says that a lane's list names active requests of that lane only.
`RoundsFindRoom` then follows. It does not contradict finding 3: the room is found when
the lane checks, and `CheckedRoomHolds` fails because another lane takes it in between.
`ChannelInv` bounds a channel by the checks that precede every send, `Sendable`.

### Only model-checked

- `PrefixTier`: `TierReadsRight` and `DroppedThroughHost` as properties of whole behaviours of
  an instance with a host tier (`prefix_tier_host`). Of every instance they are false
  (findings 1 and 2); the theorems name the steps that break them;
- `Radix`: the refinement `ImplementsBanks` and `TreesCompact`. The trees are searched
  and changed by recursion over them;
- `Scheduler`: the liveness half of `KeepsTheLine`. Liveness under fairness and
  `ENABLED` are out of the proof system's reach.

## 6. What is not modelled, and why

- Kernels, the loader, quantization, Python and scripts compute or move tensors: no
  protocol state.
- The legacy commands are an older engine kept for comparison.
- The expert transport and the HTTP API are concurrent protocols of their own and worth
  a module each; they do not share state with the request memory modelled here.
- Of the modelled components: host cache configuration, budget, metrics and the
  simulator (`sim.rs` replays traces for capacity planning); image keys; several slab classes at once in the
  snapshot store; the source cache of more than one compressor (they differ only in the
  compression ratio and never share pages); the request's window tails and draft rows,
  which are the opaque "parts" of a snapshot.
- Speculative decoding is in the scheduler as a number of accepted rows; its replay and
  the draft caches' own commit are not.
- A remark on readers of a table under append. `v41_compressor.rs` tells them that appends
  only write beyond the committed prefix. When *all* owners of a partly filled page append in
  one transaction the last of them keeps the page; if it was forked from a shorter
  frontier it writes over rows that a longer owner has committed and whose table still
  points there until `apply`. The rows come out right (the tail was copied first), and no
  reader of that interval is modelled, so `IdleSlotsReadTheirRows` speaks of the requests
  outside the transaction only.
- A remark rather than a property: nothing calls `device_page_freed`, so the identity
  map keeps the names of released pages until their host page goes. The generation in
  the name keeps a stale entry from being matched, and the map stays bounded by the
  host pages.

## 7. Plan

Done: the modules of section 2, with the theorems of section 5. Left, in order of what
matters most:

1. Proofs: the radix trees' shape, by well-founded induction once it can be used.
2. The abstract specification of `RequestBank`: a request has one frontier; a commit moves
   all of its caches to the next one or revokes the request.
3. Speculative commit and the draft caches, composed with the scheduler's rounds.
4. The expert transport's credits and reconnection, the KV allocator of the core crate.
