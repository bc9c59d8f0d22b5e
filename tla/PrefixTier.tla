------------------------------ MODULE PrefixTier ------------------------------
(***************************************************************************)
(* The two tiers of retained snapshots behind the scheduler                *)
(* (v41_native_serve/prefix.rs and its callers): requests in slots, the    *)
(* device banks of retained prompts and turns, and the host cache.         *)
(*                                                                         *)
(* HostCache lets its engine retain any pages that hold the right bytes.   *)
(* Here the engine is the real one: a request computes rows into pages,    *)
(* in place in a partly filled page it owns alone and in a copy otherwise, *)
(* shares the pages of the snapshot it was restored from, and is retained  *)
(* when its prompt is complete and when it finishes, in one call or, on an *)
(* independent lane, as a copy queued now and inserted later.              *)
(*                                                                         *)
(* The scheduler is one thread.  `calling` is the slot it works for in the *)
(* middle of a call; only the streams and the prefill's tick run then.     *)
(***************************************************************************)
EXTENDS HostCache

CONSTANTS
    Slot, NoSlot,
    Prompts,     \* prompts a client may send
    Vocabulary,  \* tokens a request may generate
    MAX_TOKENS,  \* tokens of a prompt and its answer (bound)
    LIMIT,       \* snapshots a device bank may hold
    REPLAY,      \* rows a partial hit computes again (128 in the code)
    Lanes        \* snapshots that may be queued at once: 2, or 0 without lanes

ASSUME TierShape ==
    /\ LIMIT \in Nat \ {0} /\ REPLAY \in Nat /\ Lanes \in 0..2
    /\ IsFiniteSet(Slot) /\ NoSlot \notin Slot \cup Arena
    /\ MAX_TOKENS \in Nat /\ Vocabulary \subseteq Nat
    /\ Prompts \subseteq UNION {[1..n -> Vocabulary] : n \in 1..MAX_TOKENS}
    \* One arena buffer for each bank entry and two more.
    /\ IsFiniteSet(Arena) /\ Cardinality(Arena) = 2 * LIMIT + 2

\* Any tokens on any pages can be retained.
ASSUME EveryMeta ==
    \A n \in 1..MAX_TOKENS, k \in Kind :
        \A x \in [1..n -> Vocabulary],
           f \in [1..(n + PAGE_TOKENS - 1) \div PAGE_TOKENS -> PageId] :
            (\A i, j \in DOMAIN f : f[i] = f[j] => i = j)
            => [kind |-> k, tokens |-> x, pages |-> f, parts |-> 1] \in Meta

\* A retained snapshot has more than pages: what fills its arena buffer.
ASSUME HasParts == \A m \in Meta : m.parts \in Nat \ {0}

VARIABLES
    banks,     \* banks[n]: the buffers of a bank's snapshots, oldest access first
    requests,  \* requests[r]: the request in slot r and where its calls are
    calling

tier_vars == <<banks, requests, calling>>
vars == <<all_vars, tier_vars>>

-----------------------------------------------------------------------------
(* Requests and their pages. *)

NoRequest == [phase |-> "free"]

Active == {r \in Slot : requests[r].phase # "free"}

FullPagesOf(n) == n \div PAGE_TOKENS

PagesFor(n) == (n + PAGE_TOKENS - 1) \div PAGE_TOKENS

SharedByRequests(r, id) ==
    \E q \in Active \ {r} : id \in ToSet(requests[q].table)

\* Another request or a retained snapshot refers to the page too.
Shared(r, id) ==
    \/ \E q \in Active \ {r} : id \in ToSet(requests[q].table)
    \/ \E d \in Arena : saved[d] # Empty /\ id \in ToSet(saved[d].meta.pages)

\* A page only partly filled is appended to in place by its sole owner, and
\* copied first otherwise.
CopiesTail(r) ==
    LET rq == requests[r] IN
    Len(rq.tokens) % PAGE_TOKENS # 0 /\ Shared(r, Last(rq.table))

\* Request r's table and the device once its tokens are `tokens`.
Appended(r, tokens) ==
    LET rq == requests[r]
        kept == IF CopiesTail(r) THEN Front(rq.table) ELSE rq.table
        table == kept \o SubSeq(Unused, 1, PagesFor(Len(tokens)) - Len(kept))
        written == (Len(rq.tokens) \div PAGE_TOKENS) + 1 .. PagesFor(Len(tokens))
    IN  [table |-> table,
         device |-> [x \in PageId \cup Arena |->
             IF \E i \in written : table[i] = x
             THEN PageBytes([tokens |-> tokens],
                            CHOOSE i \in written : table[i] = x)
             ELSE device[x]]]

PagesSuffice(r, tokens) ==
    Len(Unused) >= PagesFor(Len(tokens)) - Len(requests[r].table)
                        + (IF CopiesTail(r) THEN 1 ELSE 0)

MetaOf(r) ==
    LET rq == requests[r] IN
    [kind |-> rq.kind, tokens |-> rq.tokens, pages |-> rq.table, parts |-> 1]

-----------------------------------------------------------------------------
(* The engine's reuse rule, over either tier. *)

\* Rows a snapshot saves a prompt: all of a snapshot the prompt extends, or,
\* when they part, an even number less those replayed.
Skipped(prompt, tokens) ==
    LET common == Len(LongestCommonPrefix({prompt, tokens})) IN
    IF common = Len(tokens) THEN common
    ELSE Max({0, (common \div 2) * 2 - REPLAY})

Reused(prompt, tokens) ==
    LET common == Len(LongestCommonPrefix({prompt, tokens})) IN
    IF common = Len(tokens) THEN common ELSE (common \div 2) * 2

\* The entries that save most; of those, turns before prompts.
Best(prompt, entries) ==
    LET gain(e) == Skipped(prompt, e.tokens) IN
    {e \in entries :
        /\ gain(e) > 0
        /\ \A f \in entries :
              \/ gain(f) < gain(e)
              \/ gain(f) = gain(e) /\ (f.kind = "turn" => e.kind = "turn")}

DeviceEntries ==
    {[at |-> d, kind |-> saved[d].meta.kind, tokens |-> saved[d].meta.tokens] :
        d \in UNION {ToSet(banks[n]) : n \in Kind}}

HostEntries ==
    {[at |-> k, kind |-> store.snapshots[k].meta.kind, tokens |-> Tokens(store, k)] :
        k \in Resident(store)}

-----------------------------------------------------------------------------
(* The device banks. *)

StillListed(d) == banks

Without(d) == [n \in Kind |-> RemoveFirst(banks[n], d)]

SameKey(kind, tokens) == {d \in ToSet(banks[kind]) : saved[d].meta.tokens = tokens}

LeftToInsertion(kind, tokens) == {}

\* make_bank_room: the snapshot with the same key, or the oldest of a full bank.
InTheWay(kind, tokens) ==
    IF SameKey(kind, tokens) # {} THEN SameKey(kind, tokens)
    ELSE IF Len(banks[kind]) >= LIMIT THEN {Head(banks[kind])}
    ELSE {}

\* An insertion has put a bank over its limit.
Over == {n \in Kind : Len(banks[n]) > LIMIT}

Idle == calling = NoSlot /\ Over = {}
Calls(r) == calling = r /\ Over = {} /\ giving_up = NoTarget

\* host_dropped.
DropThroughHost(d) ==
    /\ Evict(d)
    /\ banks' = Without(d)

\* Request r is `to` next.
Goes(r, to) == requests' = [requests EXCEPT ![r] = to]

TierInit ==
    /\ CacheInit
    /\ banks = [n \in Kind |-> <<>>]
    /\ requests = [r \in Slot |-> NoRequest]
    /\ calling = NoSlot

-----------------------------------------------------------------------------
(* Admission: restore, make room, prefill, retain the prompt. *)

\* Both lanes have drained: no snapshot is queued.
Admit(r, prompt) ==
    /\ Idle
    /\ requests[r] = NoRequest
    /\ \A q \in Active : requests[q].phase = "decode"
    /\ calling' = r
    /\ Goes(r, [phase |-> "restore", prompt |-> prompt, tokens |-> <<>>, table |-> <<>>,
                hit |-> NoKey, kind |-> "prompt", queues |-> FALSE, buffer |-> NoSlot])
    /\ UNCHANGED <<all_vars, banks>>

\* A device hit: the request takes a reference to the pages it reuses.
AttachDevice(r) ==
    /\ Calls(r)
    /\ requests[r].phase \in {"restore", "attach"}
    /\ \E e \in Best(requests[r].prompt, DeviceEntries) :
          LET prompt == requests[r].prompt
              n == Reused(prompt, e.tokens)
              whole == e.tokens = prompt
          IN  /\ banks' = [banks EXCEPT ![e.kind] = Accessed(@, e.at)]
              /\ Goes(r, [requests[r] EXCEPT
                     !.phase = IF whole THEN "decode" ELSE "prefill",
                     !.tokens = SubSeq(prompt, 1, n),
                     !.table = SubSeq(saved[e.at].meta.pages, 1, PagesFor(n))])
              /\ calling' = IF whole THEN NoSlot ELSE r
    /\ UNCHANGED all_vars

\* A device miss that hits the host.
HitHost(r) ==
    /\ Calls(r)
    /\ requests[r].phase = "restore"
    /\ Best(requests[r].prompt, DeviceEntries) = {}
    /\ \E e \in Best(requests[r].prompt, HostEntries) :
          /\ LookupOnly(e.at)
          /\ Goes(r, [requests[r] EXCEPT !.phase = "host", !.hit = e.at])
    /\ UNCHANGED <<banks, calling>>

Miss(r) ==
    /\ Calls(r)
    /\ Best(requests[r].prompt, DeviceEntries) = {}
    /\ \/ requests[r].phase = "attach"
       \/ requests[r].phase = "restore" /\ Best(requests[r].prompt, HostEntries) = {}
    /\ Goes(r, [requests[r] EXCEPT !.phase = "prefill"])
    /\ UNCHANGED <<all_vars, banks, calling>>

\* The rebuilt snapshot goes into its bank; the engine's restore finds it there.
RestoreFromHost(r) ==
    LET k == requests[r].hit IN
    /\ Calls(r)
    /\ requests[r].phase = "host"
    /\ k \in Resident(store)
    /\ Len(Unused) >= Len(store.snapshots[k].pages)
    /\ \E d \in Arena :
          /\ Takeable(d)
          /\ Restore(k, d, SubSeq(Unused, 1, Len(store.snapshots[k].pages)))
          /\ banks' = [banks EXCEPT ![store.snapshots[k].meta.kind] = Append(@, d)]
    /\ Goes(r, [requests[r] EXCEPT !.phase = "attach"])
    /\ UNCHANGED calling

\* No pages, or a snapshot that left the host while room was made: the request
\* is prefilled.
AbandonRestore(r) ==
    /\ Calls(r)
    /\ requests[r].phase = "host"
    /\ Goes(r, [requests[r] EXCEPT !.phase = "attach"])
    /\ UNCHANGED <<all_vars, banks, calling>>

\* The same when the host's copies failed or were too slow.
GiveUpRestore(r) ==
    LET k == requests[r].hit IN
    /\ Calls(r)
    /\ requests[r].phase = "host"
    /\ k \in Resident(store)
    /\ Len(Unused) >= Len(store.snapshots[k].pages)
    /\ \E d \in Arena :
          RestoreTimesOut(k, d, SubSeq(Unused, 1, Len(store.snapshots[k].pages)))
    /\ Goes(r, [requests[r] EXCEPT !.phase = "attach"])
    /\ UNCHANGED <<banks, calling>>

Prefill(r) ==
    /\ Calls(r)
    /\ requests[r].phase = "prefill"
    /\ PagesSuffice(r, requests[r].prompt)
    /\ LET done == Appended(r, requests[r].prompt) IN
          /\ device' = done.device
          /\ Goes(r, [requests[r] EXCEPT !.phase = "room",
                     !.tokens = requests[r].prompt, !.table = done.table])
    /\ UNCHANGED <<cache_vars, saved, banks, calling>>

\* make_room: under pressure of the device pool, before a restore, a prefill or
\* a round of decoding, the oldest prompt goes first, then the oldest turn.
MakeRoom ==
    /\ Over = {}
    /\ calling # NoSlot => requests[calling].phase \in {"host", "prefill"}
    /\ LET order == banks["prompt"] \o banks["turn"] IN
          order # <<>> /\ DropThroughHost(Head(order))
    /\ UNCHANGED <<requests, calling>>

-----------------------------------------------------------------------------
(* retain, queue_retain, poll_retain, abort_retain. *)

MakeBankRoom(r) ==
    /\ Calls(r)
    /\ requests[r].phase = "room"
    /\ \E d \in InTheWay(requests[r].kind, requests[r].tokens) : DropThroughHost(d)
    /\ UNCHANGED <<requests, calling>>

HasBankRoom(r) ==
    requests[r].phase = "room" /\ InTheWay(requests[r].kind, requests[r].tokens) = {}

RetainNow(r) ==
    /\ Calls(r)
    /\ HasBankRoom(r) /\ ~requests[r].queues
    /\ \E d \in Arena :
          /\ Takeable(d)
          /\ Store(d, MetaOf(r))
          /\ Goes(r, [requests[r] EXCEPT !.phase = "insert", !.buffer = d])
    /\ UNCHANGED <<banks, calling>>

\* A snapshot that cannot be taken is given up; the request goes on.
SkipRetain(r) ==
    /\ Calls(r)
    /\ requests[r].phase = "room"
    /\ Goes(r, IF requests[r].kind = "prompt"
               THEN [requests[r] EXCEPT !.phase = "decode"] ELSE NoRequest)
    /\ calling' = NoSlot
    /\ UNCHANGED <<all_vars, banks>>

\* The copies into the arena buffer run on the lane's stream; the request keeps
\* its pages, and appends nothing, until they are polled.
QueueRetain(r) ==
    /\ Calls(r)
    /\ HasBankRoom(r) /\ requests[r].queues
    /\ \E d \in Arena :
          /\ Takeable(d)
          /\ device' = [device EXCEPT ![d] = OwnBytes(MetaOf(r))]
          /\ Goes(r, [requests[r] EXCEPT !.phase = "queued", !.buffer = d])
    /\ calling' = NoSlot
    /\ UNCHANGED <<cache_vars, saved, banks>>

PollRetain(r) ==
    /\ Idle
    /\ requests[r].phase = "queued"
    /\ Store(requests[r].buffer, MetaOf(r))
    /\ Goes(r, [requests[r] EXCEPT !.phase = "insert"])
    /\ calling' = r
    /\ UNCHANGED banks

AbortLeaks(r) ==
    /\ Idle
    /\ requests[r].phase = "queued"
    /\ Goes(r, NoRequest)
    /\ UNCHANGED <<all_vars, banks, calling>>

AbortRetain(r) ==
    /\ Idle
    /\ requests[r].phase = "queued"
    /\ device' = [device EXCEPT ![requests[r].buffer] = Junk]
    /\ Goes(r, NoRequest)
    /\ UNCHANGED <<cache_vars, saved, banks, calling>>

\* Radix::insert: the value under the same key is replaced, and dropped here.
Insert(r) ==
    LET rq == requests[r]
        same == SameKey(rq.kind, rq.tokens)
    IN  /\ Calls(r)
        /\ rq.phase = "insert"
        /\ banks' = [banks EXCEPT ![rq.kind] =
              Append(IF same = {} THEN @ ELSE RemoveFirst(@, CHOOSE d \in same : TRUE),
                     rq.buffer)]
        /\ saved' = [d \in Arena |-> IF d \in same THEN Empty ELSE saved[d]]
        /\ device' = [x \in DOMAIN device |-> IF x \in same THEN Junk ELSE device[x]]
        /\ Goes(r, IF rq.kind = "prompt" THEN [rq EXCEPT !.phase = "decode", !.buffer = NoSlot]
                   ELSE NoRequest)
        /\ calling' = NoSlot
        /\ UNCHANGED cache_vars

\* The insertion's eviction.
EvictOver ==
    /\ \E n \in Over : DropThroughHost(Head(banks[n]))
    /\ UNCHANGED <<requests, calling>>

-----------------------------------------------------------------------------
(* Decoding and the end of a request. *)

\* One token; a fresh page may be needed even when others are free no more.
Decode(r, t) ==
    /\ Idle
    /\ requests[r].phase = "decode"
    /\ Len(requests[r].tokens) < MAX_TOKENS
    /\ LET tokens == Append(requests[r].tokens, t)
           done == Appended(r, tokens)
       IN  /\ PagesSuffice(r, tokens)
           /\ device' = done.device
           /\ Goes(r, [requests[r] EXCEPT !.tokens = tokens, !.table = done.table])
    /\ UNCHANGED <<cache_vars, saved, banks, calling>>

\* A finished request retains its turn: at a boundary of the serve loop, or on
\* its lane while the other keeps running.
Retire(r, queues) ==
    /\ Idle
    /\ requests[r].phase = "decode"
    /\ queues => Cardinality({q \in Active : requests[q].phase = "queued"}) < Lanes
    /\ ~queues => \A q \in Active : requests[q].phase = "decode"
    /\ Goes(r, [requests[r] EXCEPT !.phase = "room", !.kind = "turn", !.queues = queues])
    /\ calling' = r
    /\ UNCHANGED <<all_vars, banks>>

\* A failed or cancelled request, or one whose snapshot failed.
EndRequest(r) ==
    /\ Idle
    /\ requests[r].phase = "decode"
    /\ Goes(r, NoRequest)
    /\ UNCHANGED <<all_vars, banks, calling>>

\* A page nobody refers to is reused for other rows; the host cache is not told.
ReusePage(id) ==
    /\ id \notin giving_up.target
    /\ \A r \in Active : id \notin ToSet(requests[r].table)
    /\ FreePage(id, FALSE)
    /\ UNCHANGED tier_vars

ObserveCopies ==
    /\ calling # NoSlot => requests[calling].phase = "prefill"
    /\ Over = {}
    /\ TickAny
    /\ UNCHANGED tier_vars

RunStream == CopyNext /\ UNCHANGED tier_vars

TierNext ==
    \/ /\ \/ \E r \in Slot :
             \/ \E p \in Prompts : Admit(r, p)
             \/ AttachDevice(r) \/ HitHost(r) \/ Miss(r)
             \/ RestoreFromHost(r) \/ AbandonRestore(r) \/ Prefill(r)
             \/ MakeBankRoom(r) \/ RetainNow(r) \/ SkipRetain(r) \/ QueueRetain(r)
             \/ PollRetain(r) \/ AbortRetain(r) \/ Insert(r)
             \/ \E t \in Vocabulary : Decode(r, t)
             \/ \E queues \in BOOLEAN : Retire(r, queues)
             \/ EndRequest(r)
          \/ MakeRoom \/ EvictOver
          \/ \E id \in PageId : ReusePage(id)
          \/ ObserveCopies \/ RunStream
       /\ UNCHANGED giving_up
    \/ \E r \in Slot : GiveUpRestore(r)
    \/ (UploadNext \/ ReleaseTarget) /\ UNCHANGED tier_vars

TierSpec == TierInit /\ [][TierNext]_vars

-----------------------------------------------------------------------------
(* Properties. *)

Phases == {"restore", "host", "attach", "prefill", "room", "queued", "insert", "decode"}

TierTypeOK ==
    /\ banks \in [Kind -> Seq(Arena)]
    /\ calling \in Slot \cup {NoSlot}
    /\ \A r \in Active :
          LET rq == requests[r] IN
          /\ rq.phase \in Phases /\ rq.prompt \in Prompts /\ rq.kind \in Kind
          /\ rq.table \in Seq(PageId)
          \* A table has the pages its rows need.
          /\ Len(rq.table) * PAGE_TOKENS - Len(rq.tokens) \in 0..PAGE_TOKENS - 1

Reads(table, tokens) ==
    \A i \in DOMAIN table : Holds(device[table[i]], PageBytes([tokens |-> tokens], i))

\* Every request reads the rows of its own tokens and every retained snapshot
\* those it was taken with, however pages were shared, copied, appended to in
\* place, restored from the host and reused.
TierReadsRight ==
    /\ \A r \in Active : Reads(requests[r].table, requests[r].tokens)
    /\ \A d \in Arena : saved[d] # Empty =>
          /\ device[d] = OwnBytes(saved[d].meta)
          /\ Reads(saved[d].meta.pages, saved[d].meta.tokens)

\* An arena buffer that is not free has exactly one owner: a bank entry of its
\* kind, or one retention in progress; the target of a restore that is given up
\* is nobody's yet.  No path of a retention, an eviction, a replacement or an
\* aborted copy loses a buffer or lists it twice.
BuffersAccounted ==
    /\ \A n \in Kind :
          /\ \A d \in ToSet(banks[n]) : saved[d] # Empty /\ saved[d].meta.kind = n
          /\ \A i, j \in DOMAIN banks[n] :
                saved[banks[n][i]].meta.tokens = saved[banks[n][j]].meta.tokens => i = j
    /\ \A d \in Arena :
          LET owners == {n \in Kind : d \in ToSet(banks[n])}
                           \cup {r \in Active : requests[r].buffer = d}
              free == \/ saved[d] = Empty /\ device[d] \in {Fresh, Junk}
                  \/ d \in giving_up.target
          IN  Cardinality(owners) = IF free THEN 0 ELSE 1

\* A retention or a host restore that is about to take an arena buffer finds
\* one (prefix.rs:246 "two extra arena slots cover both pending copies").
ArenaCoversRetention ==
    \A r \in Active :
        HasBankRoom(r) \/ requests[r].phase = "host" => \E d \in Arena : Takeable(d)

\* A device snapshot is not dropped while its store is in flight: every dropped
\* snapshot passes through the host cache first (prefix.rs:90).
DroppedThroughHost ==
    [][\A d \in Arena :
          saved[d] # Empty /\ saved'[d] = Empty =>
              \A i \in DOMAIN pending' : pending'[i].ticket # saved[d].ticket]_vars

=============================================================================
