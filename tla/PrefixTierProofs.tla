--------------------------- MODULE PrefixTierProofs ---------------------------
(***************************************************************************)
(* The two tiers of snapshots: the cache below is used as its own proofs   *)
(* assume, no arena buffer is lost or given twice, a retention finds one,  *)
(* and what is dropped, what is read and what the host holds stay right,   *)
(* for any numbers of lanes, slots, pages, rows to a page, buffers and     *)
(* snapshots, in every step but those of two kinds, which are named.       *)
(***************************************************************************)
EXTENDS PrefixTier, HostCacheProofs

-----------------------------------------------------------------------------
(* The invariant. *)

RequestRecords ==
    [phase : Phases, prompt : Prompts, tokens : Seq(Vocabulary), table : Seq(PageId),
     hit : Key \cup {NoKey}, kind : Kind, queues : BOOLEAN, buffer : Arena \cup {NoSlot}]

\* A table has the pages its rows need, each once, and none is fresh.
TableOK(table, tokens, dev) ==
    /\ Len(tokens) <= MAX_TOKENS /\ Len(table) = PagesFor(Len(tokens))
    /\ Injective(table)
    /\ \A i \in 1..Len(table) : dev[table[i]] # Fresh

\* What the phase of a request says of its other fields.
PhaseOK(rq) ==
    /\ rq.phase \in {"restore", "host", "attach"} => rq.tokens = <<>>
    /\ rq.phase = "prefill" =>
          Len(rq.tokens) <= Len(rq.prompt) /\ rq.tokens = SubSeq(rq.prompt, 1, Len(rq.tokens))
    /\ rq.phase \in {"restore", "host", "attach", "prefill"} => rq.kind = "prompt" /\ ~rq.queues
    /\ rq.phase \in {"room", "queued", "insert", "decode"} => rq.tokens # <<>>
    /\ rq.phase = "queued" => rq.queues
    /\ rq.buffer # NoSlot <=> rq.phase \in {"queued", "insert"}

RequestOK(rq, dev) ==
    rq \in RequestRecords /\ TableOK(rq.table, rq.tokens, dev) /\ PhaseOK(rq)

RequestsOK ==
    /\ DOMAIN requests = Slot
    /\ \A r \in Slot : requests[r] = NoRequest \/ RequestOK(requests[r], device)

\* Who waits for its copies or decodes.
Elsewhere(r) == requests[r] = NoRequest \/ requests[r].phase \in {"decode", "queued"}

QueuedSlots == {r \in Slot : requests[r].phase = "queued"}

\* At most one request is in a call; the others decode or wait for a copy, and
\* only as many wait as there are lanes left.
CallsOK ==
    /\ calling \in Slot \cup {NoSlot}
    /\ \A r \in Slot : r # calling => Elsewhere(r)
    /\ calling \in Slot => ~Elsewhere(calling)
    /\ calling \in Slot /\ ~requests[calling].queues => QueuedSlots = {}
    /\ Cardinality(QueuedSlots) <= Lanes
    /\ calling \in Slot /\ requests[calling].queues => Cardinality(QueuedSlots) < Lanes

\* A restore that was given up is waited for in the call that made it.
TargetsOK ==
    /\ GivingUpOK
    /\ giving_up.target = {} => giving_up = NoTarget
    /\ giving_up.target # {} => calling \in Slot /\ requests[calling].phase = "attach"
    /\ \A d \in giving_up.target \cap Arena : saved[d] = Empty

\* A retained snapshot is one a request could take, of pages that are not fresh.
SavedOK ==
    \A d \in Arena :
        /\ saved[d].ticket # NoTicket => device[d] # Fresh
        /\ saved[d] # Empty =>
              /\ saved[d].meta \in Meta
              /\ \A i \in 1..Len(saved[d].meta.pages) : device[saved[d].meta.pages[i]] # Fresh

Inserting == {r \in Slot : requests[r].phase = "insert"}

Listed(d) == \E n \in Kind : d \in ToSet(banks[n])

\* A bank lists retained snapshots of its kind, each once and no two with the
\* same tokens.
ListOK(n, list, saves) ==
    /\ list \in Seq(Arena) /\ Injective(list)
    /\ \A d \in ToSet(list) : saves[d] # Empty /\ saves[d].meta.kind = n
    /\ \A d, e \in ToSet(list) : saves[d].meta.tokens = saves[e].meta.tokens => d = e

\* Every retained snapshot is listed, or is about to be.
BanksOK ==
    /\ DOMAIN banks = Kind /\ banks = [n \in Kind |-> banks[n]]
    /\ \A n \in Kind : ListOK(n, banks[n], saved)
    /\ \A d \in Arena : saved[d] # Empty =>
          Listed(d) \/ \E r \in Inserting : requests[r].buffer = d

\* Buffers that requests hold while they are retained.
BuffersOK ==
    /\ \A q, r \in QueuedSlots \cup Inserting : requests[q].buffer = requests[r].buffer => q = r
    /\ \A r \in Inserting :
          LET d == requests[r].buffer IN
          saved[d] # Empty /\ saved[d].meta = MetaOf(r) /\ ~Listed(d)
    /\ \A r \in QueuedSlots :
          LET d == requests[r].buffer IN
          saved[d] = Empty /\ device[d] = OwnBytes(MetaOf(r)) /\ d \notin giving_up.target
    /\ \A d \in Arena : saved[d] = Empty /\ device[d] \notin {Fresh, Junk} =>
          d \in giving_up.target \/ \E r \in QueuedSlots : requests[r].buffer = d

\* No bank is over its limit in a call, but after a restore.
BanksWithinLimit ==
    calling \in Slot /\ requests[calling].phase # "attach" =>
        \A n \in Kind : Len(banks[n]) <= LIMIT

\* Nothing that is copied, or may be, was never written.
WrittenOK(str, mem, dev) ==
    /\ str \in Seq(CopyRecords)
    /\ \A n \in 1..Len(str) : dev[str[n].from] # Fresh
    /\ \A b \in Slab : mem[b] # Fresh

\* A request that hit the host had no device snapshot to use.
HitOK ==
    \A r \in Slot : requests[r].phase = "host" =>
        LET rq == requests[r] IN
        /\ rq.hit \in Key /\ rq.hit < store.next_key /\ plans[rq.hit] = Absent
        /\ rq.hit \in Resident(store) => Skipped(rq.prompt, Tokens(store, rq.hit)) > 0
        /\ \A n \in Kind : \A d \in ToSet(banks[n]) :
              ~(Skipped(rq.prompt, saved[d].meta.tokens) > 0)

TierInv ==
    /\ CacheInv
    /\ DOMAIN device = PageId \cup Arena
    /\ RequestsOK /\ CallsOK /\ TargetsOK
    /\ SavedOK /\ BanksOK /\ BuffersOK /\ BanksWithinLimit
    /\ WrittenOK(stream, memory, device)
    /\ HitOK

-----------------------------------------------------------------------------
(* The pages of a table. *)

\* The quotient and the remainder of a number of tokens.
LEMMA TokenParts ==
    ASSUME NEW n \in Nat
    PROVE  /\ n \div PAGE_TOKENS \in Nat
           /\ n % PAGE_TOKENS \in 0..PAGE_TOKENS - 1
           /\ n = (n \div PAGE_TOKENS) * PAGE_TOKENS + (n % PAGE_TOKENS)
  BY CacheShape, Z3

\* The quotient is determined by the number.
LEMMA QuotientUnique ==
    ASSUME NEW q \in Int, NEW k \in 0..PAGE_TOKENS - 1
    PROVE  (q * PAGE_TOKENS + k) \div PAGE_TOKENS = q
  BY CacheShape, Z3

\* A table of n tokens has a page for each, the last one partly filled when n is not
\* a multiple of the page size.
LEMMA PagesOfTokens ==
    ASSUME NEW n \in Nat
    PROVE  /\ PagesFor(n) \in Nat
           /\ n % PAGE_TOKENS = 0 => PagesFor(n) = n \div PAGE_TOKENS
           /\ n % PAGE_TOKENS # 0 => PagesFor(n) = n \div PAGE_TOKENS + 1
           /\ PagesFor(n) * PAGE_TOKENS - n \in 0..PAGE_TOKENS - 1
<1> DEFINE q == n \div PAGE_TOKENS
           k == n % PAGE_TOKENS
<1>1. q \in Nat /\ k \in 0..PAGE_TOKENS - 1 /\ n = q * PAGE_TOKENS + k
  BY TokenParts
<1> HIDE DEF q, k
<1>2. CASE k = 0
  <2>1. /\ n + PAGE_TOKENS - 1 = q * PAGE_TOKENS + (PAGE_TOKENS - 1)
        /\ PAGE_TOKENS - 1 \in 0..PAGE_TOKENS - 1
    BY <1>1, <1>2, CacheShape, Z3
  <2>2. PagesFor(n) = q
    BY <1>1, <2>1, QuotientUnique DEF PagesFor
  <2>3. q * PAGE_TOKENS - n \in 0..PAGE_TOKENS - 1
    BY <1>1, <1>2, CacheShape, Z3
  <2> QED BY <1>1, <1>2, <2>2, <2>3 DEF q, k
<1>3. CASE k # 0
  <2>1. /\ n + PAGE_TOKENS - 1 = (q + 1) * PAGE_TOKENS + (k - 1)
        /\ k - 1 \in 0..PAGE_TOKENS - 1
    BY <1>1, <1>3, CacheShape, Z3
  <2>2. PagesFor(n) = q + 1
    BY <1>1, <2>1, QuotientUnique DEF PagesFor
  <2>3. (q + 1) * PAGE_TOKENS - n \in 0..PAGE_TOKENS - 1
    BY <1>1, <1>3, CacheShape, Z3
  <2> QED BY <1>1, <1>3, <2>2, <2>3 DEF q, k
<1> QED BY <1>2, <1>3

\* More pages are never fewer tokens apart than a page each.
LEMMA PagesApart ==
    ASSUME NEW x \in Nat, NEW y \in Nat, x < y
    PROVE  x * PAGE_TOKENS + PAGE_TOKENS <= y * PAGE_TOKENS
  BY CacheShape, Z3

\* More tokens need as many pages at least.
LEMMA PagesGrow ==
    ASSUME NEW m \in Nat, NEW n \in Nat, m <= n
    PROVE  /\ PagesFor(m) \in Nat /\ PagesFor(n) \in Nat
           /\ PagesFor(m) <= PagesFor(n)
           /\ n > 0 => PagesFor(n) >= 1
           /\ PagesFor(0) = 0
<1>1. /\ PagesFor(m) \in Nat /\ PagesFor(m) * PAGE_TOKENS - m \in 0..PAGE_TOKENS - 1
      /\ PagesFor(n) \in Nat /\ PagesFor(n) * PAGE_TOKENS - n \in 0..PAGE_TOKENS - 1
      /\ PagesFor(0) \in Nat /\ PagesFor(0) * PAGE_TOKENS - 0 \in 0..PAGE_TOKENS - 1
  BY PagesOfTokens
<1>2. PagesFor(n) < PagesFor(m) =>
          PagesFor(n) * PAGE_TOKENS + PAGE_TOKENS <= PagesFor(m) * PAGE_TOKENS
  BY <1>1, PagesApart
<1>3. 0 < PagesFor(0) => 0 * PAGE_TOKENS + PAGE_TOKENS <= PagesFor(0) * PAGE_TOKENS
  BY <1>1, PagesApart
<1>4. /\ PagesFor(n) * PAGE_TOKENS \in Int /\ PagesFor(m) * PAGE_TOKENS \in Int
      /\ PagesFor(0) * PAGE_TOKENS \in Int /\ 0 * PAGE_TOKENS = 0 /\ PAGE_TOKENS \in Nat \ {0}
  BY <1>1, CacheShape
<1>5. PagesFor(n) = 0 => PagesFor(n) * PAGE_TOKENS = 0
  BY CacheShape
<1> DEFINE x == PagesFor(m) * PAGE_TOKENS
           y == PagesFor(n) * PAGE_TOKENS
           z == PagesFor(0) * PAGE_TOKENS
<1>6. /\ x \in Int /\ y \in Int /\ z \in Int
      /\ x - m \in 0..PAGE_TOKENS - 1 /\ y - n \in 0..PAGE_TOKENS - 1
      /\ z - 0 \in 0..PAGE_TOKENS - 1
      /\ PagesFor(n) < PagesFor(m) => y + PAGE_TOKENS <= x
      /\ 0 < PagesFor(0) => 0 + PAGE_TOKENS <= z
      /\ PagesFor(n) = 0 => y = 0
  BY <1>1, <1>2, <1>3, <1>4, <1>5
<1>7. /\ PagesFor(m) \in Nat /\ PagesFor(n) \in Nat /\ PagesFor(0) \in Nat
      /\ PAGE_TOKENS \in Nat \ {0}
  BY <1>1, <1>4
<1> HIDE DEF x, y, z
<1> QED BY ONLY <1>6, <1>7, m \in Nat, n \in Nat, m <= n

-----------------------------------------------------------------------------
(* Steps of one request. *)

\* What was written stays written.
Aged(dev, dev2) == \A x \in PageId \cup Arena : dev[x] # Fresh => dev2[x] # Fresh

\* A request stays sound while no page is unwritten.
LEMMA RequestAges ==
    ASSUME NEW rq, NEW dev, NEW dev2, RequestOK(rq, dev), Aged(dev, dev2)
    PROVE  RequestOK(rq, dev2)
<1>1. rq.table \in Seq(PageId)
  BY DEF RequestOK, RequestRecords
<1>2. \A i \in 1..Len(rq.table) : rq.table[i] \in PageId
  BY <1>1, SequenceFacts
<1> QED BY <1>2 DEF RequestOK, TableOK, Aged

\* Who takes part in retentions once request r is x.
LEMMA SlotSets ==
    ASSUME RequestsOK, NEW r \in Slot, NEW x, Goes(r, x)
    PROVE  /\ DOMAIN requests' = Slot /\ requests'[r] = x
           /\ \A q \in Slot \ {r} : requests'[q] = requests[q]
           /\ QueuedSlots' = (QueuedSlots \ {r}) \cup (IF x.phase = "queued" THEN {r} ELSE {})
           /\ Inserting' = (Inserting \ {r}) \cup (IF x.phase = "insert" THEN {r} ELSE {})
  BY DEF RequestsOK, Goes, QueuedSlots, Inserting

\* A request is sound or there is none, and the other requests age.
LEMMA RequestsStep ==
    ASSUME RequestsOK, NEW r \in Slot, NEW x, Goes(r, x), Aged(device, device'),
           x = NoRequest \/ RequestOK(x, device')
    PROVE  RequestsOK'
<1>1. /\ DOMAIN requests' = Slot /\ requests'[r] = x
      /\ \A q \in Slot \ {r} : requests'[q] = requests[q]
  BY SlotSets
<1>2. \A q \in Slot \ {r} : requests'[q] = NoRequest \/ RequestOK(requests'[q], device')
  BY <1>1, RequestAges DEF RequestsOK
<1> QED BY <1>1, <1>2 DEF RequestsOK

\* The phases of the request in slot r.
LEMMA PhaseFacts ==
    ASSUME RequestsOK, NEW r \in Slot
    PROVE  /\ requests[r] = NoRequest <=> requests[r].phase = "free"
           /\ requests[r] # NoRequest => RequestOK(requests[r], device)
           /\ r \in Active <=> requests[r] # NoRequest
           /\ requests[r].phase \in Phases \cup {"free"}
<1>1. NoRequest.phase = "free" /\ "free" \notin Phases
  BY DEF NoRequest, Phases
<1>2. RequestOK(requests[r], device) => requests[r].phase \in Phases
  BY DEF RequestOK, RequestRecords
<1> QED BY <1>1, <1>2 DEF RequestsOK, Active

\* Whom the thread works for when a request is in the middle of a call.
LEMMA CalledIs ==
    ASSUME RequestsOK, CallsOK, NEW r \in Slot
    PROVE  /\ requests[r].phase \in Phases \ {"decode", "queued"} => calling = r
           /\ calling = r => requests[r].phase \in Phases \ {"decode", "queued"}
           /\ calling = NoSlot => requests[r].phase \in {"free", "decode", "queued"}
           /\ NoSlot \notin Slot
<1>1. requests[r] = NoRequest <=> requests[r].phase = "free"
  BY PhaseFacts
<1>2. requests[r].phase \in Phases \cup {"free"} /\ "free" \notin Phases /\ NoSlot \notin Slot
  BY PhaseFacts, TierShape DEF Phases
<1> QED BY <1>1, <1>2 DEF CallsOK, Elsewhere

Away(x) == x = NoRequest \/ x.phase \in {"decode", "queued"}

\* At most one call goes on when request r starts, goes on with or ends one.
LEMMA CallsStep ==
    ASSUME RequestsOK, CallsOK, NEW r \in Slot, calling \in {r, NoSlot}, NEW x, Goes(r, x),
           \/ /\ calling' = r /\ ~Away(x)
              /\ x.queues => Cardinality(QueuedSlots') < Lanes
              /\ ~x.queues => QueuedSlots' = {}
           \/ calling' = NoSlot /\ Away(x),
           Cardinality(QueuedSlots') <= Lanes
    PROVE  CallsOK'
<1>1. /\ requests'[r] = x
      /\ \A q \in Slot \ {r} : requests'[q] = requests[q]
  BY SlotSets
<1>2. NoSlot \notin Slot
  BY TierShape
<1> QED BY <1>1, <1>2 DEF CallsOK, Elsewhere, Away

-----------------------------------------------------------------------------
(* Steps that change nothing of what is retained. *)

\* Only the order of the banks' entries changes.
Reordered ==
    /\ DOMAIN banks' = Kind /\ banks' = [n \in Kind |-> banks'[n]]
    /\ \A n \in Kind : ListOK(n, banks'[n], saved) /\ ToSet(banks'[n]) = ToSet(banks[n])

\* The buffers hold what they did.
SameBuffers ==
    /\ saved' = saved /\ DOMAIN device' = PageId \cup Arena
    /\ \A d \in Arena : device'[d] = device[d]
    /\ Aged(device, device')
    /\ UNCHANGED <<stream, memory>>

\* What is retained stays what it was.
LEMMA SavedAges ==
    ASSUME SavedOK, saved' = saved, Aged(device, device')
    PROVE  SavedOK'
<1>1. \A d \in Arena : saved[d] # Empty => saved[d].meta.pages \in Seq(PageId)
  BY MetaShape DEF SavedOK
<1>2. \A d \in Arena : saved[d] # Empty =>
          \A i \in 1..Len(saved[d].meta.pages) : saved[d].meta.pages[i] \in PageId
  BY <1>1, SequenceFacts
<1> QED BY <1>2 DEF SavedOK, Aged

\* What is to be copied stays written.
LEMMA WrittenAges ==
    ASSUME WrittenOK(stream, memory, device), Aged(device, device'),
           UNCHANGED <<stream, memory>>
    PROVE  WrittenOK(stream, memory, device)'
<1>1. stream \in Seq(CopyRecords)
  BY DEF WrittenOK
<1>2. \A n \in 1..Len(stream) : stream[n] \in CopyRecords
  BY <1>1, SequenceFacts
<1>3. \A n \in 1..Len(stream) : stream[n].from \in PageId \cup Arena
  BY <1>2 DEF CopyRecords
<1> QED BY <1>3 DEF WrittenOK, Aged

\* The banks and buffers stay accounted for while a request that holds no buffer
\* goes on.
LEMMA QuietKeeps ==
    ASSUME TierInv, NEW r \in Slot, NEW x, Goes(r, x),
           x = NoRequest \/ RequestOK(x, device'),
           requests[r].phase \notin {"queued", "insert"}, x.phase \notin {"queued", "insert"},
           SameBuffers, Reordered, giving_up'.target \cap Arena = giving_up.target \cap Arena
                                   \/ (giving_up.target = {} /\ QueuedSlots = {})
    PROVE  /\ RequestsOK' /\ SavedOK' /\ BanksOK' /\ BuffersOK'
           /\ WrittenOK(stream, memory, device)'
           /\ QueuedSlots' = QueuedSlots /\ Inserting' = Inserting
<1>1. RequestsOK' /\ SavedOK' /\ WrittenOK(stream, memory, device)'
  BY RequestsStep, SavedAges, WrittenAges DEF TierInv, SameBuffers
<1>2. /\ \A q \in Slot \ {r} : requests'[q] = requests[q]
      /\ QueuedSlots' = QueuedSlots /\ Inserting' = Inserting
      /\ r \notin QueuedSlots /\ r \notin Inserting
      /\ QueuedSlots \subseteq Slot /\ Inserting \subseteq Slot
  <2>1. r \notin QueuedSlots /\ r \notin Inserting
    BY DEF QueuedSlots, Inserting
  <2> QED BY <2>1, SlotSets DEF TierInv, QueuedSlots, Inserting
<1>3. \A d \in Arena : Listed(d)' <=> Listed(d)
  BY DEF Listed, Reordered
<1>4. BanksOK'
  BY <1>2, <1>3 DEF TierInv, BanksOK, Reordered, SameBuffers
<1>5. BuffersOK'
  <2>1. \A q \in QueuedSlots \cup Inserting : requests'[q] = requests[q] /\ MetaOf(q)' = MetaOf(q)
    BY <1>2 DEF MetaOf
  <2>2. \A q \in QueuedSlots \cup Inserting : requests[q].buffer \in Arena
    <3> TAKE q \in QueuedSlots \cup Inserting
    <3>1. requests[q].phase \in {"queued", "insert"} /\ q \in Slot
      BY DEF QueuedSlots, Inserting
    <3>2. RequestOK(requests[q], device)
      BY <3>1, PhaseFacts DEF TierInv
    <3> QED BY <3>1, <3>2 DEF RequestOK, PhaseOK, RequestRecords
  <2> QED BY <1>2, <1>3, <2>1, <2>2 DEF TierInv, BuffersOK, SameBuffers
<1> QED BY <1>1, <1>2, <1>4, <1>5

\* A step of the calls alone, with the rest of the invariant unchanged.
LEMMA UnchangedCache ==
    ASSUME TierInv, UNCHANGED all_vars
    PROVE  /\ CacheInv' /\ DOMAIN device' = PageId \cup Arena
           /\ SameBuffers /\ Aged(device, device') /\ giving_up' = giving_up
<1>1. UNCHANGED <<store, plans, pending, next_ticket, payloads, held, settled, saved>>
  BY DEF all_vars, cache_vars, engine_vars
<1>2. CacheInv'
  BY <1>1, SameCache DEF TierInv
<1> QED BY <1>2 DEF TierInv, SameBuffers, Aged, all_vars, cache_vars, engine_vars

\* Banks that stay as they are.
LEMMA UnchangedBanks == ASSUME TierInv, banks' = banks PROVE Reordered
  BY DEF TierInv, BanksOK, Reordered

\* No restore that was given up is waited for.
LEMMA NoTargetOK ==
    ASSUME giving_up' = NoTarget
    PROVE  TargetsOK'
<1>1. NoTarget = [uploads |-> <<>>, target |-> {}]
  BY DEF NoTarget
<1>2. <<>> \in Seq(UploadRecords) /\ Len(<<>>) = 0
  OBVIOUS
<1> QED BY <1>1, <1>2 DEF TargetsOK, GivingUpOK

\* A request in a call is the only one that may have hit the host.
LEMMA NoHit ==
    ASSUME TierInv, NEW r \in Slot, calling \in {r, NoSlot}, NEW x, Goes(r, x), x.phase # "host"
    PROVE  HitOK'
<1>1. /\ requests'[r] = x
      /\ \A q \in Slot \ {r} : requests'[q] = requests[q]
  BY SlotSets DEF TierInv
<1>2. \A q \in Slot \ {r} : requests[q].phase # "host"
  BY CalledIs, TierShape DEF TierInv, Phases
<1> QED BY <1>1, <1>2 DEF HitOK

\* Every request that a call serves.
LEMMA CallFacts ==
    ASSUME TierInv, NEW r \in Slot, Calls(r)
    PROVE  /\ calling = r /\ giving_up = NoTarget /\ giving_up.target = {}
           /\ RequestOK(requests[r], device)
           /\ requests[r].phase \in Phases \ {"decode", "queued"}
           /\ \A n \in Kind : Len(banks[n]) \in Nat /\ Len(banks[n]) <= LIMIT
<1>1. requests[r].phase \in Phases \ {"decode", "queued"}
  BY CalledIs DEF TierInv, Calls
<1>2. RequestOK(requests[r], device)
  BY <1>1, PhaseFacts DEF TierInv, Phases
<1>3. NoTarget.target = {}
  BY DEF NoTarget
<1>4. \A n \in Kind : Len(banks[n]) \in Nat
  BY DEF TierInv, BanksOK, ListOK
<1>5. \A n \in Kind : Len(banks[n]) <= LIMIT
  BY <1>4, TierShape DEF Calls, Over
<1> QED BY <1>1, <1>2, <1>3, <1>4, <1>5 DEF Calls

\* Between calls.
LEMMA IdleFacts ==
    ASSUME TierInv, Idle
    PROVE  /\ calling = NoSlot /\ giving_up = NoTarget /\ giving_up.target = {}
           /\ \A r \in Slot : requests[r].phase \in {"free", "decode", "queued"}
           /\ \A n \in Kind : Len(banks[n]) \in Nat /\ Len(banks[n]) <= LIMIT
<1>1. calling = NoSlot /\ NoSlot \notin Slot
  BY TierShape DEF Idle
<1>2. giving_up.target = {} /\ giving_up = NoTarget
  BY <1>1 DEF TierInv, TargetsOK
<1>3. \A r \in Slot : requests[r].phase \in {"free", "decode", "queued"}
  BY <1>1, CalledIs DEF TierInv
<1>4. \A n \in Kind : Len(banks[n]) \in Nat
  BY DEF TierInv, BanksOK, ListOK
<1>5. \A n \in Kind : Len(banks[n]) <= LIMIT
  BY <1>4, TierShape DEF Idle, Over
<1> QED BY <1>1, <1>2, <1>3, <1>4, <1>5

\* A call that changes nothing retained goes on, with banks in the limit.
LEMMA QuietStep ==
    ASSUME TierInv, NEW r \in Slot, calling \in {r, NoSlot}, NEW x, Goes(r, x),
           x = NoRequest \/ RequestOK(x, device'),
           requests[r].phase \notin {"queued", "insert"},
           x.phase \notin {"queued", "insert", "host"},
           CacheInv', SameBuffers, Reordered, \A n \in Kind : Len(banks'[n]) <= LIMIT,
           giving_up = NoTarget, giving_up' = NoTarget,
           \/ /\ calling' = r /\ ~Away(x)
              /\ x.queues => Cardinality(QueuedSlots) < Lanes
              /\ ~x.queues => QueuedSlots = {}
           \/ calling' = NoSlot /\ Away(x)
    PROVE  TierInv'
<1>1. /\ RequestsOK' /\ SavedOK' /\ BanksOK' /\ BuffersOK'
      /\ WrittenOK(stream, memory, device)'
      /\ QueuedSlots' = QueuedSlots /\ Inserting' = Inserting
  BY QuietKeeps
<1>2. CallsOK'
  BY <1>1, CallsStep DEF TierInv, CallsOK
<1>3. TargetsOK' /\ HitOK'
  BY NoTargetOK, NoHit
<1>4. BanksWithinLimit'
  BY DEF BanksWithinLimit
<1> QED BY <1>1, <1>2, <1>3, <1>4 DEF TierInv, SameBuffers

-----------------------------------------------------------------------------
(* Admission. *)

\* No request waits for a copy while all decode.
LEMMA NoneQueued ==
    ASSUME RequestsOK, \A q \in Active : requests[q].phase = "decode"
    PROVE  QueuedSlots = {}
  BY PhaseFacts DEF QueuedSlots, Active

\* The request of a new prompt is sound.
LEMMA AdmitKeeps ==
    ASSUME TierInv, NEW r \in Slot, NEW p \in Prompts, Admit(r, p), giving_up' = giving_up
    PROVE  TierInv'
<1> DEFINE x == [phase |-> "restore", prompt |-> p, tokens |-> <<>>, table |-> <<>>,
                 hit |-> NoKey, kind |-> "prompt", queues |-> FALSE, buffer |-> NoSlot]
<1>1. /\ Idle /\ requests[r] = NoRequest /\ calling' = r /\ Goes(r, x)
      /\ \A q \in Active : requests[q].phase = "decode"
      /\ UNCHANGED all_vars /\ banks' = banks
  BY DEF Admit
<1>2. x \in RequestRecords
  BY DEF RequestRecords, Phases, Kind
<1>3. RequestOK(x, device')
  <2>1. TableOK(<<>>, <<>>, device')
    <3>1. PagesFor(0) = 0 /\ Len(<<>>) = 0
      BY PagesGrow
    <3> QED BY <3>1, TierShape DEF TableOK, Injective
  <2>2. PhaseOK(x)
    BY DEF PhaseOK
  <2> QED BY <1>2, <2>1, <2>2 DEF RequestOK
<1>4. QueuedSlots = {}
  BY <1>1, NoneQueued DEF TierInv
<1>5. CacheInv' /\ SameBuffers /\ giving_up' = giving_up /\ Reordered
  BY <1>1, UnchangedCache, UnchangedBanks
<1>6. calling = NoSlot /\ giving_up = NoTarget /\ \A n \in Kind : Len(banks[n]) <= LIMIT
  BY <1>1, IdleFacts
<1>7. /\ x.phase = "restore" /\ ~Away(x) /\ ~x.queues /\ requests[r].phase = "free"
  BY <1>1, NoneQueued DEF Away, NoRequest
<1> HIDE DEF x
<1> QED BY <1>1, <1>3, <1>4, <1>5, <1>6, <1>7, QuietStep

-----------------------------------------------------------------------------
(* The engine's reuse rule. *)

\* Two lists of tokens have a longest common prefix.
LEMMA CommonFacts ==
    ASSUME NEW S, NEW p \in Seq(S), NEW t \in Seq(S)
    PROVE  LET c == LongestCommonPrefix({p, t}) IN
           /\ Len(c) \in Nat /\ Len(c) <= Len(p) /\ Len(c) <= Len(t)
           /\ c = SubSeq(p, 1, Len(c)) /\ c = SubSeq(t, 1, Len(c))
<1> DEFINE CP == CommonPrefixes({p, t})
           L == {Len(q) : q \in CP}
<1>1. \A q \in CP : /\ Len(q) \in Nat /\ Len(q) <= Len(p) /\ Len(q) <= Len(t)
                    /\ q = SubSeq(p, 1, Len(q)) /\ q = SubSeq(t, 1, Len(q))
  <2> TAKE q \in CP
  <2>1. IsPrefix(q, p) /\ IsPrefix(q, t) /\ q \in Prefixes(p) \cup Prefixes(t)
    BY DEF CommonPrefixes
  <2>2. PICK s \in {p, t} : \E l \in 0..Len(s) : q = SubSeq(s, 1, l)
    BY <2>1 DEF Prefixes
  <2>3. q \in Seq(S) /\ Len(q) \in Nat
    BY <2>2, CutFacts, SequenceFacts
  <2>4. SubSeq(q, 1, Len(q)) = q
    BY <2>3
  <2> QED BY <2>1, <2>3, <2>4 DEF IsPrefix
<1>2. <<>> \in CP
  <2>1. Len(p) \in Nat /\ Len(t) \in Nat
    BY SequenceFacts
  <2>2. SubSeq(p, 1, 0) = <<>> /\ SubSeq(t, 1, 0) = <<>> /\ Len(<<>>) = 0
        /\ SubSeq(<<>>, 1, 0) = <<>>
    OBVIOUS
  <2>3. <<>> \in Prefixes(p)
    BY <2>1, <2>2 DEF Prefixes
  <2>4. IsPrefix(<<>>, p) /\ IsPrefix(<<>>, t)
    BY <2>1, <2>2 DEF IsPrefix
  <2> QED BY <2>3, <2>4 DEF CommonPrefixes
<1>3. L \in SUBSET Nat /\ L # {} /\ Len(p) \in Nat /\ \A y \in L : y <= Len(p)
  <2> HIDE DEF CP
  <2> QED BY <1>1, <1>2, SequenceFacts
<1>4. Max(L) \in L /\ \A y \in L : Max(L) >= y
  BY <1>3, MaxProperties
<1>5. PICK b \in CP : Len(b) = Max(L)
  BY <1>4
<1>6. \A q \in CP : Len(q) <= Len(b)
  BY <1>1, <1>4, <1>5
<1>7. LongestCommonPrefix({p, t}) \in CP
  BY <1>6 DEF LongestCommonPrefix
<1> QED BY <1>1, <1>7

\* The greater of zero and a number.
LEMMA MaxZero ==
    ASSUME NEW a \in Int
    PROVE  Max({0, a}) = IF a > 0 THEN a ELSE 0
  BY DEF Max

\* An even number of tokens at most n.
LEMMA Halves ==
    ASSUME NEW n \in Nat
    PROVE  (n \div 2) * 2 \in Nat /\ (n \div 2) * 2 <= n
  OBVIOUS

\* What a snapshot saves is at most what it shares with the prompt, and none of it is
\* made up.
LEMMA ReuseFacts ==
    ASSUME NEW S, NEW p \in Seq(S), NEW t \in Seq(S)
    PROVE  /\ Skipped(p, t) \in 0..Len(p)
           /\ Reused(p, t) \in 0..Len(p) /\ Reused(p, t) <= Len(t)
           /\ SubSeq(p, 1, Reused(p, t)) = SubSeq(t, 1, Reused(p, t))
           /\ t = p => Reused(p, t) = Len(p)
<1> DEFINE c == LongestCommonPrefix({p, t})
<1>1. /\ Len(c) \in Nat /\ Len(c) <= Len(p) /\ Len(c) <= Len(t)
      /\ c = SubSeq(p, 1, Len(c)) /\ c = SubSeq(t, 1, Len(c))
  BY CommonFacts
<1>2. Len(p) \in Nat /\ Len(t) \in Nat
  BY SequenceFacts
<1>3. /\ Skipped(p, t) = IF Len(c) = Len(t) THEN Len(c)
                         ELSE Max({0, (Len(c) \div 2) * 2 - REPLAY})
      /\ Reused(p, t) = IF Len(c) = Len(t) THEN Len(c) ELSE (Len(c) \div 2) * 2
  BY DEF Skipped, Reused
<1>4. (Len(c) \div 2) * 2 \in Nat /\ (Len(c) \div 2) * 2 <= Len(c)
  BY <1>1, Halves
<1>5. t = p => Len(c) = Len(p)
  <2> SUFFICES ASSUME t = p PROVE Len(c) = Len(p)
    OBVIOUS
  <2>1. p \in CommonPrefixes({p, t})
    <3>1. SubSeq(p, 1, Len(p)) = p
      BY <1>2
    <3>2. p \in Prefixes(p)
      <4>1. Len(p) \in 0..Len(p)
        BY <1>2
      <4> QED BY <3>1, <4>1, Zenon DEF Prefixes
    <3>3. IsPrefix(p, p)
      BY <1>2 DEF IsPrefix
    <3> QED BY <3>2, <3>3 DEF CommonPrefixes
  <2>2. \A q \in CommonPrefixes({p, t}) : Len(q) <= Len(p)
    BY DEF CommonPrefixes, IsPrefix
  <2>3. \E q \in CommonPrefixes({p, t}) :
            \A o \in CommonPrefixes({p, t}) : Len(o) <= Len(q)
    BY <2>1, <2>2
  <2>4. \A o \in CommonPrefixes({p, t}) : Len(o) <= Len(c)
    BY <2>3 DEF LongestCommonPrefix
  <2>5. Len(p) <= Len(c)
    BY <2>1, <2>4
  <2> HIDE DEF c
  <2> QED BY <1>1, <1>2, <2>5
<1> DEFINE m == Len(c)
           e == (m \div 2) * 2
<1>6. m \in Nat /\ e \in Nat /\ e <= m
  BY <1>1, <1>4
<1>7. Max({0, e - REPLAY}) \in 0..m
  <2>1. e - REPLAY \in Int /\ REPLAY \in Nat
    BY <1>6, TierShape
  <2> HIDE DEF m, e
  <2> QED BY <1>6, <2>1, MaxZero
<1>8. SubSeq(p, 1, m) = SubSeq(t, 1, m)
  BY <1>1
<1>9. SubSeq(p, 1, e) = SubSeq(t, 1, e)
  <2> HIDE DEF e, m
  <2>1. m <= Len(p) /\ m <= Len(t)
    BY <1>1 DEF m
  <2>2. \A i \in 1..m : p[i] = t[i]
    BY <1>2, <1>6, <1>8, <2>1, CutFacts
  <2> QED BY <1>2, <1>6, <2>1, <2>2
<1> HIDE DEF c, m, e
<1>10. /\ Skipped(p, t) = IF m = Len(t) THEN m ELSE Max({0, e - REPLAY})
       /\ Reused(p, t) = IF m = Len(t) THEN m ELSE e
       /\ m <= Len(p) /\ m <= Len(t) /\ (t = p => m = Len(p))
  BY <1>1, <1>3, <1>5 DEF m, e
<1> QED BY <1>2, <1>6, <1>7, <1>8, <1>9, <1>10

\* Best finds an entry if any saves something.
LEMMA BestFound ==
    ASSUME NEW S, NEW p \in Seq(S), NEW entries, \A e \in entries : e.tokens \in Seq(S),
           NEW w \in entries, Skipped(p, w.tokens) > 0
    PROVE  Best(p, entries) # {}
<1> DEFINE G == {Skipped(p, e.tokens) : e \in entries}
<1>1. Len(p) \in Nat /\ \A e \in entries : Skipped(p, e.tokens) \in 0..Len(p)
  BY ReuseFacts, SequenceFacts
<1>2. Max(G) \in G /\ \A y \in G : Max(G) >= y
  <2>1. G \in SUBSET Nat /\ G # {} /\ \A y \in G : y <= Len(p)
    BY <1>1
  <2> QED BY <1>1, <2>1, MaxProperties
<1> DEFINE T == {e \in entries : Skipped(p, e.tokens) = Max(G)}
<1>3. PICK a \in T : TRUE
  BY <1>2
<1>4. \E e \in T : (\E f \in T : f.kind = "turn") => e.kind = "turn"
  BY <1>3
<1>5. PICK e \in T : (\E f \in T : f.kind = "turn") => e.kind = "turn"
  BY <1>4
<1> HIDE DEF G
<1>7. Skipped(p, e.tokens) = Max(G) /\ e \in entries
  BY <1>5
<1>8. \A f \in entries : Skipped(p, f.tokens) \in Nat /\ Skipped(p, f.tokens) <= Max(G)
  BY <1>1, <1>2 DEF G
<1>9. /\ e \in entries /\ Skipped(p, e.tokens) > 0
      /\ \A f \in entries : \/ Skipped(p, f.tokens) < Skipped(p, e.tokens)
                            \/ /\ Skipped(p, f.tokens) = Skipped(p, e.tokens)
                               /\ f.kind = "turn" => e.kind = "turn"
  BY <1>5, <1>7, <1>8
<1> QED BY <1>9 DEF Best

-----------------------------------------------------------------------------
(* The banks' lists. *)

\* A list without repetition is as long as its set of members is large.
LEMMA DistinctLen ==
    ASSUME NEW S, NEW s \in Seq(S), Injective(s)
    PROVE  IsFiniteSet(ToSet(s)) /\ Cardinality(ToSet(s)) = Len(s) /\ Len(s) \in Nat
<1>1. /\ Len(s) \in Nat /\ DOMAIN s = 1..Len(s)
      /\ IsFiniteSet(DOMAIN s) /\ Cardinality(DOMAIN s) = Len(s)
      /\ ToSet(s) = {s[i] : i \in 1..Len(s)}
  BY SequenceFacts
<1>2. s \in [1..Len(s) -> ToSet(s)]
  BY <1>1
<1>3. \A x, y \in 1..Len(s) : s[x] = s[y] => x = y
  BY DEF Injective
<1>4. \A z \in ToSet(s) : \E x \in 1..Len(s) : s[x] = z
  BY <1>1
<1>5. IsFiniteSet(1..Len(s)) /\ Cardinality(1..Len(s)) = Len(s)
  BY <1>1
<1> HIDE DEF Injective
<1> QED BY <1>1, <1>2, <1>3, <1>4, <1>5, SameCount

\* A list in which d is accessed has the same members and length.
LEMMA ListAccessed ==
    ASSUME NEW n, NEW list, NEW saves, ListOK(n, list, saves), NEW d \in ToSet(list)
    PROVE  /\ ListOK(n, Accessed(list, d), saves)
           /\ ToSet(Accessed(list, d)) = ToSet(list)
           /\ Len(Accessed(list, d)) = Len(list)
<1>1. list \in Seq(Arena) /\ Injective(list) /\ d \in Arena
  BY SeqSet DEF ListOK
<1> DEFINE t == RemoveFirst(list, d)
<1>2. t \in Seq(Arena) /\ ToSet(t) = ToSet(list) \ {d} /\ Injective(t)
  BY <1>1, RemoveFirstFacts
<1>3. /\ Append(t, d) \in Seq(Arena) /\ ToSet(Append(t, d)) = ToSet(list)
      /\ Injective(Append(t, d))
  <2> HIDE DEF t
  <2>1. /\ Append(t, d) \in Seq(Arena) /\ ToSet(Append(t, d)) = ToSet(t) \cup {d}
        /\ d \notin ToSet(t) => Injective(Append(t, d))
    BY <1>1, <1>2, AppendFacts
  <2> QED BY <1>2, <2>1
<1>4. Len(Append(t, d)) = Len(list)
  BY <1>1, <1>3, DistinctLen
<1> QED BY <1>3, <1>4 DEF ListOK, Accessed

\* A list from which d is taken, and whose buffer is empty now.
LEMMA ListRemoved ==
    ASSUME NEW n, NEW list, NEW saves, NEW saves2, ListOK(n, list, saves), NEW d,
           \A e \in Arena \ {d} : saves2[e] = saves[e]
    PROVE  LET t == RemoveFirst(list, d) IN
           /\ ListOK(n, t, saves2) /\ ToSet(t) = ToSet(list) \ {d}
           /\ Len(t) \in Nat /\ Len(t) <= Len(list)
           /\ d \in ToSet(list) => Len(t) = Len(list) - 1
<1>1. list \in Seq(Arena) /\ Injective(list) /\ ToSet(list) \subseteq Arena
  BY SeqSet DEF ListOK
<1> DEFINE t == RemoveFirst(list, d)
<1>2. t \in Seq(Arena) /\ ToSet(t) = ToSet(list) \ {d} /\ Injective(t)
  BY <1>1, RemoveFirstFacts
<1>3. ListOK(n, t, saves2)
  BY <1>1, <1>2 DEF ListOK
<1>4. /\ Len(list) = Cardinality(ToSet(list)) /\ Len(t) = Cardinality(ToSet(t))
      /\ IsFiniteSet(ToSet(list)) /\ Len(list) \in Nat /\ Len(t) \in Nat
  BY <1>1, <1>2, DistinctLen
<1>5. CASE d \in ToSet(list)
  <2>1. Cardinality(ToSet(list) \ {d}) = Cardinality(ToSet(list)) - 1
    BY <1>4, <1>5, FS_RemoveElement
  <2> QED BY <1>2, <1>3, <1>4, <1>5, <2>1
<1>6. CASE d \notin ToSet(list)
  <2>1. ToSet(t) = ToSet(list)
    BY <1>2, <1>6
  <2> HIDE DEF t
  <2>2. Len(t) = Len(list)
    BY <1>4, <2>1
  <2> QED BY <1>2, <1>3, <1>4, <1>6, <2>2 DEF t
<1> QED BY <1>5, <1>6

\* A list that d joins, with tokens no other entry has.
LEMMA ListAppended ==
    ASSUME NEW n, NEW list, NEW saves, NEW saves2, ListOK(n, list, saves),
           NEW d \in Arena, d \notin ToSet(list),
           \A e \in ToSet(list) : saves2[e] = saves[e],
           saves2[d] # Empty, saves2[d].meta.kind = n,
           \A e \in ToSet(list) : saves[e].meta.tokens # saves2[d].meta.tokens
    PROVE  LET t == Append(list, d) IN
           ListOK(n, t, saves2) /\ ToSet(t) = ToSet(list) \cup {d} /\ Len(t) = Len(list) + 1
<1>1. list \in Seq(Arena) /\ Injective(list)
  BY DEF ListOK
<1>2. /\ Append(list, d) \in Seq(Arena) /\ ToSet(Append(list, d)) = ToSet(list) \cup {d}
      /\ Injective(Append(list, d))
  BY <1>1, AppendFacts
<1>3. Len(Append(list, d)) = Len(list) + 1
  BY <1>1
<1> QED BY <1>2, <1>3 DEF ListOK

\* A retained snapshot that a bank lists.
LEMMA ListedFacts ==
    ASSUME TierInv, NEW n \in Kind, NEW d \in ToSet(banks[n])
    PROVE  /\ d \in Arena /\ saved[d] # Empty /\ saved[d].meta \in Meta
           /\ saved[d].meta.kind = n /\ saved[d].meta.tokens \in Seq(Nat)
           /\ \A m \in Kind : d \in ToSet(banks[m]) => m = n
<1>1. ListOK(n, banks[n], saved) /\ \A m \in Kind : ListOK(m, banks[m], saved)
  BY DEF TierInv, BanksOK
<1>2. d \in Arena /\ saved[d] # Empty /\ saved[d].meta.kind = n
  BY <1>1, SeqSet DEF ListOK
<1>3. \A m \in Kind : d \in ToSet(banks[m]) => saved[d].meta.kind = m
  BY <1>1 DEF ListOK
<1>4. saved[d].meta \in Meta
  BY <1>2 DEF TierInv, SavedOK
<1> QED BY <1>2, <1>3, <1>4, MetaShape

\* The entries of the device banks.
LEMMA DeviceEntryFacts ==
    ASSUME TierInv, NEW e \in DeviceEntries
    PROVE  /\ e.at \in Arena /\ e.kind \in Kind /\ e.at \in ToSet(banks[e.kind])
           /\ saved[e.at] # Empty /\ saved[e.at].meta \in Meta
           /\ e.tokens = saved[e.at].meta.tokens /\ e.tokens \in Seq(Nat)
<1>1. PICK d \in UNION {ToSet(banks[n]) : n \in Kind} :
          e = [at |-> d, kind |-> saved[d].meta.kind, tokens |-> saved[d].meta.tokens]
  BY DEF DeviceEntries
<1>2. PICK n \in Kind : d \in ToSet(banks[n])
  BY <1>1
<1>3. /\ d \in Arena /\ saved[d] # Empty /\ saved[d].meta \in Meta
      /\ saved[d].meta.kind = n /\ saved[d].meta.tokens \in Seq(Nat)
  BY <1>2, ListedFacts
<1>4. e.at = d /\ e.kind = saved[d].meta.kind /\ e.tokens = saved[d].meta.tokens
  BY <1>1
<1> QED BY <1>2, <1>3, <1>4

\* A snapshot as the rest of the model reads it.
LEMMA MetaFacts ==
    ASSUME NEW m \in Meta
    PROVE  /\ m.kind \in Kind /\ m.tokens \in Seq(Nat) /\ m.tokens # <<>>
           /\ m.pages \in Seq(PageId) /\ Injective(m.pages)
           /\ Len(m.tokens) \in Nat /\ Len(m.tokens) > 0
           /\ Len(m.pages) = PagesFor(Len(m.tokens))
<1>1. /\ m \in [kind : Kind, tokens : Seq(Nat), pages : Seq(PageId), parts : Nat]
      /\ m.tokens # <<>> /\ \A i, j \in DOMAIN m.pages : m.pages[i] = m.pages[j] => i = j
  BY MetaShape
<1>2. DOMAIN m.pages = 1..Len(m.pages) /\ Len(m.tokens) \in Nat
  BY <1>1, SequenceFacts
<1>3. Len(m.pages) = PagesFor(Len(m.tokens))
  BY CacheShape DEF PagesFor
<1>4. m.tokens # <<>> => Len(m.tokens) # 0
  BY <1>1
<1> QED BY <1>1, <1>2, <1>3, <1>4 DEF Injective

\* A prompt as the rest of the model reads it.
LEMMA PromptFacts ==
    ASSUME NEW p \in Prompts
    PROVE  /\ p \in Seq(Vocabulary) /\ p \in Seq(Nat)
           /\ Len(p) \in 1..MAX_TOKENS /\ p # <<>>
<1>1. PICK n \in 1..MAX_TOKENS : p \in [1..n -> Vocabulary]
  BY TierShape
<1>2. n \in Nat /\ n > 0 /\ MAX_TOKENS \in Nat /\ Vocabulary \subseteq Nat
  BY TierShape
<1>3. p \in Seq(Vocabulary) /\ Len(p) = n
  BY <1>1, <1>2
<1>4. p \in Seq(Nat)
  <2>1. p \in [1..n -> Nat]
    BY <1>1, <1>2
  <2> QED BY <1>2, <2>1
<1> QED BY <1>2, <1>3, <1>4

-----------------------------------------------------------------------------
(* Hits and misses. *)

\* The request of a device hit reads the pages it reuses.
LEMMA AttachedOK ==
    ASSUME TierInv, NEW rq \in RequestRecords, RequestOK(rq, device),
           rq.phase \in {"restore", "attach"},
           NEW m \in Meta, \A i \in 1..Len(m.pages) : device[m.pages[i]] # Fresh,
           Skipped(rq.prompt, m.tokens) > 0,
           NEW x, x = [rq EXCEPT !.phase = IF m.tokens = rq.prompt THEN "decode" ELSE "prefill",
                                 !.tokens = SubSeq(rq.prompt, 1, Reused(rq.prompt, m.tokens)),
                                 !.table = SubSeq(m.pages, 1,
                                               PagesFor(Reused(rq.prompt, m.tokens)))]
    PROVE  RequestOK(x, device)
<1> DEFINE p == rq.prompt
           n == Reused(p, m.tokens)
           k == PagesFor(n)
<1>1. /\ p \in Prompts /\ p \in Seq(Vocabulary) /\ p \in Seq(Nat)
      /\ Len(p) \in 1..MAX_TOKENS /\ p # <<>>
  BY PromptFacts DEF RequestRecords
<1>2. /\ m.tokens \in Seq(Nat) /\ m.pages \in Seq(PageId) /\ Injective(m.pages)
      /\ Len(m.tokens) \in Nat /\ Len(m.pages) = PagesFor(Len(m.tokens))
  BY MetaFacts
<1>3. n \in 0..Len(p) /\ n <= Len(m.tokens) /\ (m.tokens = p => n = Len(p))
  BY <1>1, <1>2, ReuseFacts
<1>4. k \in Nat /\ k <= Len(m.pages)
  BY <1>2, <1>3, PagesGrow
<1> DEFINE tokens == SubSeq(p, 1, n)
           table == SubSeq(m.pages, 1, k)
<1>5. tokens \in Seq(Vocabulary) /\ Len(tokens) = n
  BY <1>1, <1>3, CutFacts
<1>6. /\ table \in Seq(PageId) /\ Len(table) = k /\ Injective(table)
      /\ \A i \in 1..k : table[i] = m.pages[i]
  <2>1. k \in 0..Len(m.pages)
    BY <1>2, <1>4
  <2> HIDE DEF k
  <2> QED BY <1>2, <2>1, CutFacts
<1>7. /\ x.phase = (IF m.tokens = p THEN "decode" ELSE "prefill")
      /\ x.tokens = tokens /\ x.table = table /\ x.prompt = p
      /\ x.kind = rq.kind /\ x.queues = rq.queues /\ x.buffer = rq.buffer
      /\ x.hit = rq.hit
  BY DEF RequestRecords
<1>8. x \in RequestRecords
  <2> HIDE DEF tokens, table, p
  <2>1. x = [rq EXCEPT !.phase = IF m.tokens = p THEN "decode" ELSE "prefill",
                       !.tokens = tokens, !.table = table]
    BY DEF tokens, table, p
  <2> QED BY <1>5, <1>6, <2>1 DEF RequestRecords, Phases
<1>9. TableOK(x.table, x.tokens, device)
  <2> HIDE DEF tokens, table, p, n, k
  <2>1. Len(tokens) <= MAX_TOKENS /\ Len(table) = PagesFor(Len(tokens))
    BY <1>1, <1>3, <1>5, <1>6, TierShape DEF k
  <2>2. \A i \in 1..Len(table) : device[table[i]] # Fresh
    BY <1>2, <1>4, <1>6
  <2> QED BY <1>6, <1>7, <2>1, <2>2 DEF TableOK
<1>10. PhaseOK(x)
  <2>1. rq.kind = "prompt" /\ ~rq.queues /\ rq.buffer = NoSlot
    BY DEF RequestOK, PhaseOK, RequestRecords
  <2>2. x.phase = "prefill" => Len(tokens) <= Len(p) /\ tokens = SubSeq(p, 1, Len(tokens))
    BY <1>1, <1>3, <1>5
  <2>3. x.phase = "decode" => tokens # <<>>
    <3>1. x.phase = "decode" => m.tokens = p
      BY <1>7
    <3>2. m.tokens = p => Len(tokens) > 0
      BY <1>1, <1>3, <1>5
    <3>3. Len(<<>>) = 0
      OBVIOUS
    <3> HIDE DEF tokens
    <3> QED BY ONLY <3>1, <3>2, <3>3
  <2>4. x.phase \in {"decode", "prefill"}
    BY <1>7
  <2> HIDE DEF tokens, table, p
  <2> QED BY ONLY <1>7, <2>1, <2>2, <2>3, <2>4 DEF PhaseOK
<1> QED BY <1>8, <1>9, <1>10 DEF RequestOK

\* A request that only goes on to another phase.
LEMMA PhaseChanged ==
    ASSUME NEW rq, NEW dev, RequestOK(rq, dev), NEW ph \in Phases,
           NEW x, x = [rq EXCEPT !.phase = ph],
           \/ rq.phase \in {"restore", "host", "attach"} /\ ph \in {"host", "attach", "prefill"}
           \/ rq.phase = "room" /\ ph = "decode"
    PROVE  RequestOK(x, dev)
<1>1. rq \in RequestRecords /\ TableOK(rq.table, rq.tokens, dev) /\ PhaseOK(rq)
  BY DEF RequestOK
<1>2. /\ x.phase = ph /\ x.tokens = rq.tokens /\ x.table = rq.table /\ x.prompt = rq.prompt
      /\ x.kind = rq.kind /\ x.queues = rq.queues /\ x.buffer = rq.buffer
  BY <1>1 DEF RequestRecords
<1>3. x \in RequestRecords
  BY <1>1 DEF RequestRecords
<1>4. rq.tokens = <<>> => Len(rq.tokens) = 0 /\ rq.tokens = SubSeq(rq.prompt, 1, 0)
                          /\ Len(rq.prompt) \in Nat
  <2>1. Len(rq.prompt) \in Nat
    BY <1>1, PromptFacts DEF RequestRecords
  <2> QED BY <2>1
<1>5. PhaseOK(x)
  BY <1>1, <1>2, <1>4 DEF PhaseOK
<1> QED BY <1>1, <1>2, <1>3, <1>5 DEF RequestOK

\* The rest of a call of the thread as its request sees it.
LEMMA QueuesFacts ==
    ASSUME TierInv, NEW r \in Slot, calling = r
    PROVE  /\ requests[r].queues => Cardinality(QueuedSlots) < Lanes
           /\ ~requests[r].queues => QueuedSlots = {}
  BY DEF TierInv, CallsOK

\* A device hit keeps the invariant.
LEMMA AttachKeeps ==
    ASSUME TierInv, NEW r \in Slot, AttachDevice(r), giving_up' = giving_up
    PROVE  TierInv'
<1> DEFINE rq == requests[r]
<1>1. /\ Calls(r) /\ rq.phase \in {"restore", "attach"} /\ UNCHANGED all_vars
  BY DEF AttachDevice
<1>2. PICK e \in Best(rq.prompt, DeviceEntries) :
          /\ banks' = [banks EXCEPT ![e.kind] = Accessed(@, e.at)]
          /\ Goes(r, [rq EXCEPT
                 !.phase = IF e.tokens = rq.prompt THEN "decode" ELSE "prefill",
                 !.tokens = SubSeq(rq.prompt, 1, Reused(rq.prompt, e.tokens)),
                 !.table = SubSeq(saved[e.at].meta.pages, 1,
                                  PagesFor(Reused(rq.prompt, e.tokens)))])
          /\ calling' = IF e.tokens = rq.prompt THEN NoSlot ELSE r
  BY DEF AttachDevice
<1>3. e \in DeviceEntries /\ Skipped(rq.prompt, e.tokens) > 0
  BY <1>2 DEF Best
<1>4. /\ e.at \in Arena /\ e.kind \in Kind /\ e.at \in ToSet(banks[e.kind])
      /\ saved[e.at] # Empty /\ saved[e.at].meta \in Meta
      /\ e.tokens = saved[e.at].meta.tokens
  BY <1>3, DeviceEntryFacts
<1> DEFINE m == saved[e.at].meta
           x == [rq EXCEPT !.phase = IF m.tokens = rq.prompt THEN "decode" ELSE "prefill",
                           !.tokens = SubSeq(rq.prompt, 1, Reused(rq.prompt, m.tokens)),
                           !.table = SubSeq(m.pages, 1, PagesFor(Reused(rq.prompt, m.tokens)))]
<1>5. Goes(r, x) /\ calling' = IF m.tokens = rq.prompt THEN NoSlot ELSE r
  BY <1>2, <1>4
<1>6. /\ calling = r /\ giving_up = NoTarget /\ RequestOK(rq, device)
      /\ \A n \in Kind : Len(banks[n]) \in Nat /\ Len(banks[n]) <= LIMIT
  BY <1>1, CallFacts
<1>7. \A i \in 1..Len(m.pages) : device[m.pages[i]] # Fresh
  BY <1>4 DEF TierInv, SavedOK
<1>8. RequestOK(x, device)
  <2>1. rq \in RequestRecords
    BY <1>6 DEF RequestOK
  <2>2. Skipped(rq.prompt, m.tokens) > 0
    BY <1>3, <1>4
  <2> HIDE DEF rq, m
  <2> QED BY <1>1, <1>4, <1>6, <1>7, <2>1, <2>2, AttachedOK DEF m
<1>9. CacheInv' /\ SameBuffers /\ device' = device
  BY <1>1, UnchangedCache DEF all_vars, engine_vars
<1>10. Reordered /\ \A n \in Kind : Len(banks'[n]) <= LIMIT
  <2>1. /\ DOMAIN banks = Kind /\ banks = [n \in Kind |-> banks[n]]
        /\ \A n \in Kind : ListOK(n, banks[n], saved)
    BY DEF TierInv, BanksOK
  <2>2. /\ ListOK(e.kind, Accessed(banks[e.kind], e.at), saved)
        /\ ToSet(Accessed(banks[e.kind], e.at)) = ToSet(banks[e.kind])
        /\ Len(Accessed(banks[e.kind], e.at)) = Len(banks[e.kind])
    BY <1>4, <2>1, ListAccessed
  <2>3. /\ DOMAIN banks' = Kind /\ banks' = [n \in Kind |-> banks'[n]]
        /\ banks'[e.kind] = Accessed(banks[e.kind], e.at)
        /\ \A n \in Kind \ {e.kind} : banks'[n] = banks[n]
    BY <1>2, <1>4, <2>1
  <2> QED BY <1>4, <1>6, <2>1, <2>2, <2>3 DEF Reordered
<1>11. /\ x.phase = IF m.tokens = rq.prompt THEN "decode" ELSE "prefill"
       /\ x.queues = rq.queues
  BY <1>6 DEF RequestOK, RequestRecords
<1>12. x # NoRequest
  BY <1>11 DEF NoRequest
<1>13. /\ rq.queues => Cardinality(QueuedSlots) < Lanes
       /\ ~rq.queues => QueuedSlots = {}
  BY <1>6, QueuesFacts
<1> DEFINE whole == m.tokens = rq.prompt
<1>14. x.phase = (IF whole THEN "decode" ELSE "prefill") /\ calling' = (IF whole THEN NoSlot ELSE r)
  BY <1>5, <1>11
<1> HIDE DEF whole, x, m, rq
<1>15. \/ /\ calling' = r /\ ~Away(x)
          /\ x.queues => Cardinality(QueuedSlots) < Lanes
          /\ ~x.queues => QueuedSlots = {}
       \/ calling' = NoSlot /\ Away(x)
  BY <1>11, <1>12, <1>13, <1>14 DEF Away
<1>16. x.phase \notin {"queued", "insert", "host"} /\ rq.phase \notin {"queued", "insert"}
  BY <1>1, <1>14
<1> QED BY <1>5, <1>6, <1>8, <1>9, <1>10, <1>15, <1>16, QuietStep DEF rq

\* A request that goes on to another phase of its admission.
LEMMA PassesOn ==
    ASSUME TierInv, NEW r \in Slot, Calls(r),
           requests[r].phase \in {"restore", "host", "attach"},
           NEW ph \in {"attach", "prefill"}, Goes(r, [requests[r] EXCEPT !.phase = ph]),
           UNCHANGED <<all_vars, banks, calling>>, giving_up' = giving_up
    PROVE  TierInv'
<1> DEFINE x == [requests[r] EXCEPT !.phase = ph]
<1>1. /\ calling = r /\ giving_up = NoTarget /\ RequestOK(requests[r], device)
      /\ \A n \in Kind : Len(banks[n]) \in Nat /\ Len(banks[n]) <= LIMIT
  BY CallFacts
<1>2. RequestOK(x, device)
  BY <1>1, PhaseChanged DEF Phases
<1>3. CacheInv' /\ SameBuffers /\ device' = device /\ Reordered /\ banks' = banks /\ calling' = r
  BY <1>1, UnchangedCache, UnchangedBanks DEF all_vars, engine_vars
<1>4. x.phase = ph /\ x.queues = requests[r].queues
  BY <1>1 DEF RequestOK, RequestRecords
<1>5. ~Away(x)
  BY <1>4 DEF Away, NoRequest
<1>6. /\ requests[r].queues => Cardinality(QueuedSlots) < Lanes
      /\ ~requests[r].queues => QueuedSlots = {}
  BY <1>1, QueuesFacts
<1> HIDE DEF x
<1>7. Goes(r, x)
  BY DEF x
<1> QED BY <1>1, <1>2, <1>3, <1>4, <1>5, <1>6, <1>7, QuietStep

\* A miss of both tiers, or of the device after a restore was given up.
LEMMA MissKeeps ==
    ASSUME TierInv, NEW r \in Slot, Miss(r), giving_up' = giving_up
    PROVE  TierInv'
<1>1. /\ Calls(r) /\ requests[r].phase \in {"restore", "attach"}
      /\ Goes(r, [requests[r] EXCEPT !.phase = "prefill"])
      /\ UNCHANGED <<all_vars, banks, calling>>
  BY DEF Miss
<1> QED BY <1>1, PassesOn

\* A host hit that is not restored.
LEMMA AbandonKeeps ==
    ASSUME TierInv, NEW r \in Slot, AbandonRestore(r), giving_up' = giving_up
    PROVE  TierInv'
<1>1. /\ Calls(r) /\ requests[r].phase = "host"
      /\ Goes(r, [requests[r] EXCEPT !.phase = "attach"])
      /\ UNCHANGED <<all_vars, banks, calling>>
  BY DEF AbandonRestore
<1> QED BY <1>1, PassesOn

\* A resident snapshot of the host is an old one without a plan.
LEMMA ResidentFacts ==
    ASSUME TierInv, NEW k \in Resident(store)
    PROVE  /\ k \in Key /\ k < store.next_key /\ plans[k] = Absent
           /\ store.snapshots[k].meta \in Meta /\ store.snapshots[k] \in SnapshotRecords
           /\ Tokens(store, k) \in Seq(Nat)
<1>1. StoreInv(store, plans)
  BY CacheStoreInv DEF TierInv
<1>2. store \in StoreRecords /\ PlansExact(store, plans)
  BY <1>1 DEF StoreInv
<1>3. k \in Key /\ k < store.next_key /\ k \notin HasPlan(plans)
      /\ store.snapshots[k] \in SnapshotRecords
  BY <1>2, Shapes DEF PlansExact, Resident
<1>4. plans[k] = Absent
  BY <1>3 DEF HasPlan
<1>5. store.snapshots[k].meta \in Meta
  BY <1>3 DEF SnapshotRecords
<1> QED BY <1>3, <1>4, <1>5, MetaFacts DEF Tokens

\* The rest of the invariant when the thread's request hits the host.
LEMMA HitHostKeeps ==
    ASSUME TierInv, NEW r \in Slot, HitHost(r), giving_up' = giving_up
    PROVE  TierInv'
<1> DEFINE rq == requests[r]
<1>1. /\ Calls(r) /\ rq.phase = "restore" /\ Best(rq.prompt, DeviceEntries) = {}
      /\ UNCHANGED <<banks, calling>>
  BY DEF HitHost
<1>2. PICK e \in Best(rq.prompt, HostEntries) :
          /\ LookupOnly(e.at)
          /\ Goes(r, [rq EXCEPT !.phase = "host", !.hit = e.at])
  BY DEF HitHost
<1> DEFINE k == e.at
           x == [rq EXCEPT !.phase = "host", !.hit = k]
<1>3. e \in HostEntries /\ Skipped(rq.prompt, e.tokens) > 0
  BY <1>2 DEF Best
<1>4. k \in Resident(store) /\ e.tokens = Tokens(store, k)
  BY <1>3 DEF HostEntries
<1>5. /\ k \in Key /\ k < store.next_key /\ plans[k] = Absent
      /\ store.snapshots[k].meta \in Meta
  BY <1>4, ResidentFacts
<1>6. /\ calling = r /\ giving_up = NoTarget /\ giving_up.target = {} /\ RequestOK(rq, device)
      /\ \A n \in Kind : Len(banks[n]) \in Nat /\ Len(banks[n]) <= LIMIT
  BY <1>1, CallFacts
<1>7. CacheInv'
  BY <1>2, <1>4, LookupOnlyKeeps DEF TierInv
<1>8. /\ UNCHANGED <<plans, stream, memory, device, saved>>
      /\ store' = [store EXCEPT !.bank[store.snapshots[k].meta.kind] = Accessed(@, k)]
  BY <1>2 DEF LookupOnly, Lookup, engine_vars
<1>9. SameBuffers /\ Reordered
  BY <1>1, <1>8, UnchangedBanks DEF SameBuffers, Aged, TierInv
<1>10. /\ x.phase = "host" /\ x.hit = k /\ x.queues = rq.queues /\ x.prompt = rq.prompt
       /\ x.tokens = rq.tokens /\ x.table = rq.table /\ x.kind = rq.kind
       /\ x.buffer = rq.buffer
  BY <1>6 DEF RequestOK, RequestRecords
<1>11. x \in RequestRecords
  BY <1>5, <1>6 DEF RequestOK, RequestRecords, Phases
<1>12. PhaseOK(rq) /\ TableOK(rq.table, rq.tokens, device)
  BY <1>6 DEF RequestOK
<1> HIDE DEF x, rq
<1>13. RequestOK(x, device')
  <2>1. PhaseOK(x)
    BY <1>1, <1>10, <1>12 DEF PhaseOK
  <2> QED BY <1>8, <1>10, <1>11, <1>12, <2>1 DEF RequestOK
<1>14. Goes(r, x)
  BY <1>2 DEF x, rq
<1>15. /\ RequestsOK' /\ SavedOK' /\ BanksOK' /\ BuffersOK'
       /\ WrittenOK(stream, memory, device)'
       /\ QueuedSlots' = QueuedSlots /\ Inserting' = Inserting
  BY <1>1, <1>6, <1>9, <1>10, <1>13, <1>14, QuietKeeps DEF rq
<1>16. ~Away(x)
  BY <1>10 DEF Away, NoRequest
<1>17. /\ rq.queues => Cardinality(QueuedSlots) < Lanes
       /\ ~rq.queues => QueuedSlots = {}
  BY <1>6, QueuesFacts DEF rq
<1>18. CallsOK'
  BY <1>1, <1>6, <1>10, <1>14, <1>15, <1>16, <1>17, CallsStep DEF TierInv, CallsOK
<1>19. TargetsOK'
  BY <1>6, NoTargetOK
<1>20. BanksWithinLimit'
  BY <1>1, <1>6 DEF BanksWithinLimit
<1>21. HitOK'
  <2>1. /\ requests'[r] = x
        /\ \A q \in Slot \ {r} : requests'[q] = requests[q]
    BY <1>14, SlotSets DEF TierInv
  <2>2. \A q \in Slot \ {r} : requests[q].phase # "host"
    BY <1>6, CalledIs DEF TierInv, Phases
  <2>3. DOMAIN store = {"free", "refs", "device", "map", "snapshots", "bank", "next_key"}
    BY CacheStoreInv, StoreFields DEF TierInv, StoreInv
  <2>4. store'.next_key = store.next_key /\ store'.snapshots = store.snapshots
    BY <1>8, <2>3
  <2>5. Skipped(x.prompt, Tokens(store', k)) > 0
    BY <1>3, <1>4, <1>10, <2>4 DEF Tokens
  <2>6. \A n \in Kind : \A d \in ToSet(banks[n]) :
            ~(Skipped(rq.prompt, saved[d].meta.tokens) > 0)
    <3> SUFFICES ASSUME NEW n \in Kind, NEW d \in ToSet(banks[n]),
                        Skipped(rq.prompt, saved[d].meta.tokens) > 0
                 PROVE  FALSE
      OBVIOUS
    <3> DEFINE w == [at |-> d, kind |-> saved[d].meta.kind, tokens |-> saved[d].meta.tokens]
    <3>1. w \in DeviceEntries /\ w.tokens = saved[d].meta.tokens
      BY DEF DeviceEntries
    <3>2. \A f \in DeviceEntries : f.tokens \in Seq(Nat)
      BY DeviceEntryFacts
    <3>3. rq.prompt \in Seq(Nat)
      BY <1>6, PromptFacts DEF RequestOK, RequestRecords
    <3> HIDE DEF w
    <3> QED BY <1>1, <3>1, <3>2, <3>3, BestFound
  <2> QED BY <1>1, <1>5, <1>8, <1>10, <2>1, <2>2, <2>4, <2>5, <2>6 DEF HitOK
<1> QED BY <1>7, <1>8, <1>15, <1>18, <1>19, <1>20, <1>21 DEF TierInv

\* A restore that is given up leaves its pages and its buffer in the target.
LEMMA GiveUpKeeps ==
    ASSUME TierInv, NEW r \in Slot, GiveUpRestore(r)
    PROVE  TierInv'
<1> DEFINE k == requests[r].hit
           s == store.snapshots[k]
           ids == SubSeq(Unused, 1, Len(s.pages))
           x == [requests[r] EXCEPT !.phase = "attach"]
<1>1. /\ Calls(r) /\ requests[r].phase = "host" /\ k \in Resident(store)
      /\ Len(Unused) >= Len(s.pages) /\ Goes(r, x)
      /\ UNCHANGED <<banks, calling>>
  BY DEF GiveUpRestore
<1>2. PICK d \in Arena : RestoreTimesOut(k, d, ids)
  BY DEF GiveUpRestore
<1>3. PICK n \in 0..Len(Uploads(s, d, ids)) :
          giving_up' = [uploads |-> SubSeq(Uploads(s, d, ids), 1, n),
                        target |-> ToSet(ids) \cup {d}]
  BY <1>2 DEF RestoreTimesOut
<1>4. RestoresTo(k, d, ids) /\ UNCHANGED <<cache_vars, engine_vars>>
  BY <1>2 DEF RestoreTimesOut
<1>5. /\ calling = r /\ giving_up = NoTarget /\ giving_up.target = {}
      /\ RequestOK(requests[r], device)
      /\ \A i \in Kind : Len(banks[i]) \in Nat /\ Len(banks[i]) <= LIMIT
  BY <1>1, CallFacts
<1>6. RequestOK(x, device)
  BY <1>1, <1>5, PhaseChanged DEF Phases
<1>7. UNCHANGED <<store, plans, pending, next_ticket, payloads, held, settled, saved>>
      /\ UNCHANGED <<stream, memory, device>>
  BY <1>4 DEF cache_vars, engine_vars
<1>8. CacheInv'
  BY <1>7, SameCache DEF TierInv
<1>9. SameBuffers /\ Reordered
  BY <1>1, <1>7, UnchangedBanks DEF SameBuffers, Aged, TierInv
<1>10. x.phase = "attach" /\ x.queues = requests[r].queues /\ ~requests[r].queues
  BY <1>1, <1>5 DEF RequestOK, PhaseOK, RequestRecords
<1>11. QueuedSlots = {}
  BY <1>5, <1>10, QueuesFacts
<1>12. saved[d] = Empty
  BY <1>4 DEF RestoresTo, Takeable
<1>13. /\ s \in SnapshotRecords /\ s.pages \in Seq(Slab) /\ s.own \subseteq Slab
  BY <1>1, ResidentFacts DEF SnapshotRecords
<1>14. /\ ids \in Seq(PageId) /\ DOMAIN ids = DOMAIN s.pages /\ ToSet(ids) \subseteq PageId
  <2>1. IsFiniteSet({id \in PageId : device[id] = Fresh})
    <3>1. IsFiniteSet(PageId)
      BY CacheShape
    <3> QED BY <3>1, FS_Subset
  <2>2. Unused \in Seq({id \in PageId : device[id] = Fresh})
    BY <2>1, SetToSeqFacts DEF Unused
  <2>3. Unused \in Seq(PageId)
    BY <2>2
  <2>4. Len(s.pages) \in 0..Len(Unused)
    <3>1. Len(s.pages) \in Nat
      BY ONLY <1>13, SequenceFacts
    <3>2. Len(Unused) \in Nat
      BY ONLY <2>3, SequenceFacts
    <3>3. Len(Unused) >= Len(s.pages)
      BY ONLY <1>1
    <3> HIDE DEF s
    <3> QED BY ONLY <3>1, <3>2, <3>3
  <2>5. ids \in Seq(PageId) /\ Len(ids) = Len(s.pages)
    BY <2>3, <2>4, CutFacts
  <2> QED BY <1>13, <2>5, SequenceFacts, SeqSet
<1> HIDE DEF x, ids, s, k
<1>15. /\ RequestsOK' /\ SavedOK' /\ BanksOK' /\ BuffersOK'
       /\ WrittenOK(stream, memory, device)'
       /\ QueuedSlots' = QueuedSlots /\ Inserting' = Inserting
  BY <1>1, <1>5, <1>6, <1>7, <1>9, <1>10, <1>11, QuietKeeps
<1>16. CallsOK'
  <2>1. ~Away(x)
    BY <1>10 DEF Away, NoRequest
  <2> QED BY <1>1, <1>5, <1>10, <1>11, <1>15, <2>1, CallsStep DEF TierInv, CallsOK
<1>17. BanksWithinLimit'
  BY <1>1, <1>5 DEF BanksWithinLimit
<1>18. HitOK'
  BY <1>1, <1>5, <1>10, NoHit
<1>19. requests'[r] = x /\ calling' = r
  BY <1>1, <1>5, SlotSets DEF TierInv
<1>20. TargetsOK'
  <2> DEFINE u == Uploads(s, d, ids)
  <2>1. u \in Seq(UploadRecords) /\ ToSet(u) = {PageUpload(s, ids, i) : i \in DOMAIN ids}
                                               \cup {PartUpload(b, d) : b \in s.own}
    BY <1>13, <1>14, UploadsFacts
  <2>2. \A c \in ToSet(u) : c.to \in ToSet(ids) \cup {d}
    BY <2>1 DEF PageUpload, PartUpload, ToSet
  <2>3. n \in 0..Len(u) /\ giving_up' = [uploads |-> SubSeq(u, 1, n), target |-> ToSet(ids) \cup {d}]
    BY <1>3
  <2> HIDE DEF u
  <2>4. /\ SubSeq(u, 1, n) \in Seq(UploadRecords)
        /\ \A i \in 1..Len(SubSeq(u, 1, n)) : SubSeq(u, 1, n)[i] \in ToSet(u)
    <3>1. /\ SubSeq(u, 1, n) \in Seq(UploadRecords) /\ Len(SubSeq(u, 1, n)) = n
          /\ \A i \in 1..n : SubSeq(u, 1, n)[i] = u[i]
      BY <2>1, <2>3, CutFacts
    <3>2. \A i \in 1..Len(u) : u[i] \in ToSet(u)
      <4>1. u \in Seq(UploadRecords)
        BY <2>1
      <4>2. ToSet(u) = {u[i] : i \in 1..Len(u)}
        BY <4>1, SequenceFacts
      <4> QED BY <4>2
    <3>3. \A i \in 1..n : i \in 1..Len(u)
      BY <2>1, <2>3, SequenceFacts
    <3> QED BY <3>1, <3>2, <3>3
  <2>5. giving_up'.uploads = SubSeq(u, 1, n) /\ giving_up'.target = ToSet(ids) \cup {d}
    BY <2>3
  <2>6. GivingUpOK'
    BY <1>14, <2>2, <2>3, <2>4, <2>5 DEF GivingUpOK
  <2>7. \A y \in giving_up'.target \cap Arena : saved'[y] = Empty
    BY <1>7, <1>12, <1>14, <2>5, CacheShape
  <2> QED BY <1>10, <1>19, <2>5, <2>6, <2>7 DEF TargetsOK
<1> QED BY <1>7, <1>8, <1>15, <1>16, <1>17, <1>18, <1>20 DEF TierInv

-----------------------------------------------------------------------------
(* Computing rows. *)

\* The identities not used yet, each once.
LEMMA UnusedFacts ==
    /\ Unused \in Seq(PageId) /\ Injective(Unused)
    /\ Len(Unused) \in Nat
    /\ \A i \in 1..Len(Unused) : device[Unused[i]] = Fresh
<1> DEFINE F == {id \in PageId : device[id] = Fresh}
<1>1. IsFiniteSet(F)
  <2>1. IsFiniteSet(PageId)
    BY CacheShape
  <2> QED BY <2>1, FS_Subset
<1>2. Unused \in Seq(F) /\ Injective(Unused)
  BY <1>1, SetToSeqFacts DEF Unused
<1>3. Unused \in Seq(PageId) /\ Len(Unused) \in Nat
  BY <1>2
<1>4. \A i \in 1..Len(Unused) : Unused[i] \in F
  BY <1>2, SequenceFacts
<1> QED BY <1>2, <1>3, <1>4

\* The first of the identities not used yet.
LEMMA FirstUnused ==
    ASSUME NEW m \in 0..Len(Unused)
    PROVE  LET ids == SubSeq(Unused, 1, m) IN
           /\ ids \in Seq(PageId) /\ Len(ids) = m /\ Injective(ids)
           /\ \A i \in 1..m : ids[i] \in PageId /\ device[ids[i]] = Fresh
<1> DEFINE ids == SubSeq(Unused, 1, m)
<1>1. Unused \in Seq(PageId) /\ Injective(Unused) /\ Len(Unused) \in Nat
  BY UnusedFacts
<1>2. /\ ids \in Seq(PageId) /\ Len(ids) = m /\ Injective(ids)
      /\ \A i \in 1..m : ids[i] = Unused[i]
  BY <1>1, CutFacts
<1>3. \A i \in 1..m : ids[i] \in PageId
  BY <1>2, SequenceFacts
<1>4. \A i \in 1..m : i \in 1..Len(Unused)
  BY <1>1
<1> HIDE DEF ids
<1>5. \A i \in 1..m : device[ids[i]] = Fresh
  BY <1>2, <1>4, UnusedFacts
<1> QED BY <1>2, <1>3, <1>5 DEF ids

\* The bytes of a page are tokens, never what an unused page holds.
LEMMA RowsAreBytes ==
    ASSUME NEW tokens \in Seq(Vocabulary), NEW i \in Nat
    PROVE  PageBytes([tokens |-> tokens], i) # Fresh
<1> DEFINE n == Min({i * PAGE_TOKENS, Len(tokens)})
<1>1. /\ Len(tokens) \in Nat /\ i * PAGE_TOKENS \in Nat
      /\ tokens \in Seq(Nat)
  <2>1. Len(tokens) \in Nat /\ tokens \in [1..Len(tokens) -> Vocabulary]
    OBVIOUS
  <2>2. PAGE_TOKENS \in Nat /\ Vocabulary \subseteq Nat
    BY TierShape, CacheShape
  <2>3. i * PAGE_TOKENS \in Nat
    BY ONLY <2>2, i \in Nat
  <2>4. tokens \in [1..Len(tokens) -> Nat]
    BY ONLY <2>1, <2>2
  <2> QED BY <2>1, <2>3, <2>4
<1>2. n \in Nat /\ n <= Len(tokens)
  <2>1. {i * PAGE_TOKENS, Len(tokens)} \in SUBSET Nat
    BY <1>1
  <2>2. {i * PAGE_TOKENS, Len(tokens)} # {} /\ Len(tokens) \in {i * PAGE_TOKENS, Len(tokens)}
    OBVIOUS
  <2> QED BY <2>1, <2>2, MinProperties
<1>3. SubSeq(tokens, 1, n) \in Seq(Nat)
  <2> HIDE DEF n
  <2>1. n \in 0..Len(tokens)
    BY <1>1, <1>2
  <2> QED BY <1>1, <2>1, CutFacts
<1>4. PageBytes([tokens |-> tokens], i) = SubSeq(tokens, 1, n)
  BY DEF PageBytes
<1> QED BY <1>3, <1>4, CacheShape

\* Request r's table when it goes on with tokens, and which places of it are written.
LEMMA AppendedTable ==
    ASSUME TierInv, NEW r \in Slot, RequestOK(requests[r], device),
           NEW tokens \in Seq(Vocabulary), Len(requests[r].tokens) <= Len(tokens),
           PagesSuffice(r, tokens)
    PROVE  LET table == Appended(r, tokens).table
               old == requests[r].table
           IN  /\ table \in Seq(PageId) /\ Len(table) = PagesFor(Len(tokens))
               /\ Injective(table)
               /\ \A i \in 1..Len(table) :
                     \/ device[table[i]] # Fresh
                     \/ i >= (Len(requests[r].tokens) \div PAGE_TOKENS) + 1
<1> DEFINE rq == requests[r]
           old == rq.table
           a == Len(rq.tokens)
           b == Len(tokens)
           kept == IF CopiesTail(r) THEN Front(old) ELSE old
           m == PagesFor(b) - Len(kept)
           new == SubSeq(Unused, 1, m)
           table == kept \o new
           j == IF CopiesTail(r) THEN 1 ELSE 0
<1>1. /\ old \in Seq(PageId) /\ rq.tokens \in Seq(Vocabulary) /\ Injective(old)
      /\ Len(old) = PagesFor(a) /\ \A i \in 1..Len(old) : device[old[i]] # Fresh
  BY DEF RequestOK, RequestRecords, TableOK
<1>2. a \in Nat /\ b \in Nat /\ a <= b /\ Len(old) \in Nat
  BY <1>1, SequenceFacts
<1>3. /\ PagesFor(a) \in Nat /\ PagesFor(b) \in Nat /\ PagesFor(a) <= PagesFor(b)
      /\ a \div PAGE_TOKENS \in Nat
      /\ a % PAGE_TOKENS = 0 => PagesFor(a) = a \div PAGE_TOKENS
      /\ a % PAGE_TOKENS # 0 => PagesFor(a) = a \div PAGE_TOKENS + 1
  BY <1>2, PagesGrow, PagesOfTokens, TokenParts
<1>4. CopiesTail(r) => a % PAGE_TOKENS # 0
  BY DEF CopiesTail
<1>5. j \in {0, 1} /\ j <= Len(old)
  BY <1>1, <1>2, <1>3, <1>4
<1>6. /\ kept \in Seq(PageId) /\ Len(kept) = Len(old) - j /\ Injective(kept)
      /\ \A i \in 1..Len(kept) : kept[i] = old[i]
  <2>1. CASE CopiesTail(r)
    <3>1. Len(old) - 1 \in 0..Len(old)
      BY <1>2, <1>5, <2>1
    <3>2. kept = SubSeq(old, 1, Len(old) - 1)
      BY <2>1 DEF Front
    <3> HIDE DEF kept, old
    <3> QED BY <1>1, <2>1, <3>1, <3>2, CutFacts
  <2>2. CASE ~CopiesTail(r)
    BY <1>1, <1>2, <2>2
  <2> QED BY <2>1, <2>2
<1>7. m \in 0..Len(Unused)
  <2>1. Len(Unused) >= PagesFor(b) - Len(old) + j /\ Len(Unused) \in Nat
    BY UnusedFacts DEF PagesSuffice
  <2> HIDE DEF kept, j, b, old
  <2>2. m = PagesFor(b) - (Len(old) - j)
    BY <1>6
  <2> HIDE DEF m
  <2> QED BY <1>1, <1>2, <1>3, <1>5, <2>1, <2>2
<1>8. /\ new \in Seq(PageId) /\ Len(new) = m /\ Injective(new)
      /\ \A i \in 1..m : new[i] \in PageId /\ device[new[i]] = Fresh
  <2> HIDE DEF m
  <2> QED BY <1>7, FirstUnused
<1>9. ToSet(kept) \cap ToSet(new) = {}
  <2>1. \A x \in ToSet(kept) : device[x] # Fresh
    <3>1. ToSet(kept) = {kept[i] : i \in 1..Len(kept)}
      BY <1>6, SequenceFacts
    <3>2. \A i \in 1..Len(kept) : i \in 1..Len(old)
      BY <1>2, <1>5, <1>6
    <3> HIDE DEF kept
    <3> QED BY <1>1, <1>6, <3>1, <3>2
  <2>2. \A x \in ToSet(new) : device[x] = Fresh
    <3> HIDE DEF new, m
    <3>1. new \in Seq(PageId)
      BY <1>8
    <3>2. ToSet(new) = {new[i] : i \in 1..Len(new)}
      BY <3>1, SequenceFacts
    <3> QED BY <1>8, <3>2
  <2> QED BY <2>1, <2>2
<1>10. /\ table \in Seq(PageId) /\ Len(table) = Len(kept) + Len(new) /\ Injective(table)
       /\ \A i \in 1..Len(kept) : table[i] = kept[i]
  <2> HIDE DEF kept, new, m, j, old
  <2>1. kept \in Seq(PageId) /\ new \in Seq(PageId) /\ Injective(kept) /\ Injective(new)
    BY <1>6, <1>8
  <2>2. /\ kept \o new \in Seq(PageId) /\ Len(kept \o new) = Len(kept) + Len(new)
        /\ \A i \in 1..Len(kept) : (kept \o new)[i] = kept[i]
    BY <2>1, ConcatFacts
  <2>3. Injective(kept \o new)
    BY <1>9, <2>1, ConcatFacts
  <2> QED BY <2>2, <2>3
<1>11. Len(table) = PagesFor(b)
  <2> HIDE DEF kept, new, table
  <2>1. Len(kept) \in Nat
    BY <1>6, SequenceFacts
  <2> QED BY <1>3, <1>8, <1>10, <2>1
<1>12. \A i \in 1..Len(table) : \/ device[table[i]] # Fresh
                                \/ i >= (a \div PAGE_TOKENS) + 1
  <2> TAKE i \in 1..Len(table)
  <2>1. CASE i <= Len(kept)
    <3>1. i \in 1..Len(kept) /\ i \in 1..Len(old)
      BY <1>2, <1>5, <1>6, <2>1
    <3> HIDE DEF table, kept
    <3> QED BY <1>1, <1>6, <1>10, <3>1
  <2>2. CASE ~(i <= Len(kept))
    <3>1. Len(kept) >= a \div PAGE_TOKENS
      <4> HIDE DEF kept
      <4>1. Len(kept) = Len(old) - j /\ Len(old) = PagesFor(a)
        BY <1>1, <1>6
      <4>2. j = 1 => a % PAGE_TOKENS # 0
        BY <1>4
      <4> HIDE DEF j, a, old
      <4> QED BY <1>3, <1>5, <4>1, <4>2
    <3>2. Len(kept) \in Nat
      BY <1>6, SequenceFacts
    <3> HIDE DEF kept, a
    <3> QED BY <1>3, <2>2, <3>1, <3>2
  <2> QED BY <2>1, <2>2
<1>13. Appended(r, tokens).table = table
  BY DEF Appended
<1> HIDE DEF table
<1> QED BY <1>10, <1>11, <1>12, <1>13

\* The device once request r goes on with tokens.
LEMMA AppendedDevice ==
    ASSUME TierInv, NEW r \in Slot, RequestOK(requests[r], device),
           NEW tokens \in Seq(Vocabulary), Len(requests[r].tokens) <= Len(tokens),
           Len(tokens) <= MAX_TOKENS, PagesSuffice(r, tokens)
    PROVE  LET done == Appended(r, tokens) IN
           /\ done.table \in Seq(PageId)
           /\ TableOK(done.table, tokens, done.device)
           /\ DOMAIN done.device = PageId \cup Arena
           /\ \A d \in Arena : done.device[d] = device[d]
           /\ Aged(device, done.device)
<1> DEFINE done == Appended(r, tokens)
           table == done.table
           written == (Len(requests[r].tokens) \div PAGE_TOKENS) + 1 .. PagesFor(Len(tokens))
           W(x) == \E i \in written : table[i] = x
           c(x) == CHOOSE i \in written : table[i] = x
<1>1. /\ table \in Seq(PageId) /\ Len(table) = PagesFor(Len(tokens)) /\ Injective(table)
      /\ \A i \in 1..Len(table) :
            \/ device[table[i]] # Fresh
            \/ i >= (Len(requests[r].tokens) \div PAGE_TOKENS) + 1
  BY AppendedTable
<1>2. done.device = [x \in PageId \cup Arena |->
          IF W(x) THEN PageBytes([tokens |-> tokens], c(x)) ELSE device[x]]
  BY DEF Appended
<1>3. /\ Len(requests[r].tokens) \div PAGE_TOKENS \in Nat /\ PagesFor(Len(tokens)) \in Nat
      /\ Len(tokens) \in Nat
  <2>1. Len(requests[r].tokens) \in Nat /\ Len(tokens) \in Nat
    BY DEF RequestOK, RequestRecords
  <2> QED BY <2>1, TokenParts, PagesOfTokens
<1>4. \A i \in 1..Len(table) : table[i] \in PageId
  BY <1>1, SequenceFacts
<1>5. \A i \in written : i \in 1..Len(table) /\ i \in Nat
  BY <1>1, <1>3
<1>6. \A x : W(x) => c(x) \in written
  OBVIOUS
<1>7. \A x \in PageId \cup Arena : W(x) => done.device[x] # Fresh
  BY <1>2, <1>5, <1>6, RowsAreBytes
<1>8. \A x \in PageId \cup Arena : ~W(x) => done.device[x] = device[x]
  BY <1>2
<1>9. \A d \in Arena : ~W(d)
  BY <1>4, <1>5, CacheShape
<1>10. \A i \in 1..Len(table) : done.device[table[i]] # Fresh
  <2> TAKE i \in 1..Len(table)
  <2>1. table[i] \in PageId
    BY <1>4
  <2>2. CASE i >= (Len(requests[r].tokens) \div PAGE_TOKENS) + 1
    <3>1. i \in written
      BY <1>1, <1>3, <2>2
    <3>2. W(table[i])
      BY <3>1
    <3> HIDE DEF W
    <3> QED BY <1>7, <2>1, <3>2
  <2>3. CASE device[table[i]] # Fresh
    <3> HIDE DEF W
    <3> QED BY <1>7, <1>8, <2>1, <2>3
  <2> QED BY <1>1, <2>2, <2>3
<1>11. DOMAIN done.device = PageId \cup Arena
  BY <1>2
<1> HIDE DEF W, c, done, written
<1>12. \A d \in Arena : done.device[d] = device[d]
  BY <1>8, <1>9
<1>13. Aged(device, done.device)
  BY <1>7, <1>8 DEF Aged
<1>14. TableOK(done.table, tokens, done.device)
  BY <1>1, <1>10 DEF TableOK
<1> QED BY <1>1, <1>11, <1>12, <1>13, <1>14 DEF done

\* Going on with more tokens changes the request and the device's pages alone.
LEMMA ComputesKeeps ==
    ASSUME TierInv, NEW r \in Slot, RequestOK(requests[r], device),
           NEW tokens \in Seq(Vocabulary), Len(requests[r].tokens) <= Len(tokens),
           Len(tokens) <= MAX_TOKENS, PagesSuffice(r, tokens),
           device' = Appended(r, tokens).device, UNCHANGED <<cache_vars, saved>>
    PROVE  /\ CacheInv' /\ SameBuffers
           /\ Appended(r, tokens).table \in Seq(PageId)
           /\ TableOK(Appended(r, tokens).table, tokens, device')
<1>1. LET done == Appended(r, tokens) IN
      /\ done.table \in Seq(PageId)
      /\ TableOK(done.table, tokens, done.device)
      /\ DOMAIN done.device = PageId \cup Arena
      /\ \A d \in Arena : done.device[d] = device[d]
      /\ Aged(device, done.device)
  BY AppendedDevice
<1>2. /\ UNCHANGED <<store, plans, pending, next_ticket, payloads, held, settled, saved>>
      /\ UNCHANGED <<stream, memory>>
  BY DEF cache_vars
<1>3. CacheInv'
  BY <1>2, SameCache DEF TierInv
<1>4. SameBuffers
  BY <1>1, <1>2 DEF SameBuffers
<1> QED BY <1>1, <1>3, <1>4

\* The rows of a prompt are computed after those it shares.
LEMMA PrefillKeeps ==
    ASSUME TierInv, NEW r \in Slot, Prefill(r), giving_up' = giving_up
    PROVE  TierInv'
<1> DEFINE rq == requests[r]
           p == rq.prompt
           x == [rq EXCEPT !.phase = "room", !.tokens = p, !.table = Appended(r, p).table]
<1>1. /\ Calls(r) /\ rq.phase = "prefill" /\ PagesSuffice(r, p)
      /\ device' = Appended(r, p).device /\ Goes(r, x)
      /\ UNCHANGED <<cache_vars, saved, banks, calling>>
  BY DEF Prefill
<1>2. /\ calling = r /\ giving_up = NoTarget /\ RequestOK(rq, device)
      /\ \A n \in Kind : Len(banks[n]) \in Nat /\ Len(banks[n]) <= LIMIT
  BY <1>1, CallFacts
<1>3. rq \in RequestRecords /\ PhaseOK(rq)
  BY <1>2 DEF RequestOK
<1>4. /\ p \in Prompts /\ p \in Seq(Vocabulary) /\ Len(p) \in 1..MAX_TOKENS /\ p # <<>>
  BY <1>3, PromptFacts DEF RequestRecords
<1>5. Len(rq.tokens) <= Len(p) /\ Len(p) <= MAX_TOKENS
  BY <1>1, <1>3, <1>4, TierShape DEF PhaseOK
<1>6. /\ CacheInv' /\ SameBuffers /\ Appended(r, p).table \in Seq(PageId)
      /\ TableOK(Appended(r, p).table, p, device')
  BY <1>1, <1>2, <1>4, <1>5, ComputesKeeps
<1>7. /\ x.phase = "room" /\ x.tokens = p /\ x.table = Appended(r, p).table
      /\ x.prompt = p /\ x.kind = rq.kind /\ x.queues = rq.queues /\ x.buffer = rq.buffer
  BY <1>3 DEF RequestRecords
<1>8. x \in RequestRecords
  BY <1>3, <1>4, <1>6 DEF RequestRecords, Phases
<1>9. Reordered /\ banks' = banks /\ calling' = calling
  BY <1>1, UnchangedBanks
<1>10. /\ rq.queues => Cardinality(QueuedSlots) < Lanes
       /\ ~rq.queues => QueuedSlots = {}
  BY <1>2, QueuesFacts
<1>11. Goes(r, x)
  BY <1>1
<1> HIDE DEF x
<1>12. PhaseOK(x)
  <2>1. rq.buffer = NoSlot
    BY <1>1, <1>3 DEF PhaseOK, RequestRecords
  <2> HIDE DEF rq, p
  <2> QED BY <1>4, <1>7, <2>1 DEF PhaseOK
<1>13. RequestOK(x, device')
  BY <1>6, <1>7, <1>8, <1>12 DEF RequestOK
<1>14. ~Away(x)
  BY <1>7 DEF Away, NoRequest
<1> QED BY <1>1, <1>2, <1>6, <1>7, <1>9, <1>10, <1>11, <1>13, <1>14, QuietStep

\* A round of decoding computes the row of one token.
LEMMA DecodeKeeps ==
    ASSUME TierInv, NEW r \in Slot, NEW t \in Vocabulary, Decode(r, t), giving_up' = giving_up
    PROVE  TierInv'
<1> DEFINE rq == requests[r]
           tokens == Append(rq.tokens, t)
           x == [rq EXCEPT !.tokens = tokens, !.table = Appended(r, tokens).table]
<1>1. /\ Idle /\ rq.phase = "decode" /\ Len(rq.tokens) < MAX_TOKENS
      /\ PagesSuffice(r, tokens)
      /\ device' = Appended(r, tokens).device /\ Goes(r, x)
      /\ UNCHANGED <<cache_vars, saved, banks, calling>>
  BY DEF Decode
<1>2. /\ calling = NoSlot /\ giving_up = NoTarget
      /\ \A n \in Kind : Len(banks[n]) \in Nat /\ Len(banks[n]) <= LIMIT
  BY <1>1, IdleFacts
<1>3. RequestOK(rq, device) /\ rq \in RequestRecords /\ PhaseOK(rq)
  BY <1>1, PhaseFacts DEF TierInv, NoRequest, RequestOK
<1>4. rq.tokens \in Seq(Vocabulary) /\ Len(rq.tokens) \in Nat
  BY <1>3 DEF RequestRecords
<1>5. /\ tokens \in Seq(Vocabulary) /\ Len(tokens) = Len(rq.tokens) + 1
  BY <1>4
<1>6. Len(rq.tokens) <= Len(tokens) /\ Len(tokens) <= MAX_TOKENS /\ tokens # <<>>
  <2>1. Len(<<>>) = 0
    OBVIOUS
  <2> HIDE DEF tokens
  <2>2. tokens # <<>>
    BY <1>4, <1>5, <2>1
  <2> QED BY <1>1, <1>4, <1>5, <2>2, TierShape
<1> HIDE DEF tokens
<1>7. /\ CacheInv' /\ SameBuffers /\ Appended(r, tokens).table \in Seq(PageId)
      /\ TableOK(Appended(r, tokens).table, tokens, device')
  BY <1>1, <1>3, <1>5, <1>6, ComputesKeeps
<1>8. /\ x.phase = "decode" /\ x.tokens = tokens /\ x.table = Appended(r, tokens).table
      /\ x.prompt = rq.prompt /\ x.kind = rq.kind /\ x.queues = rq.queues /\ x.buffer = rq.buffer
  BY <1>1, <1>3 DEF RequestRecords
<1>9. x \in RequestRecords
  BY <1>3, <1>5, <1>7 DEF RequestRecords
<1>10. Reordered /\ banks' = banks /\ calling' = calling /\ Goes(r, x)
  BY <1>1, UnchangedBanks
<1> HIDE DEF x
<1>11. PhaseOK(x)
  <2>1. rq.buffer = NoSlot
    BY <1>1, <1>3 DEF PhaseOK
  <2> HIDE DEF rq
  <2> QED BY <1>6, <1>8, <2>1 DEF PhaseOK
<1>12. RequestOK(x, device')
  BY <1>7, <1>8, <1>9, <1>11 DEF RequestOK
<1>13. Away(x)
  BY <1>8 DEF Away
<1> QED BY <1>1, <1>2, <1>7, <1>8, <1>10, <1>12, <1>13, QuietStep

-----------------------------------------------------------------------------
(* Requests that end, or start to be retained. *)

\* A snapshot that is not taken.
LEMMA SkipKeeps ==
    ASSUME TierInv, NEW r \in Slot, SkipRetain(r), giving_up' = giving_up
    PROVE  TierInv'
<1> DEFINE rq == requests[r]
           x == IF rq.kind = "prompt" THEN [rq EXCEPT !.phase = "decode"] ELSE NoRequest
<1>1. /\ Calls(r) /\ rq.phase = "room" /\ Goes(r, x) /\ calling' = NoSlot
      /\ UNCHANGED <<all_vars, banks>>
  BY DEF SkipRetain
<1>2. /\ calling = r /\ giving_up = NoTarget /\ RequestOK(rq, device)
      /\ \A n \in Kind : Len(banks[n]) \in Nat /\ Len(banks[n]) <= LIMIT
  BY <1>1, CallFacts
<1>3. RequestOK([rq EXCEPT !.phase = "decode"], device)
  BY <1>1, <1>2, PhaseChanged DEF Phases
<1>4. CacheInv' /\ SameBuffers /\ device' = device /\ Reordered /\ banks' = banks
  BY <1>1, UnchangedCache, UnchangedBanks DEF all_vars, engine_vars
<1>5. /\ x.phase \in {"decode", "free"} /\ Away(x)
      /\ x = NoRequest \/ RequestOK(x, device')
  <2>1. [rq EXCEPT !.phase = "decode"].phase = "decode"
    BY <1>2 DEF RequestOK, RequestRecords
  <2> QED BY <1>3, <1>4, <2>1 DEF Away, NoRequest
<1> HIDE DEF x
<1> QED BY <1>1, <1>2, <1>4, <1>5, QuietStep DEF x

\* A request that ends without a snapshot.
LEMMA EndKeeps ==
    ASSUME TierInv, NEW r \in Slot, EndRequest(r), giving_up' = giving_up
    PROVE  TierInv'
<1>1. /\ Idle /\ requests[r].phase = "decode" /\ Goes(r, NoRequest)
      /\ UNCHANGED <<all_vars, banks, calling>>
  BY DEF EndRequest
<1>2. /\ calling = NoSlot /\ giving_up = NoTarget
      /\ \A n \in Kind : Len(banks[n]) \in Nat /\ Len(banks[n]) <= LIMIT
  BY <1>1, IdleFacts
<1>3. CacheInv' /\ SameBuffers /\ Reordered
  BY <1>1, UnchangedCache, UnchangedBanks
<1>4. NoRequest.phase = "free" /\ Away(NoRequest) /\ banks' = banks /\ calling' = NoSlot
  BY <1>1, <1>2 DEF NoRequest, Away
<1> QED BY <1>1, <1>2, <1>3, <1>4, QuietStep

\* A finished request makes room for its turn.
LEMMA RetireKeeps ==
    ASSUME TierInv, NEW r \in Slot, NEW queues \in BOOLEAN, Retire(r, queues),
           giving_up' = giving_up
    PROVE  TierInv'
<1> DEFINE rq == requests[r]
           x == [rq EXCEPT !.phase = "room", !.kind = "turn", !.queues = queues]
<1>1. /\ Idle /\ rq.phase = "decode" /\ Goes(r, x) /\ calling' = r
      /\ UNCHANGED <<all_vars, banks>>
      /\ queues => Cardinality({q \in Active : requests[q].phase = "queued"}) < Lanes
      /\ ~queues => \A q \in Active : requests[q].phase = "decode"
  BY DEF Retire
<1>2. /\ calling = NoSlot /\ giving_up = NoTarget
      /\ \A n \in Kind : Len(banks[n]) \in Nat /\ Len(banks[n]) <= LIMIT
  BY <1>1, IdleFacts
<1>3. RequestOK(rq, device) /\ rq \in RequestRecords /\ PhaseOK(rq)
  BY <1>1, PhaseFacts DEF TierInv, NoRequest, RequestOK
<1>4. CacheInv' /\ SameBuffers /\ device' = device /\ Reordered /\ banks' = banks
  BY <1>1, UnchangedCache, UnchangedBanks DEF all_vars, engine_vars
<1>5. /\ x.phase = "room" /\ x.tokens = rq.tokens /\ x.table = rq.table /\ x.queues = queues
      /\ x.prompt = rq.prompt /\ x.kind = "turn" /\ x.buffer = rq.buffer
  BY <1>3 DEF RequestRecords
<1>6. x \in RequestRecords
  BY <1>3 DEF RequestRecords, Phases, Kind
<1>7. {q \in Active : requests[q].phase = "queued"} = QueuedSlots
  BY DEF Active, QueuedSlots
<1>8. ~queues => QueuedSlots = {}
  BY <1>1, NoneQueued DEF TierInv
<1> HIDE DEF x
<1>9. RequestOK(x, device')
  <2>1. PhaseOK(x)
    BY <1>1, <1>3, <1>5 DEF PhaseOK
  <2> QED BY <1>3, <1>4, <1>5, <1>6, <2>1 DEF RequestOK
<1>10. ~Away(x)
  BY <1>5 DEF Away, NoRequest
<1> QED BY <1>1, <1>2, <1>4, <1>5, <1>7, <1>8, <1>9, <1>10, QuietStep

-----------------------------------------------------------------------------
(* Steps of the streams, of the pages and of a restore that was given up.  *)

\* The device but for its pages, and what a restore given up is left to write.
TargetOnly ==
    /\ saved' = saved /\ DOMAIN device' = PageId \cup Arena /\ Aged(device, device')
    /\ giving_up'.target \subseteq giving_up.target
    /\ \A d \in Arena \ giving_up.target : device'[d] = device[d]
    /\ \A d \in Arena \cap giving_up.target : d \in giving_up'.target \/ device'[d] = Junk

\* A step that is no request's keeps what is retained.
LEMMA StillKeeps ==
    ASSUME TierInv, UNCHANGED tier_vars, TargetOnly, CacheInv', TargetsOK', HitOK',
           WrittenOK(stream', memory', device')
    PROVE  TierInv'
<1>1. /\ banks' = banks /\ requests' = requests /\ calling' = calling
      /\ saved' = saved /\ Aged(device, device')
  BY DEF tier_vars, TargetOnly
<1>2. RequestsOK'
  <2>1. \A q \in Slot : requests[q] = NoRequest \/ RequestOK(requests[q], device')
    BY <1>1, RequestAges DEF TierInv, RequestsOK
  <2> QED BY <1>1, <2>1 DEF TierInv, RequestsOK
<1>3. SavedOK'
  BY <1>1, SavedAges DEF TierInv
<1>4. QueuedSlots' = QueuedSlots /\ Inserting' = Inserting
  BY <1>1 DEF QueuedSlots, Inserting
<1>5. CallsOK'
  BY <1>1, <1>4 DEF TierInv, CallsOK, Elsewhere
<1>6. \A d \in Arena : Listed(d)' <=> Listed(d)
  BY <1>1 DEF Listed
<1>7. BanksOK' /\ BanksWithinLimit'
  BY <1>1, <1>4, <1>6 DEF TierInv, BanksOK, BanksWithinLimit
<1>8. BuffersOK'
  <2>1. \A q \in QueuedSlots \cup Inserting : MetaOf(q)' = MetaOf(q)
    BY <1>1 DEF MetaOf
  <2>2. \A q \in QueuedSlots \cup Inserting : requests[q].buffer \in Arena
    <3> TAKE q \in QueuedSlots \cup Inserting
    <3>1. requests[q].phase \in {"queued", "insert"} /\ q \in Slot
      BY DEF QueuedSlots, Inserting
    <3>2. RequestOK(requests[q], device)
      BY <3>1, PhaseFacts DEF TierInv
    <3> QED BY <3>1, <3>2 DEF RequestOK, PhaseOK, RequestRecords
  <2>3. /\ \A r \in QueuedSlots :
              LET d == requests[r].buffer IN
              saved[d] = Empty /\ device[d] = OwnBytes(MetaOf(r)) /\ d \notin giving_up.target
        /\ \A d \in Arena : saved[d] = Empty /\ device[d] \notin {Fresh, Junk} =>
              d \in giving_up.target \/ \E r \in QueuedSlots : requests[r].buffer = d
    BY DEF TierInv, BuffersOK
  <2>4. \A r \in QueuedSlots :
              LET d == requests[r].buffer IN
              saved'[d] = Empty /\ device'[d] = OwnBytes(MetaOf(r)) /\ d \notin giving_up'.target
    BY <1>1, <2>2, <2>3 DEF TargetOnly
  <2>5. \A d \in Arena : saved[d] = Empty /\ device'[d] \notin {Fresh, Junk} =>
              d \in giving_up'.target \/ \E r \in QueuedSlots : requests[r].buffer = d
    BY <2>3 DEF TargetOnly
  <2> QED BY <1>1, <1>4, <1>6, <2>1, <2>2, <2>4, <2>5 DEF TierInv, BuffersOK
<1> QED BY <1>2, <1>3, <1>5, <1>7, <1>8 DEF TierInv, TargetOnly

\* The device's bytes in host slabs stay written as copies execute and slabs return to
\* the pool.
LEMMA ExecutedWritten ==
    ASSUME NEW str, NEW mem, NEW dev, WrittenOK(str, mem, dev), NEW n \in 0..Len(str), NEW st
    PROVE  /\ WrittenOK(SubSeq(str, n + 1, Len(str)),
                        Executed(dev, mem, SubSeq(str, 1, n)), dev)
           /\ WrittenOK(str, Unowned(st, mem), dev)
<1> DEFINE a == SubSeq(str, 1, n)
           rest == SubSeq(str, n + 1, Len(str))
<1>1. str \in Seq(CopyRecords) /\ Len(str) \in Nat
  BY DEF WrittenOK
<1>2. /\ a \in Seq(CopyRecords) /\ Len(a) = n /\ rest \in Seq(CopyRecords)
      /\ Len(rest) = Len(str) - n
      /\ \A i \in 1..n : a[i] = str[i]
      /\ \A i \in 1..Len(str) - n : rest[i] = str[n + i]
  BY <1>1, CutFacts
<1> HIDE DEF a, rest
<1>3. \A i \in 1..Len(a) : dev[a[i].from] # Fresh
  <2> TAKE i \in 1..Len(a)
  <2>1. i \in 1..Len(str) /\ a[i] = str[i]
    BY <1>1, <1>2
  <2> QED BY <2>1 DEF WrittenOK
<1>4. \A i \in 1..Len(rest) : dev[rest[i].from] # Fresh
  <2> TAKE i \in 1..Len(rest)
  <2>1. n + i \in 1..Len(str) /\ rest[i] = str[n + i]
    BY <1>1, <1>2
  <2> QED BY <2>1 DEF WrittenOK
<1>5. \A b \in Slab : Executed(dev, mem, a)[b] # Fresh
  <2> TAKE b \in Slab
  <2>1. Executed(dev, mem, a)[b] = IF Writes(a, b) = {} THEN mem[b]
                                   ELSE dev[a[Max(Writes(a, b))].from]
    BY DEF Executed
  <2>2. Writes(a, b) # {} => Max(Writes(a, b)) \in 1..Len(a)
    BY <1>2, LastWrite
  <2> QED BY <1>3, <2>1, <2>2 DEF WrittenOK
<1>6. \A b \in Slab : Unowned(st, mem)[b] # Fresh
  BY CacheShape DEF Unowned, WrittenOK
<1> QED BY <1>2, <1>4, <1>5, <1>6 DEF WrittenOK, a, rest

\* A step that leaves the store and the requests alone keeps what a host hit knows.
LEMMA SameHits ==
    ASSUME HitOK, UNCHANGED <<store, plans, saved, banks, requests>>
    PROVE  HitOK'
  BY DEF HitOK

\* A page nobody refers to is reused.
LEMMA ReuseKeeps ==
    ASSUME TierInv, NEW id \in PageId, ReusePage(id), giving_up' = giving_up
    PROVE  TierInv'
<1>1. FreePage(id, FALSE) /\ UNCHANGED tier_vars
  BY DEF ReusePage
<1>2. /\ device' = [device EXCEPT ![id] = Junk] /\ store' = store
      /\ UNCHANGED <<plans, stream, memory, saved>>
  BY <1>1 DEF FreePage
<1>3. CacheInv'
  BY <1>1, FreePageKeeps DEF TierInv
<1>4. Aged(device, device') /\ DOMAIN device' = PageId \cup Arena
      /\ \A d \in Arena : device'[d] = device[d]
  BY <1>2, CacheShape DEF TierInv, Aged
<1>5. TargetOnly
  BY <1>2, <1>4 DEF TargetOnly
<1>6. banks' = banks /\ requests' = requests /\ calling' = calling
  BY <1>1 DEF tier_vars
<1>7. WrittenOK(stream, memory, device)'
  BY <1>2, <1>4, WrittenAges DEF TierInv
<1>8. TargetsOK'
  BY <1>2, <1>6 DEF TierInv, TargetsOK, GivingUpOK
<1>9. HitOK'
  BY <1>2, <1>6, SameHits DEF TierInv
<1> QED BY <1>1, <1>3, <1>5, <1>7, <1>8, <1>9, StillKeeps

\* A copy of the store stream executes.
LEMMA StreamKeeps ==
    ASSUME TierInv, RunStream, giving_up' = giving_up
    PROVE  TierInv'
<1>1. /\ stream # <<>> /\ memory' = Unowned(store, Executed(device, memory, <<Head(stream)>>))
      /\ stream' = Tail(stream) /\ UNCHANGED tier_vars
      /\ UNCHANGED <<store, plans, pending, next_ticket, payloads, held, settled,
                     device, saved>>
  BY DEF RunStream, CopyNext, engine_vars
<1>2. CacheInv'
  BY <1>1, SameCache DEF TierInv
<1>3. TargetOnly
  BY <1>1 DEF TargetOnly, TierInv, Aged
<1>4. banks' = banks /\ requests' = requests /\ calling' = calling
  BY <1>1 DEF tier_vars
<1>5. WrittenOK(stream', memory', device')
  <2>1. stream \in Seq(CopyRecords) /\ WrittenOK(stream, memory, device)
    BY DEF TierInv, WrittenOK
  <2>2. /\ Len(stream) \in Nat /\ 1 \in 1..Len(stream)
        /\ SubSeq(stream, 1, 1) = <<Head(stream)>> /\ Tail(stream) = SubSeq(stream, 2, Len(stream))
    BY <1>1, <2>1, HeadTailFacts
  <2>3. 1 \in 0..Len(stream) /\ 1 + 1 = 2
    BY <2>2
  <2>4. WrittenOK(Tail(stream), Executed(device, memory, <<Head(stream)>>), device)
    BY <2>1, <2>2, <2>3, ExecutedWritten
  <2>5. 0 \in 0..Len(Tail(stream))
    BY <2>4 DEF WrittenOK
  <2> QED BY <1>1, <2>4, <2>5, ExecutedWritten
<1>6. TargetsOK'
  BY <1>1, <1>4 DEF TierInv, TargetsOK, GivingUpOK
<1>7. HitOK'
  BY <1>1, <1>4, SameHits DEF TierInv
<1> QED BY <1>1, <1>2, <1>3, <1>5, <1>6, <1>7, StillKeeps

\* A tick of the host cache, between calls or in a prefill.
LEMMA ObserveKeeps ==
    ASSUME TierInv, ObserveCopies, giving_up' = giving_up
    PROVE  TierInv'
<1>1. /\ calling # NoSlot => requests[calling].phase = "prefill"
      /\ UNCHANGED tier_vars /\ TickAny
  BY DEF ObserveCopies
<1>2. PICK errors : Tick(errors)
  BY <1>1 DEF TickAny
<1>3. /\ memory' = Unowned(store', memory) /\ UNCHANGED <<stream, device, saved>>
  BY <1>2 DEF Tick, engine_vars
<1>4. CacheInv'
  BY <1>2, TickKeeps DEF TierInv
<1>5. TargetOnly
  BY <1>3 DEF TargetOnly, TierInv, Aged
<1>6. banks' = banks /\ requests' = requests /\ calling' = calling
  BY <1>1 DEF tier_vars
<1>7. WrittenOK(stream', memory', device')
  <2>1. 0 \in 0..Len(stream)
    BY DEF TierInv, WrittenOK
  <2> QED BY <1>3, <2>1, ExecutedWritten DEF TierInv
<1>8. TargetsOK'
  BY <1>3, <1>6 DEF TierInv, TargetsOK, GivingUpOK
<1>9. \A q \in Slot : requests[q].phase # "host"
  <2> TAKE q \in Slot
  <2>1. requests[q].phase = "host" => calling = q
    BY CalledIs DEF TierInv, Phases
  <2> QED BY <1>1, <2>1, TierShape
<1>10. HitOK'
  BY <1>6, <1>9 DEF HitOK
<1> QED BY <1>1, <1>4, <1>5, <1>7, <1>8, <1>10, StillKeeps

\* A copy of a restore that was given up executes.
LEMMA UploadKeeps ==
    ASSUME TierInv, UploadNext, UNCHANGED tier_vars
    PROVE  TierInv'
<1> DEFINE u == giving_up.uploads
           tgt == giving_up.target
           c == Head(u)
<1>1. /\ u # <<>> /\ device' = Uploaded(<<c>>)
      /\ giving_up' = [giving_up EXCEPT !.uploads = Tail(@)]
      /\ UNCHANGED <<cache_vars, saved>>
  BY DEF UploadNext
<1>2. GivingUpOK
  BY DEF TierInv, TargetsOK
<1>3. /\ u \in Seq(UploadRecords) /\ tgt \subseteq PageId \cup Arena
      /\ \A n \in 1..Len(u) : u[n].to \in tgt
      /\ giving_up = [uploads |-> u, target |-> tgt]
  BY <1>2 DEF GivingUpOK
<1> HIDE DEF u
<1>4. /\ Len(u) \in Nat /\ 1 \in 1..Len(u) /\ Head(u) = u[1] /\ Head(u) \in UploadRecords
      /\ Tail(u) \in Seq(UploadRecords) /\ Len(Tail(u)) = Len(u) - 1
      /\ \A n \in 1..Len(u) - 1 : Tail(u)[n] = u[n + 1]
  BY <1>1, <1>3, HeadTailFacts
<1>5. c \in UploadRecords /\ c.to \in tgt /\ c.from \in Slab
  BY <1>3, <1>4 DEF UploadRecords
<1>6. giving_up' = [uploads |-> Tail(u), target |-> tgt]
  <2>1. giving_up' = [giving_up EXCEPT !.uploads = Tail(u)]
    BY <1>1 DEF u
  <2> HIDE DEF tgt
  <2> QED BY ONLY <1>3, <2>1
<1>7. \A n \in 1..Len(Tail(u)) : Tail(u)[n].to \in tgt
  BY <1>3, <1>4
<1> HIDE DEF c, tgt
<1>8. \A x \in PageId \cup Arena :
          device'[x] = IF x = c.to THEN memory[c.from] ELSE device[x]
  <2> TAKE x \in PageId \cup Arena
  <2>1. <<c>> \in Seq(UploadRecords) /\ Len(<<c>>) = 1 /\ <<c>>[1] = c
    BY <1>5
  <2>2. \A n \in 1..Len(<<c>>) : <<c>>[n] = c
    BY <2>1
  <2>3. CASE x = c.to
    <3>1. \A n \in 1..Len(<<c>>) : <<c>>[n].to = x => <<c>>[n].from = c.from
      BY <2>2
    <3>2. \E n \in 1..Len(<<c>>) : <<c>>[n].to = x
      BY <2>1, <2>3
    <3> QED BY <1>1, <2>1, <2>3, <3>1, <3>2, UploadedFacts
  <2>4. CASE x # c.to
    <3>1. \A n \in 1..Len(<<c>>) : <<c>>[n].to # x
      BY <2>2, <2>4
    <3> QED BY <1>1, <2>1, <2>4, <3>1, UploadedFacts
  <2> QED BY <2>3, <2>4
<1>9. memory[c.from] # Fresh
  BY <1>5 DEF TierInv, WrittenOK
<1>10. DOMAIN device' = PageId \cup Arena /\ Aged(device, device')
       /\ \A d \in Arena \ giving_up.target : device'[d] = device[d]
  <2>1. DOMAIN device' = PageId \cup Arena
    BY <1>1 DEF Uploaded
  <2>2. c.to \in giving_up.target
    BY <1>5 DEF tgt
  <2> QED BY <1>8, <1>9, <2>1, <2>2 DEF Aged
<1>11. /\ UNCHANGED <<store, plans, pending, next_ticket, payloads, held, settled, saved>>
       /\ UNCHANGED <<stream, memory>>
  BY <1>1 DEF cache_vars
<1>12. CacheInv'
  BY <1>11, SameCache DEF TierInv
<1>13. banks' = banks /\ requests' = requests /\ calling' = calling
  BY DEF tier_vars
<1>14. giving_up'.target = giving_up.target /\ giving_up'.uploads = Tail(u)
  BY <1>6 DEF tgt
<1>15. TargetOnly
  BY <1>10, <1>11, <1>14 DEF TargetOnly
<1>16. TargetsOK'
  <2>1. GivingUpOK'
    BY <1>3, <1>4, <1>6, <1>7, <1>14 DEF GivingUpOK, tgt
  <2>2. giving_up.target # {}
    BY <1>5 DEF tgt
  <2> QED BY <1>11, <1>13, <1>14, <2>1, <2>2 DEF TierInv, TargetsOK
<1>17. WrittenOK(stream, memory, device)'
  BY <1>10, <1>11, WrittenAges DEF TierInv
<1>18. HitOK'
  BY <1>11, <1>13, SameHits DEF TierInv
<1> QED BY <1>12, <1>15, <1>16, <1>17, <1>18, StillKeeps

\* The target of such a restore is released once its copies have executed.
LEMMA ReleaseKeeps ==
    ASSUME TierInv, ReleaseTarget, UNCHANGED tier_vars
    PROVE  TierInv'
<1>1. /\ giving_up' = NoTarget
      /\ device' = [x \in DOMAIN device |->
             IF x \in giving_up.target THEN Junk ELSE device[x]]
      /\ UNCHANGED <<cache_vars, saved>>
  BY DEF ReleaseTarget
<1>2. DOMAIN device = PageId \cup Arena
  BY DEF TierInv
<1>3. /\ DOMAIN device' = PageId \cup Arena /\ Aged(device, device')
      /\ \A d \in Arena \ giving_up.target : device'[d] = device[d]
      /\ \A d \in Arena \cap giving_up.target : device'[d] = Junk
  BY <1>1, <1>2, CacheShape DEF Aged
<1>4. /\ UNCHANGED <<store, plans, pending, next_ticket, payloads, held, settled, saved>>
      /\ UNCHANGED <<stream, memory>>
  BY <1>1 DEF cache_vars
<1>5. CacheInv'
  BY <1>4, SameCache DEF TierInv
<1>6. banks' = banks /\ requests' = requests /\ calling' = calling
  BY DEF tier_vars
<1>7. NoTarget.target = {}
  BY DEF NoTarget
<1>8. TargetOnly
  BY <1>1, <1>3, <1>4, <1>7 DEF TargetOnly
<1>9. TargetsOK'
  BY <1>1, NoTargetOK
<1>10. WrittenOK(stream, memory, device)'
  BY <1>3, <1>4, WrittenAges DEF TierInv
<1>11. HitOK'
  BY <1>4, <1>6, SameHits DEF TierInv
<1> QED BY <1>5, <1>8, <1>9, <1>10, <1>11, StillKeeps

-----------------------------------------------------------------------------
(* Storing a retained snapshot. *)

\* The device once a snapshot of pages in use is retained.
LEMMA RetainedDevice ==
    ASSUME DOMAIN device = PageId \cup Arena, NEW meta \in Meta, NEW d \in Arena,
           \A i \in 1..Len(meta.pages) : device[meta.pages[i]] # Fresh
    PROVE  /\ DOMAIN DeviceWith(meta, d) = PageId \cup Arena
           /\ DeviceWith(meta, d)[d] = OwnBytes(meta)
           /\ \A x \in (PageId \cup Arena) \ {d} : DeviceWith(meta, d)[x] = device[x]
           /\ Aged(device, DeviceWith(meta, d))
<1>1. \A x \in ToSet(meta.pages) : device[x] # Fresh
  <2>1. meta.pages \in Seq(PageId)
    BY MetaFacts
  <2>2. ToSet(meta.pages) = {meta.pages[i] : i \in 1..Len(meta.pages)}
    BY <2>1, SequenceFacts
  <2> QED BY <2>2
<1>2. /\ DOMAIN DeviceWith(meta, d) = PageId \cup Arena
      /\ DeviceWith(meta, d)[d] = OwnBytes(meta)
      /\ \A x \in (PageId \cup Arena) \ {d} : DeviceWith(meta, d)[x] = device[x]
  BY <1>1 DEF DeviceWith
<1>3. OwnBytes(meta) # Fresh
  BY BytesAreTokens
<1> QED BY <1>2, <1>3 DEF Aged

\* Copies that are queued after others.
LEMMA QueuedWritten ==
    ASSUME NEW str, NEW mem, NEW dev, WrittenOK(str, mem, dev),
           NEW q \in Seq(CopyRecords), \A i \in 1..Len(q) : dev[q[i].from] # Fresh
    PROVE  WrittenOK(str \o q, mem, dev)
<1>1. str \in Seq(CopyRecords) /\ Len(str) \in Nat /\ Len(q) \in Nat
  BY DEF WrittenOK
<1>2. /\ str \o q \in Seq(CopyRecords) /\ Len(str \o q) = Len(str) + Len(q)
      /\ \A i \in 1..Len(str) : (str \o q)[i] = str[i]
      /\ \A i \in 1..Len(q) : (str \o q)[Len(str) + i] = q[i]
  BY <1>1, ConcatFacts
<1>3. \A i \in 1..Len(str \o q) : dev[(str \o q)[i].from] # Fresh
  <2> TAKE i \in 1..Len(str \o q)
  <2>1. CASE i <= Len(str)
    <3>1. i \in 1..Len(str)
      BY <1>1, <1>2, <2>1
    <3> QED BY <1>2, <3>1 DEF WrittenOK
  <2>2. CASE ~(i <= Len(str))
    <3>1. i - Len(str) \in 1..Len(q) /\ i = Len(str) + (i - Len(str))
      BY <1>1, <1>2, <2>2
    <3> QED BY <1>2, <3>1
  <2> QED BY <2>1, <2>2
<1> QED BY <1>2, <1>3 DEF WrittenOK

\* Planning and issuing a store copies what was written, and takes a new key.
LEMMA IssuesWritten ==
    ASSUME StoreInv(store, plans), NEW meta \in Meta, store.next_key < MaxKeys,
           NEW d \in Arena, NEW dev, WrittenOK(stream, memory, dev), dev[d] # Fresh,
           \A i \in 1..Len(meta.pages) : dev[meta.pages[i]] # Fresh,
           NEW o \in Issues(meta, d, dev)
    PROVE  /\ WrittenOK(o.stream, o.memory, dev)
           /\ o.plan # Absent => o.plan.key = store.next_key
<1> DEFINE room == RoomFor(store, meta)
<1>1. StoreInv(room, plans) /\ room.next_key = store.next_key
  BY RoomForKeeps DEF Fewer
<1> HIDE DEF room
<1>2. CASE o = Issue("exhausted", room, Absent, stream, memory)
  <2>1. o.plan = Absent /\ o.stream = stream /\ o.memory = memory
    BY <1>2 DEF Issue
  <2> QED BY <2>1
<1>3. CASE \E plan \in PlansFor(room, meta) : o \in Attempts(room, plan, d, dev)
  <2>1. PICK plan \in PlansFor(room, meta) : o \in Attempts(room, plan, d, dev)
    BY <1>3
  <2>2. PlanFrom(room, meta, plan)
    BY <1>1, <2>1, PlansForFacts DEF StoreInv
  <2>3. plan \in PlanRecords /\ plan.key = store.next_key /\ plan.meta = meta
        /\ DOMAIN plan.pages = DOMAIN meta.pages
        /\ plan.copies \subseteq DOMAIN meta.pages
    BY <1>1, <2>2 DEF PlanFrom, Unmapped
  <2> DEFINE batch == Batch(plan, d)
             sent(n) == stream \o SubSeq(batch, 1, n)
             taken == Planned(room, plan)
  <2>4. /\ batch \in Seq(CopyRecords)
        /\ ToSet(batch) = {PageCopy(plan, i) : i \in plan.copies}
                          \cup {PartCopy(plan, d, b) : b \in plan.own}
    BY <2>3, BatchFacts
  <2>5. \A i \in 1..Len(batch) : dev[batch[i].from] # Fresh
    <3>1. meta.pages \in Seq(PageId)
      BY MetaFacts
    <3>2. DOMAIN meta.pages = 1..Len(meta.pages)
      BY <3>1, SequenceFacts
    <3>3. \A c \in ToSet(batch) : dev[c.from] # Fresh
      BY <2>3, <2>4, <3>2 DEF PageCopy, PartCopy
    <3> HIDE DEF batch
    <3>4. ToSet(batch) = {batch[i] : i \in 1..Len(batch)}
      BY <2>4, SequenceFacts
    <3> QED BY <3>3, <3>4
  <2> HIDE DEF batch
  <2>6. Len(batch) \in Nat
    BY <2>4, SequenceFacts
  <2>7. \A n \in 0..Len(batch) : WrittenOK(sent(n), memory, dev)
    <3> TAKE n \in 0..Len(batch)
    <3>1. /\ SubSeq(batch, 1, n) \in Seq(CopyRecords) /\ Len(SubSeq(batch, 1, n)) = n
          /\ \A i \in 1..n : SubSeq(batch, 1, n)[i] = batch[i]
      BY <2>4, CutFacts
    <3>2. \A i \in 1..n : i \in 1..Len(batch)
      BY <2>6
    <3> QED BY <2>5, <3>1, <3>2, QueuedWritten
  <2>8. WrittenOK(stream \o batch, memory, dev)
    BY <2>4, <2>5, QueuedWritten
  <2>9. CASE o = Issue("issued", taken, plan, stream \o batch, memory)
    <3>1. o.plan = plan /\ o.stream = stream \o batch /\ o.memory = memory
      BY <2>9 DEF Issue
    <3> QED BY <2>3, <2>8, <3>1
  <2>10. CASE \E n \in 0..Len(batch) - 1 :
              o = Issue("drained", Aborted(taken, plan), Absent, <<>>,
                        Executed(dev, memory, sent(n)))
    <3>1. PICK n \in 0..Len(batch) - 1 :
              o = Issue("drained", Aborted(taken, plan), Absent, <<>>,
                        Executed(dev, memory, sent(n)))
      BY <2>10
    <3>2. WrittenOK(sent(n), memory, dev)
      BY <2>6, <2>7, <3>1
    <3>3. o.plan = Absent /\ o.stream = <<>> /\ o.memory = Executed(dev, memory, sent(n))
      BY <3>1 DEF Issue
    <3> DEFINE q == sent(n)
    <3> HIDE DEF sent
    <3>4. q \in Seq(CopyRecords)
      BY <3>2 DEF WrittenOK
    <3> HIDE DEF q
    <3>5. Len(q) \in 0..Len(q) /\ SubSeq(q, 1, Len(q)) = q /\ SubSeq(q, Len(q) + 1, Len(q)) = <<>>
      BY <3>4
    <3>6. WrittenOK(<<>>, Executed(dev, memory, q), dev)
      BY <3>2, <3>5, ExecutedWritten DEF q
    <3> QED BY <3>3, <3>6 DEF q
  <2>11. CASE \E n \in 0..Len(batch) : o = Issue("held", taken, plan, sent(n), memory)
    <3>1. PICK n \in 0..Len(batch) : o = Issue("held", taken, plan, sent(n), memory)
      BY <2>11
    <3>2. o.plan = plan /\ o.stream = sent(n) /\ o.memory = memory
      BY <3>1 DEF Issue
    <3> QED BY <2>3, <2>7, <3>1, <3>2
  <2>12. \/ o = Issue("issued", taken, plan, stream \o batch, memory)
         \/ \E n \in 0..Len(batch) - 1 :
              o = Issue("drained", Aborted(taken, plan), Absent, <<>>,
                        Executed(dev, memory, sent(n)))
         \/ \E n \in 0..Len(batch) : o = Issue("held", taken, plan, sent(n), memory)
    <3> HIDE DEF taken
    <3> QED BY <2>1 DEF Attempts, batch, taken
  <2> QED BY <2>9, <2>10, <2>11, <2>12
<1>4. \/ o = Issue("exhausted", room, Absent, stream, memory)
      \/ \E plan \in PlansFor(room, meta) : o \in Attempts(room, plan, d, dev)
  BY DEF Issues, room
<1> QED BY <1>2, <1>3, <1>4

\* A store, now or when its snapshot is evicted: what the engine sees of it.
LEMMA StoreEffect ==
    ASSUME TierInv, NEW d \in Arena, NEW meta \in Meta, Store(d, meta),
           \A i \in 1..Len(meta.pages) : device[meta.pages[i]] # Fresh
    PROVE  /\ CacheInv' /\ saved[d] = Empty /\ device' = DeviceWith(meta, d)
           /\ \E t \in {next_ticket, NoTicket} :
                 saved' = [saved EXCEPT ![d] = [ticket |-> t, meta |-> meta]]
           /\ WrittenOK(stream', memory', device')
<1> DEFINE dev2 == DeviceWith(meta, d)
<1>1. /\ dev2[d] = OwnBytes(meta) /\ Aged(device, dev2)
      /\ \A x \in (PageId \cup Arena) \ {d} : dev2[x] = device[x]
  BY RetainedDevice DEF TierInv
<1>2. dev2[d] # Fresh
  BY <1>1, BytesAreTokens
<1>3. \A i \in 1..Len(meta.pages) : dev2[meta.pages[i]] # Fresh
  <2>1. meta.pages \in Seq(PageId)
    BY MetaFacts
  <2>2. \A i \in 1..Len(meta.pages) : meta.pages[i] \in PageId
    BY <2>1, SequenceFacts
  <2> QED BY <1>1, <2>2 DEF Aged
<1>4. WrittenOK(stream, memory, dev2)
  <2>1. WrittenOK(stream, memory, device) /\ stream \in Seq(CopyRecords)
    BY DEF TierInv, WrittenOK
  <2>2. \A n \in 1..Len(stream) : stream[n] \in CopyRecords
    BY <2>1, SequenceFacts
  <2>3. \A n \in 1..Len(stream) : stream[n].from \in PageId \cup Arena
    BY <2>2 DEF CopyRecords
  <2> HIDE DEF dev2
  <2> QED BY <1>1, <2>1, <2>3 DEF WrittenOK, Aged
<1>5. CASE StoreDeferred(d, meta)
  <2>1. /\ saved[d] = Empty /\ device' = dev2 /\ UNCHANGED <<stream, memory>>
        /\ saved' = [saved EXCEPT ![d] = [ticket |-> next_ticket, meta |-> meta]]
    BY <1>5 DEF StoreDeferred, CanStore
  <2>2. CacheInv'
    BY <1>5, StoreDeferredKeeps DEF TierInv
  <2> HIDE DEF dev2
  <2> QED BY <1>4, <2>1, <2>2 DEF dev2
<1>6. CASE StoreIssued(d, meta)
  <2>1. saved[d] = Empty /\ device' = dev2 /\ next_ticket < MaxKeys
    BY <1>6 DEF StoreIssued, CanStore
  <2>2. PICK o \in Issues(meta, d, dev2) :
            /\ stream' = o.stream /\ memory' = Unowned(o.store, o.memory)
            /\ IF o.result = "exhausted"
               THEN saved' = [saved EXCEPT ![d] = [ticket |-> NoTicket, meta |-> meta]]
               ELSE saved' = [saved EXCEPT ![d] = [ticket |-> next_ticket, meta |-> meta]]
    BY <1>6 DEF StoreIssued
  <2>3. CacheInv'
    BY <1>6, StoreIssuedKeeps DEF TierInv
  <2>4. StoreInv(store, plans) /\ store.next_key < MaxKeys
    <3>1. /\ next_ticket \in Nat /\ next_ticket <= MaxKeys /\ store.next_key \in Nat
          /\ Cardinality(DeferredIn(ToSet(pending))) \in Nat
          /\ store.next_key + Cardinality(DeferredIn(ToSet(pending))) <= next_ticket
      BY NextIsNat DEF TierInv
    <3>2. MaxKeys \in Nat
      BY StoreShape
    <3> QED BY <2>1, <3>1, <3>2, CacheStoreInv DEF TierInv
  <2> HIDE DEF dev2
  <2>5. WrittenOK(o.stream, o.memory, dev2)
    BY <1>2, <1>3, <1>4, <2>2, <2>4, IssuesWritten
  <2>6. 0 \in 0..Len(o.stream)
    BY <2>5 DEF WrittenOK
  <2>7. WrittenOK(stream', memory', device')
    BY <2>1, <2>2, <2>5, <2>6, ExecutedWritten
  <2> QED BY <2>1, <2>2, <2>3, <2>7 DEF dev2
<1> QED BY <1>5, <1>6 DEF Store

-----------------------------------------------------------------------------
(* retain, queue_retain, poll_retain, abort_retain. *)

\* What a request is retained as.
LEMMA MetaOfFacts ==
    ASSUME NEW r \in Slot, RequestOK(requests[r], device), requests[r].tokens # <<>>
    PROVE  /\ MetaOf(r) \in Meta
           /\ MetaOf(r).kind = requests[r].kind /\ MetaOf(r).tokens = requests[r].tokens
           /\ \A i \in 1..Len(MetaOf(r).pages) : device[MetaOf(r).pages[i]] # Fresh
<1> DEFINE rq == requests[r]
           n == Len(rq.tokens)
<1>1. /\ rq.kind \in Kind /\ rq.tokens \in Seq(Vocabulary) /\ rq.table \in Seq(PageId)
      /\ n <= MAX_TOKENS /\ Len(rq.table) = PagesFor(n) /\ Injective(rq.table)
      /\ \A i \in 1..Len(rq.table) : device[rq.table[i]] # Fresh
  BY DEF RequestOK, RequestRecords, TableOK
<1>2. n \in 1..MAX_TOKENS /\ rq.tokens \in [1..n -> Vocabulary]
  BY <1>1, TierShape
<1>3. rq.table \in [1..PagesFor(n) -> PageId] /\ DOMAIN rq.table = 1..Len(rq.table)
  BY <1>1
<1>4. \A i, j \in DOMAIN rq.table : rq.table[i] = rq.table[j] => i = j
  BY <1>1, <1>3 DEF Injective
<1> HIDE DEF rq, n
<1>5. [kind |-> rq.kind, tokens |-> rq.tokens, pages |-> rq.table, parts |-> 1] \in Meta
  BY <1>1, <1>2, <1>3, <1>4, EveryMeta DEF PagesFor
<1> QED BY <1>1, <1>5 DEF MetaOf, rq

\* The buffer of a request that waits for its copies or is about to be listed.
LEMMA BufferFacts ==
    ASSUME TierInv, NEW q \in QueuedSlots \cup Inserting
    PROVE  /\ q \in Slot /\ requests[q].buffer \in Arena /\ requests[q].tokens # <<>>
           /\ RequestOK(requests[q], device)
           /\ q \in Inserting => calling = q
<1>1. requests[q].phase \in {"queued", "insert"} /\ q \in Slot
      /\ (q \in Inserting => requests[q].phase = "insert")
  BY DEF QueuedSlots, Inserting
<1>2. RequestOK(requests[q], device)
  BY <1>1, PhaseFacts DEF TierInv
<1>3. q \in Inserting => calling = q
  BY <1>1, CalledIs DEF TierInv, Phases
<1> QED BY <1>1, <1>2, <1>3 DEF RequestOK, PhaseOK, RequestRecords

\* Only the thread's request is about to be listed.
LEMMA NoInserting ==
    ASSUME TierInv, NEW r \in Slot, calling \in {r, NoSlot}
    PROVE  Inserting \subseteq {r}
<1>1. \A q \in Inserting : calling = q /\ q \in Slot
  BY BufferFacts
<1> QED BY <1>1, TierShape

\* A request that is given a buffer and goes on to be copied or listed.
LEMMA BufferedOK ==
    ASSUME NEW rq, NEW dev, RequestOK(rq, dev), NEW d \in Arena,
           rq.phase \in {"room", "queued"},
           NEW x \in RequestRecords, x.phase \in {"queued", "insert"}, x.buffer = d,
           x.tokens = rq.tokens, x.table = rq.table, x.prompt = rq.prompt,
           x.kind = rq.kind, x.queues = rq.queues, x.phase = "queued" => rq.queues
    PROVE  RequestOK(x, dev)
<1>1. rq \in RequestRecords /\ TableOK(rq.table, rq.tokens, dev) /\ PhaseOK(rq)
  BY DEF RequestOK
<1>2. d # NoSlot
  BY TierShape
<1>3. PhaseOK(x)
  BY <1>1, <1>2 DEF PhaseOK
<1> QED BY <1>1, <1>3 DEF RequestOK

\* A store into buffer d retains request r's snapshot, which is to be listed.
LEMMA RetainKeeps ==
    ASSUME TierInv, NEW r \in Slot, calling \in {r, NoSlot}, calling' = r,
           RequestOK(requests[r], device), requests[r].phase \in {"room", "queued"},
           NEW d \in Arena, Store(d, MetaOf(r)),
           NEW x, x = [requests[r] EXCEPT !.phase = "insert", !.buffer = d], Goes(r, x),
           banks' = banks, giving_up = NoTarget, giving_up' = NoTarget,
           \A n \in Kind : Len(banks[n]) <= LIMIT,
           \A q \in QueuedSlots \ {r} : requests[q].buffer # d,
           r \in QueuedSlots => requests[r].buffer = d,
           requests[r].queues => Cardinality(QueuedSlots \ {r}) < Lanes,
           ~requests[r].queues => QueuedSlots = {}
    PROVE  TierInv'
<1> DEFINE m == MetaOf(r)
<1>1. requests[r].tokens # <<>>
  BY DEF RequestOK, PhaseOK
<1>2. /\ m \in Meta /\ m.kind = requests[r].kind /\ m.tokens = requests[r].tokens
      /\ \A i \in 1..Len(m.pages) : device[m.pages[i]] # Fresh
  BY <1>1, MetaOfFacts
<1> HIDE DEF m
<1>3. /\ CacheInv' /\ saved[d] = Empty /\ device' = DeviceWith(m, d)
      /\ WrittenOK(stream', memory', device')
  BY <1>2, StoreEffect DEF m
<1>4. PICK t \in {next_ticket, NoTicket} :
          saved' = [saved EXCEPT ![d] = [ticket |-> t, meta |-> m]]
  BY <1>2, StoreEffect DEF m
<1>5. /\ DOMAIN device' = PageId \cup Arena /\ device'[d] = OwnBytes(m)
      /\ \A y \in (PageId \cup Arena) \ {d} : device'[y] = device[y]
      /\ Aged(device, device')
  BY <1>2, <1>3, RetainedDevice DEF TierInv
<1>6. /\ saved'[d].meta = m /\ saved'[d] # Empty /\ \A e \in Arena \ {d} : saved'[e] = saved[e]
  <2>1. DOMAIN saved = Arena
    BY DEF TierInv, CacheInv, SavedMatch
  <2>2. m # NoPayload
    BY <1>2, MetaFacts DEF NoPayload, Kind
  <2> QED BY <1>4, <2>1, <2>2 DEF Empty
<1>7. /\ RequestOK(x, device) /\ x.phase = "insert" /\ x.buffer = d
      /\ x.queues = requests[r].queues /\ x.kind = requests[r].kind
      /\ x.tokens = requests[r].tokens /\ x.table = requests[r].table
  <2> DEFINE rq == requests[r]
  <2>1. rq \in RequestRecords
    BY DEF RequestOK
  <2>2. /\ x.phase = "insert" /\ x.buffer = d /\ x.tokens = rq.tokens /\ x.table = rq.table
        /\ x.prompt = rq.prompt /\ x.kind = rq.kind /\ x.queues = rq.queues
    BY <2>1 DEF RequestRecords
  <2>3. x \in RequestRecords
    BY <2>1 DEF RequestRecords, Phases
  <2>4. RequestOK(rq, device) /\ rq.phase \in {"room", "queued"} /\ d \in Arena
    OBVIOUS
  <2>5. x.phase \in {"queued", "insert"} /\ (x.phase = "queued" => rq.queues)
    BY <2>2
  <2> HIDE DEF rq
  <2>6. RequestOK(x, device)
    BY ONLY <2>2, <2>3, <2>4, <2>5, BufferedOK
  <2> QED BY <2>2, <2>6 DEF rq
<1>8. RequestsOK'
  BY <1>5, <1>7, RequestAges, RequestsStep DEF TierInv
<1>9. /\ requests'[r] = x /\ \A q \in Slot \ {r} : requests'[q] = requests[q]
      /\ QueuedSlots' = QueuedSlots \ {r} /\ Inserting' = {r}
  <2>1. /\ QueuedSlots' = (QueuedSlots \ {r}) \cup (IF x.phase = "queued" THEN {r} ELSE {})
        /\ Inserting' = (Inserting \ {r}) \cup (IF x.phase = "insert" THEN {r} ELSE {})
        /\ requests'[r] = x /\ \A q \in Slot \ {r} : requests'[q] = requests[q]
    BY SlotSets DEF TierInv
  <2> QED BY <1>7, <2>1, NoInserting
<1>10. CallsOK'
  <2>1. ~Away(x)
    BY <1>7 DEF Away, NoRequest
  <2>2. Cardinality(QueuedSlots \ {r}) <= Lanes
    <3>1. IsFiniteSet(QueuedSlots)
      BY TierShape, FS_Subset DEF QueuedSlots
    <3>2. /\ Cardinality(QueuedSlots \ {r}) <= Cardinality(QueuedSlots)
          /\ Cardinality(QueuedSlots \ {r}) \in Nat /\ Cardinality(QueuedSlots) \in Nat
      BY <3>1, FS_Subset, FS_CardinalityType
    <3> QED BY <3>2, TierShape DEF TierInv, CallsOK
  <2>3. ~requests[r].queues => QueuedSlots \ {r} = {}
    OBVIOUS
  <2> QED BY <1>7, <1>9, <2>1, <2>2, <2>3, CallsStep DEF TierInv
<1>11. TargetsOK' /\ HitOK'
  BY <1>7, NoTargetOK, NoHit
<1>12. \A n \in Kind : d \notin ToSet(banks[n])
  BY <1>3 DEF TierInv, BanksOK, ListOK
<1>13. SavedOK'
  <2>1. \A e \in Arena \ {d} :
            /\ saved'[e].ticket # NoTicket => device'[e] # Fresh
            /\ saved'[e] # Empty => saved'[e].meta \in Meta
    BY <1>5, <1>6 DEF TierInv, SavedOK
  <2>2. \A e \in Arena : saved'[e] # Empty => saved'[e].meta \in Meta
    BY <1>2, <1>6, <2>1
  <2>3. \A e \in Arena : saved'[e] # Empty =>
            \A i \in 1..Len(saved'[e].meta.pages) : device'[saved'[e].meta.pages[i]] # Fresh
    <3> SUFFICES ASSUME NEW e \in Arena, saved'[e] # Empty,
                        NEW i \in 1..Len(saved'[e].meta.pages)
                 PROVE  device'[saved'[e].meta.pages[i]] # Fresh
      OBVIOUS
    <3>1. saved'[e].meta.pages \in Seq(PageId)
      BY <2>2, MetaFacts
    <3>2. saved'[e].meta.pages[i] \in PageId
      BY <3>1, SequenceFacts
    <3>3. device[saved'[e].meta.pages[i]] # Fresh
      BY <1>2, <1>6 DEF TierInv, SavedOK
    <3> QED BY <1>5, <3>2, <3>3 DEF Aged
  <2>4. device'[d] # Fresh
    BY <1>2, <1>5, BytesAreTokens
  <2> QED BY <2>1, <2>2, <2>3, <2>4 DEF SavedOK
<1>14. BanksOK'
  <2>1. \A n \in Kind : ListOK(n, banks[n], saved')
    <3> TAKE n \in Kind
    <3>1. ListOK(n, banks[n], saved)
      BY DEF TierInv, BanksOK
    <3>2. \A e \in ToSet(banks[n]) : e \in Arena \ {d}
      BY <1>12, <3>1, SeqSet DEF ListOK
    <3> QED BY <1>6, <3>1, <3>2 DEF ListOK
  <2>2. \A e \in Arena : saved'[e] # Empty =>
            Listed(e) \/ \E q \in Inserting' : requests'[q].buffer = e
    <3> SUFFICES ASSUME NEW e \in Arena, saved'[e] # Empty
                 PROVE  Listed(e) \/ \E q \in Inserting' : requests'[q].buffer = e
      OBVIOUS
    <3>1. CASE e = d
      BY <1>7, <1>9, <3>1
    <3>2. CASE e # d
      <4>1. Listed(e) \/ \E q \in Inserting : requests[q].buffer = e
        BY <1>6, <3>2 DEF TierInv, BanksOK
      <4>2. Inserting = {}
        <5>1. requests[r].phase # "insert" /\ Inserting \subseteq {r}
          BY NoInserting
        <5> QED BY <5>1 DEF Inserting
      <4> QED BY <4>1, <4>2
    <3> QED BY <3>1, <3>2
  <2> QED BY <2>1, <2>2 DEF TierInv, BanksOK, Listed
<1>15. BuffersOK'
  <2>1. /\ \A q, s \in QueuedSlots \cup Inserting : requests[q].buffer = requests[s].buffer => q = s
        /\ \A q \in QueuedSlots :
              LET e == requests[q].buffer IN
              saved[e] = Empty /\ device[e] = OwnBytes(MetaOf(q)) /\ e \notin giving_up.target
        /\ \A e \in Arena : saved[e] = Empty /\ device[e] \notin {Fresh, Junk} =>
              e \in giving_up.target \/ \E q \in QueuedSlots : requests[q].buffer = e
    BY DEF TierInv, BuffersOK
  <2>2. \A q \in QueuedSlots \ {r} : q \in Slot \ {r} /\ requests[q].buffer \in Arena \ {d}
    BY BufferFacts
  <2>3. \A q \in QueuedSlots \ {r} : MetaOf(q)' = MetaOf(q)
    BY <1>9, <2>2 DEF MetaOf
  <2>4. MetaOf(r)' = m
    BY <1>7, <1>9 DEF MetaOf, m
  <2>5. \A q, s \in (QueuedSlots \ {r}) \cup {r} : requests'[q].buffer = requests'[s].buffer => q = s
    <3>1. \A q \in QueuedSlots \ {r} : requests'[q].buffer = requests[q].buffer
      BY <1>9, <2>2
    <3>2. requests'[r].buffer = d
      BY <1>7, <1>9
    <3>3. \A q \in QueuedSlots \ {r} : requests'[q].buffer # d
      BY <2>2, <3>1
    <3> SUFFICES ASSUME NEW q \in (QueuedSlots \ {r}) \cup {r}, NEW s \in (QueuedSlots \ {r}) \cup {r},
                        requests'[q].buffer = requests'[s].buffer
                 PROVE  q = s
      OBVIOUS
    <3>4. CASE q = r \/ s = r
      BY <3>2, <3>3, <3>4
    <3>5. CASE q # r /\ s # r
      BY <2>1, <3>1, <3>5
    <3> QED BY <3>4, <3>5
  <2>6. /\ saved'[d] # Empty /\ saved'[d].meta = MetaOf(r)'
        /\ \A n \in Kind : d \notin ToSet(banks'[n])
    BY <1>6, <1>12, <2>4
  <2>7. \A q \in QueuedSlots \ {r} :
            LET e == requests'[q].buffer IN
            saved'[e] = Empty /\ device'[e] = OwnBytes(MetaOf(q)') /\ e \notin giving_up'.target
    BY <1>5, <1>6, <1>9, <2>1, <2>2, <2>3
  <2>8. \A e \in Arena : saved'[e] = Empty /\ device'[e] \notin {Fresh, Junk} =>
            e \in giving_up'.target \/ \E q \in QueuedSlots \ {r} : requests'[q].buffer = e
    <3> SUFFICES ASSUME NEW e \in Arena, saved'[e] = Empty, device'[e] \notin {Fresh, Junk}
                 PROVE  e \in giving_up.target \/ \E q \in QueuedSlots \ {r} : requests'[q].buffer = e
      OBVIOUS
    <3>1. e # d
      BY <1>6
    <3>2. saved[e] = Empty /\ device[e] \notin {Fresh, Junk}
      BY <1>5, <1>6, <3>1
    <3> QED BY <1>9, <2>1, <2>2, <3>1, <3>2
  <2>9. requests'[r].buffer = d /\ QueuedSlots' = QueuedSlots \ {r} /\ Inserting' = {r}
    BY <1>7, <1>9
  <2>10. \A q \in Inserting' :
            LET e == requests'[q].buffer IN
            /\ saved'[e] # Empty /\ saved'[e].meta = MetaOf(q)'
            /\ \A n \in Kind : e \notin ToSet(banks'[n])
    BY <2>6, <2>9
  <2>11. \A q, s \in QueuedSlots' \cup Inserting' :
             requests'[q].buffer = requests'[s].buffer => q = s
    BY <2>5, <2>9
  <2> QED BY <2>7, <2>8, <2>9, <2>10, <2>11 DEF BuffersOK, Listed
<1>16. BanksWithinLimit'
  BY DEF BanksWithinLimit
<1> QED BY <1>3, <1>5, <1>8, <1>10, <1>11, <1>13, <1>14, <1>15, <1>16 DEF TierInv

\* A buffer that can be taken is nobody's.
LEMMA TakeableFacts ==
    ASSUME TierInv, NEW d \in Arena, Takeable(d)
    PROVE  /\ saved[d] = Empty /\ device[d] \in {Fresh, Junk}
           /\ \A q \in QueuedSlots : requests[q].buffer # d
<1>1. saved[d] = Empty /\ device[d] \in {Fresh, Junk}
  BY DEF Takeable
<1>2. \A q \in QueuedSlots : device[requests[q].buffer] \notin {Fresh, Junk}
  <2> TAKE q \in QueuedSlots
  <2>1. MetaOf(q) \in Meta
    BY BufferFacts, MetaOfFacts
  <2>2. device[requests[q].buffer] = OwnBytes(MetaOf(q))
    BY DEF TierInv, BuffersOK
  <2> QED BY <2>1, <2>2, BytesAreTokens
<1> QED BY <1>1, <1>2

\* A snapshot retained in one call.
LEMMA RetainNowKeeps ==
    ASSUME TierInv, NEW r \in Slot, RetainNow(r), giving_up' = giving_up
    PROVE  TierInv'
<1>1. /\ Calls(r) /\ requests[r].phase = "room" /\ ~requests[r].queues
      /\ UNCHANGED <<banks, calling>>
  BY DEF RetainNow, HasBankRoom
<1>2. PICK d \in Arena :
          /\ Takeable(d) /\ Store(d, MetaOf(r))
          /\ Goes(r, [requests[r] EXCEPT !.phase = "insert", !.buffer = d])
  BY DEF RetainNow
<1>3. /\ calling = r /\ giving_up = NoTarget /\ RequestOK(requests[r], device)
      /\ \A n \in Kind : Len(banks[n]) <= LIMIT
  BY <1>1, CallFacts
<1>4. QueuedSlots = {}
  BY <1>1, <1>3, QueuesFacts
<1> QED BY <1>1, <1>2, <1>3, <1>4, RetainKeeps

\* A queued snapshot whose copies have completed.
LEMMA PollKeeps ==
    ASSUME TierInv, NEW r \in Slot, PollRetain(r), giving_up' = giving_up
    PROVE  TierInv'
<1> DEFINE d == requests[r].buffer
<1>1. /\ Idle /\ requests[r].phase = "queued" /\ Store(d, MetaOf(r))
      /\ Goes(r, [requests[r] EXCEPT !.phase = "insert"])
      /\ calling' = r /\ banks' = banks
  BY DEF PollRetain
<1>2. r \in QueuedSlots
  BY <1>1 DEF QueuedSlots
<1>3. /\ d \in Arena /\ RequestOK(requests[r], device)
  BY <1>2, BufferFacts
<1>4. /\ calling = NoSlot /\ giving_up = NoTarget /\ \A n \in Kind : Len(banks[n]) <= LIMIT
  BY <1>1, IdleFacts
<1>5. requests[r].queues /\ requests[r] \in RequestRecords
  BY <1>1, <1>3 DEF RequestOK, PhaseOK
<1>6. [requests[r] EXCEPT !.phase = "insert"] = [requests[r] EXCEPT !.phase = "insert", !.buffer = d]
  BY <1>5 DEF RequestRecords
<1>7. \A q \in QueuedSlots \ {r} : requests[q].buffer # d
  BY <1>2 DEF TierInv, BuffersOK
<1>8. Cardinality(QueuedSlots \ {r}) < Lanes
  <2>1. IsFiniteSet(QueuedSlots)
    BY TierShape, FS_Subset DEF QueuedSlots
  <2>2. Cardinality(QueuedSlots \ {r}) = Cardinality(QueuedSlots) - 1
        /\ Cardinality(QueuedSlots) \in Nat
    BY <1>2, <2>1, FS_RemoveElement, FS_CardinalityType
  <2> QED BY <2>2, TierShape DEF TierInv, CallsOK
<1>9. Goes(r, [requests[r] EXCEPT !.phase = "insert", !.buffer = d])
  BY <1>1, <1>6
<1> HIDE DEF d
<1> QED BY <1>1, <1>3, <1>4, <1>5, <1>7, <1>8, <1>9, RetainKeeps DEF d

\* A snapshot whose copies into the arena buffer have been queued.
LEMMA QueueRetainKeeps ==
    ASSUME TierInv, NEW r \in Slot, QueueRetain(r), giving_up' = giving_up
    PROVE  TierInv'
<1> DEFINE m == MetaOf(r)
<1>1. /\ Calls(r) /\ requests[r].phase = "room" /\ requests[r].queues
      /\ calling' = NoSlot /\ UNCHANGED <<cache_vars, saved, banks>>
  BY DEF QueueRetain, HasBankRoom
<1>2. PICK d \in Arena :
          /\ Takeable(d) /\ device' = [device EXCEPT ![d] = OwnBytes(m)]
          /\ Goes(r, [requests[r] EXCEPT !.phase = "queued", !.buffer = d])
  BY DEF QueueRetain
<1> DEFINE x == [requests[r] EXCEPT !.phase = "queued", !.buffer = d]
<1>3. /\ calling = r /\ giving_up = NoTarget /\ giving_up.target = {}
      /\ RequestOK(requests[r], device)
  BY <1>1, CallFacts
<1>4. m \in Meta
  <2>1. requests[r].tokens # <<>>
    BY <1>1, <1>3 DEF RequestOK, PhaseOK
  <2> QED BY <1>3, <2>1, MetaOfFacts
<1>5. /\ saved[d] = Empty /\ device[d] \in {Fresh, Junk}
      /\ \A q \in QueuedSlots : requests[q].buffer # d
  BY <1>2, TakeableFacts
<1> HIDE DEF m
<1>6. /\ DOMAIN device' = PageId \cup Arena /\ device'[d] = OwnBytes(m)
      /\ \A y \in (PageId \cup Arena) \ {d} : device'[y] = device[y]
      /\ Aged(device, device')
  <2>1. OwnBytes(m) # Fresh
    BY <1>4, BytesAreTokens
  <2> QED BY <1>2, <2>1 DEF TierInv, Aged
<1>7. UNCHANGED <<store, plans, pending, next_ticket, payloads, held, settled, saved>>
      /\ UNCHANGED <<stream, memory, banks>>
  BY <1>1 DEF cache_vars
<1>8. CacheInv'
  BY <1>7, SameCache DEF TierInv
<1>9. /\ RequestOK(x, device) /\ x.phase = "queued" /\ x.buffer = d
      /\ x.kind = requests[r].kind /\ x.tokens = requests[r].tokens
      /\ x.table = requests[r].table
  <2> DEFINE rq == requests[r]
  <2>1. rq \in RequestRecords
    BY <1>3 DEF RequestOK
  <2>2. /\ x.phase = "queued" /\ x.buffer = d /\ x.tokens = rq.tokens /\ x.table = rq.table
        /\ x.prompt = rq.prompt /\ x.kind = rq.kind /\ x.queues = rq.queues
    BY <2>1 DEF RequestRecords
  <2>3. x \in RequestRecords
    BY <2>1 DEF RequestRecords, Phases
  <2>4. RequestOK(rq, device) /\ rq.phase \in {"room", "queued"} /\ rq.queues
    BY <1>1, <1>3
  <2>5. x.phase \in {"queued", "insert"}
    BY <2>2
  <2> HIDE DEF rq, x
  <2>6. RequestOK(x, device)
    BY ONLY <2>2, <2>3, <2>4, <2>5, <1>2, BufferedOK
  <2> QED BY <2>2, <2>6 DEF rq
<1>10. Goes(r, x)
  BY <1>2
<1> HIDE DEF x
<1>11. RequestsOK'
  BY <1>6, <1>9, <1>10, RequestAges, RequestsStep DEF TierInv
<1>12. /\ requests'[r] = x /\ \A q \in Slot \ {r} : requests'[q] = requests[q]
       /\ QueuedSlots' = QueuedSlots \cup {r} /\ Inserting' = Inserting
       /\ r \notin QueuedSlots /\ Inserting = {}
  <2>1. /\ QueuedSlots' = (QueuedSlots \ {r}) \cup (IF x.phase = "queued" THEN {r} ELSE {})
        /\ Inserting' = (Inserting \ {r}) \cup (IF x.phase = "insert" THEN {r} ELSE {})
        /\ requests'[r] = x /\ \A q \in Slot \ {r} : requests'[q] = requests[q]
    BY <1>10, SlotSets DEF TierInv
  <2>2. r \notin QueuedSlots /\ r \notin Inserting
    BY <1>1 DEF QueuedSlots, Inserting
  <2>3. Inserting \subseteq {r}
    BY <1>3, NoInserting
  <2> QED BY <1>9, <2>1, <2>2, <2>3
<1>13. CallsOK'
  <2>1. Away(x)
    BY <1>9 DEF Away
  <2>2. Cardinality(QueuedSlots \cup {r}) <= Lanes
    <3>1. IsFiniteSet(QueuedSlots)
      BY TierShape, FS_Subset DEF QueuedSlots
    <3>2. /\ Cardinality(QueuedSlots \cup {r}) = Cardinality(QueuedSlots) + 1
          /\ Cardinality(QueuedSlots) \in Nat
      BY <1>12, <3>1, FS_AddElement, FS_CardinalityType
    <3>3. Cardinality(QueuedSlots) < Lanes
      BY <1>1, <1>3, QueuesFacts
    <3> QED BY <3>2, <3>3, TierShape
  <2> QED BY <1>1, <1>3, <1>10, <1>12, <2>1, <2>2, CallsStep DEF TierInv
<1>14. TargetsOK' /\ HitOK'
  BY <1>3, <1>9, <1>10, NoTargetOK, NoHit
<1>15. SavedOK' /\ WrittenOK(stream, memory, device)'
  BY <1>6, <1>7, SavedAges, WrittenAges DEF TierInv
<1>16. BanksOK'
  BY <1>7, <1>12 DEF TierInv, BanksOK, Listed
<1>17. BuffersOK'
  <2>1. \A q \in QueuedSlots : q \in Slot \ {r} /\ requests[q].buffer \in Arena \ {d}
    BY <1>5, <1>12, BufferFacts
  <2>2. \A q \in QueuedSlots : MetaOf(q)' = MetaOf(q)
    BY <1>12, <2>1 DEF MetaOf
  <2>3. MetaOf(r)' = m
    BY <1>9, <1>12 DEF MetaOf, m
  <2>4. /\ \A q, s \in QueuedSlots : requests[q].buffer = requests[s].buffer => q = s
        /\ \A q \in QueuedSlots :
              LET e == requests[q].buffer IN
              saved[e] = Empty /\ device[e] = OwnBytes(MetaOf(q)) /\ e \notin giving_up.target
        /\ \A e \in Arena : saved[e] = Empty /\ device[e] \notin {Fresh, Junk} =>
              e \in giving_up.target \/ \E q \in QueuedSlots : requests[q].buffer = e
    BY DEF TierInv, BuffersOK
  <2>5. /\ requests'[r].buffer = d
        /\ \A q \in QueuedSlots : requests'[q].buffer = requests[q].buffer
    BY <1>9, <1>12, <2>1
  <2>6. \A q, s \in QueuedSlots \cup {r} : requests'[q].buffer = requests'[s].buffer => q = s
    BY <2>1, <2>4, <2>5
  <2>7. \A q \in QueuedSlots \cup {r} :
            LET e == requests'[q].buffer IN
            saved'[e] = Empty /\ device'[e] = OwnBytes(MetaOf(q)') /\ e \notin giving_up'.target
    <3> SUFFICES ASSUME NEW q \in QueuedSlots \cup {r}
                 PROVE  LET e == requests'[q].buffer IN
                        /\ saved'[e] = Empty /\ device'[e] = OwnBytes(MetaOf(q)')
                        /\ e \notin giving_up'.target
      OBVIOUS
    <3>1. CASE q = r
      BY <1>3, <1>5, <1>6, <1>7, <2>3, <2>5, <3>1
    <3>2. CASE q \in QueuedSlots
      BY <1>6, <1>7, <2>1, <2>2, <2>4, <2>5, <3>2
    <3> QED BY <3>1, <3>2
  <2>8. \A e \in Arena : saved'[e] = Empty /\ device'[e] \notin {Fresh, Junk} =>
            e \in giving_up'.target \/ \E q \in QueuedSlots \cup {r} : requests'[q].buffer = e
    <3> SUFFICES ASSUME NEW e \in Arena, saved'[e] = Empty, device'[e] \notin {Fresh, Junk}
                 PROVE  e \in giving_up.target \/ \E q \in QueuedSlots \cup {r} : requests'[q].buffer = e
      OBVIOUS
    <3>1. CASE e = d
      BY <2>5, <3>1
    <3>2. CASE e # d
      BY <1>6, <1>7, <2>4, <2>5, <3>2
    <3> QED BY <3>1, <3>2
  <2> QED BY <1>12, <2>6, <2>7, <2>8 DEF BuffersOK
<1>18. BanksWithinLimit'
  BY <1>1, TierShape DEF BanksWithinLimit
<1> QED BY <1>6, <1>8, <1>11, <1>13, <1>14, <1>15, <1>16, <1>17, <1>18 DEF TierInv

\* A snapshot whose copies are given up.
LEMMA AbortKeeps ==
    ASSUME TierInv, NEW r \in Slot, AbortRetain(r), giving_up' = giving_up
    PROVE  TierInv'
<1> DEFINE d == requests[r].buffer
           x == NoRequest
<1>1. /\ Idle /\ requests[r].phase = "queued" /\ device' = [device EXCEPT ![d] = Junk]
      /\ Goes(r, x) /\ UNCHANGED <<cache_vars, saved, banks, calling>>
  BY DEF AbortRetain
<1>2. /\ calling = NoSlot /\ giving_up = NoTarget /\ giving_up.target = {}
      /\ \A q \in Slot : requests[q].phase \in {"free", "decode", "queued"}
  BY <1>1, IdleFacts
<1>3. r \in QueuedSlots
  BY <1>1 DEF QueuedSlots
<1>4. d \in Arena
  BY <1>3, BufferFacts
<1> HIDE DEF d
<1>5. /\ DOMAIN device' = PageId \cup Arena /\ device'[d] = Junk
      /\ \A y \in (PageId \cup Arena) \ {d} : device'[y] = device[y]
      /\ Aged(device, device')
  BY <1>1, <1>4, CacheShape DEF TierInv, Aged
<1>6. UNCHANGED <<store, plans, pending, next_ticket, payloads, held, settled, saved>>
      /\ UNCHANGED <<stream, memory, banks, calling>>
  BY <1>1 DEF cache_vars
<1>7. CacheInv'
  BY <1>6, SameCache DEF TierInv
<1>8. x.phase = "free" /\ Away(x)
  BY DEF NoRequest, Away
<1>9. RequestsOK'
  BY <1>1, <1>5, RequestsStep DEF TierInv
<1>10. /\ \A q \in Slot \ {r} : requests'[q] = requests[q]
       /\ QueuedSlots' = QueuedSlots \ {r} /\ Inserting' = Inserting /\ Inserting = {}
  <2>1. /\ QueuedSlots' = (QueuedSlots \ {r}) \cup (IF x.phase = "queued" THEN {r} ELSE {})
        /\ Inserting' = (Inserting \ {r}) \cup (IF x.phase = "insert" THEN {r} ELSE {})
        /\ \A q \in Slot \ {r} : requests'[q] = requests[q]
    BY <1>1, SlotSets DEF TierInv
  <2>2. Inserting = {}
    BY <1>2 DEF Inserting
  <2> QED BY <1>8, <2>1, <2>2
<1> HIDE DEF x
<1>11. CallsOK'
  <2>1. IsFiniteSet(QueuedSlots)
    BY TierShape, FS_Subset DEF QueuedSlots
  <2>2. /\ Cardinality(QueuedSlots \ {r}) <= Cardinality(QueuedSlots)
        /\ Cardinality(QueuedSlots \ {r}) \in Nat /\ Cardinality(QueuedSlots) \in Nat
    BY <2>1, FS_Subset, FS_CardinalityType
  <2>3. Cardinality(QueuedSlots \ {r}) <= Lanes
    BY <2>2, TierShape DEF TierInv, CallsOK
  <2> QED BY <1>1, <1>2, <1>6, <1>8, <1>10, <2>3, CallsStep DEF TierInv
<1>12. TargetsOK' /\ HitOK'
  BY <1>1, <1>2, <1>8, NoTargetOK, NoHit
<1>13. SavedOK' /\ WrittenOK(stream, memory, device)'
  BY <1>5, <1>6, SavedAges, WrittenAges DEF TierInv
<1>14. BanksOK'
  BY <1>6, <1>10 DEF TierInv, BanksOK, Listed
<1>15. BuffersOK'
  <2>1. /\ \A q, s \in QueuedSlots : requests[q].buffer = requests[s].buffer => q = s
        /\ \A q \in QueuedSlots :
              LET e == requests[q].buffer IN
              saved[e] = Empty /\ device[e] = OwnBytes(MetaOf(q)) /\ e \notin giving_up.target
        /\ \A e \in Arena : saved[e] = Empty /\ device[e] \notin {Fresh, Junk} =>
              e \in giving_up.target \/ \E q \in QueuedSlots : requests[q].buffer = e
    BY DEF TierInv, BuffersOK
  <2>2. \A q \in QueuedSlots \ {r} : q \in Slot \ {r} /\ requests[q].buffer \in Arena \ {d}
    BY <1>3, <2>1, BufferFacts DEF d
  <2>3. \A q \in QueuedSlots \ {r} :
            MetaOf(q)' = MetaOf(q) /\ requests'[q].buffer = requests[q].buffer
    BY <1>10, <2>2 DEF MetaOf
  <2>4. \A q \in QueuedSlots \ {r} :
            LET e == requests'[q].buffer IN
            saved'[e] = Empty /\ device'[e] = OwnBytes(MetaOf(q)') /\ e \notin giving_up'.target
    BY <1>5, <1>6, <2>1, <2>2, <2>3
  <2>5. \A e \in Arena : saved'[e] = Empty /\ device'[e] \notin {Fresh, Junk} =>
            e \in giving_up'.target \/ \E q \in QueuedSlots \ {r} : requests'[q].buffer = e
    <3> SUFFICES ASSUME NEW e \in Arena, saved'[e] = Empty, device'[e] \notin {Fresh, Junk}
                 PROVE  e \in giving_up.target \/ \E q \in QueuedSlots \ {r} : requests'[q].buffer = e
      OBVIOUS
    <3>1. e # d
      BY <1>5
    <3>2. e \in giving_up.target \/ \E q \in QueuedSlots : requests[q].buffer = e
      BY <1>5, <1>6, <2>1, <3>1
    <3> QED BY <2>3, <3>1, <3>2 DEF d
  <2>6. \A q, s \in QueuedSlots \ {r} : requests'[q].buffer = requests'[s].buffer => q = s
    BY <2>1, <2>3
  <2> QED BY <1>10, <2>4, <2>5, <2>6 DEF BuffersOK
<1>16. BanksWithinLimit'
  BY <1>2, <1>6, TierShape DEF BanksWithinLimit
<1> QED BY <1>5, <1>7, <1>9, <1>11, <1>12, <1>13, <1>14, <1>15, <1>16 DEF TierInv

\* The request of an insertion: it decodes, or has ended.
LEMMA InsertedOK ==
    ASSUME NEW rq, NEW dev, RequestOK(rq, dev), rq.phase = "insert",
           NEW x, x = IF rq.kind = "prompt"
                      THEN [rq EXCEPT !.phase = "decode", !.buffer = NoSlot] ELSE NoRequest
    PROVE  (x = NoRequest \/ RequestOK(x, dev)) /\ Away(x) /\ x.phase \in {"free", "decode"}
<1>1. CASE rq.kind # "prompt"
  BY <1>1 DEF NoRequest, Away
<1>2. CASE rq.kind = "prompt"
  <2>1. rq \in RequestRecords /\ TableOK(rq.table, rq.tokens, dev) /\ PhaseOK(rq)
    BY DEF RequestOK
  <2>2. /\ x.phase = "decode" /\ x.buffer = NoSlot /\ x.tokens = rq.tokens
        /\ x.table = rq.table /\ x.prompt = rq.prompt /\ x.kind = rq.kind
        /\ x.queues = rq.queues
    BY <1>2, <2>1 DEF RequestRecords
  <2>3. x \in RequestRecords
    BY <1>2, <2>1 DEF RequestRecords, Phases
  <2>4. PhaseOK(x)
    BY <2>1, <2>2 DEF PhaseOK
  <2> QED BY <2>1, <2>2, <2>3, <2>4 DEF RequestOK, Away
<1> QED BY <1>1, <1>2

\* Buffer d joins the bank of kind n, in the place of what has the same tokens.
Inserts(n, d, same, saves, list) ==
    /\ n \in Kind /\ d \in Arena /\ d \notin ToSet(banks[n])
    /\ saved[d] # Empty /\ saved[d].meta.kind = n
    /\ same = SameKey(n, saved[d].meta.tokens)
    /\ \A e \in Arena \ same : saves[e] = saved[e]
    /\ \/ same = {} /\ list = Append(banks[n], d)
       \/ \E c \in same : list = Append(RemoveFirst(banks[n], c), d)

\* A bank after an insertion: the snapshot of the same tokens is gone, the new one is last.
LEMMA ListInserted ==
    ASSUME TierInv, NEW n, NEW d, NEW same, NEW saves, NEW list,
           Inserts(n, d, same, saves, list)
    PROVE  /\ ListOK(n, list, saves) /\ ToSet(list) = (ToSet(banks[n]) \ same) \cup {d}
           /\ same \subseteq ToSet(banks[n]) /\ d \notin same
           /\ \A e, f \in same : e = f
<1>0. /\ n \in Kind /\ d \in Arena /\ d \notin ToSet(banks[n])
      /\ saved[d] # Empty /\ saved[d].meta.kind = n
      /\ same = SameKey(n, saved[d].meta.tokens)
      /\ \A e \in Arena \ same : saves[e] = saved[e]
      /\ \/ same = {} /\ list = Append(banks[n], d)
         \/ \E c \in same : list = Append(RemoveFirst(banks[n], c), d)
  BY DEF Inserts
<1>1. ListOK(n, banks[n], saved)
  BY <1>0 DEF TierInv, BanksOK
<1>2. same = {e \in ToSet(banks[n]) : saved[e].meta.tokens = saved[d].meta.tokens}
  BY <1>0 DEF SameKey
<1>3. ToSet(banks[n]) \subseteq Arena
  BY <1>1, SeqSet DEF ListOK
<1>4. \A e, f \in same : e = f
  BY <1>1, <1>2 DEF ListOK
<1>5. d \notin same /\ saves[d] = saved[d]
  BY <1>0, <1>2
<1>6. CASE same = {}
  <2>1. list = Append(banks[n], d)
    BY <1>0, <1>6
  <2>2. \A e \in Arena : saves[e] = saved[e]
    BY <1>0, <1>6
  <2>3. \A e \in ToSet(banks[n]) : saved[e].meta.tokens # saves[d].meta.tokens
    BY <1>2, <1>5, <1>6
  <2>4. \A e \in ToSet(banks[n]) : saves[e] = saved[e]
    BY <1>3, <2>2
  <2>5. saves[d] # Empty /\ saves[d].meta.kind = n /\ d \in Arena /\ d \notin ToSet(banks[n])
    BY <1>0, <1>5
  <2> DEFINE old == banks[n]
             t == Append(old, d)
  <2>6. /\ ListOK(n, old, saved) /\ d \notin ToSet(old)
        /\ \A e \in ToSet(old) : saves[e] = saved[e]
        /\ \A e \in ToSet(old) : saved[e].meta.tokens # saves[d].meta.tokens
    BY <1>1, <2>3, <2>4
  <2> HIDE DEF old
  <2>7. ListOK(n, t, saves) /\ ToSet(t) = ToSet(old) \cup {d}
    BY ONLY <2>5, <2>6, ListAppended
  <2> QED BY <1>5, <1>6, <2>1, <2>7 DEF old
<1>7. CASE same # {}
  <2>1. PICK c \in same : list = Append(RemoveFirst(banks[n], c), d)
    BY <1>0, <1>7
  <2> DEFINE short == RemoveFirst(banks[n], c)
  <2>2. same = {c} /\ c \in Arena
    BY <1>2, <1>3, <1>4, <2>1
  <2>3. list = Append(short, d)
    BY <2>1
  <2>4. \A e \in Arena \ {c} : saves[e] = saved[e]
    BY <1>0, <2>2
  <2>5. ListOK(n, short, saves) /\ ToSet(short) = ToSet(banks[n]) \ {c}
    BY ONLY <1>1, <2>4, ListRemoved
  <2> HIDE DEF short
  <2>6. d \notin ToSet(short) /\ \A e \in ToSet(short) : saves[e] = saved[e]
    BY <1>0, <1>3, <2>4, <2>5
  <2>7. \A e \in ToSet(short) : saves[e].meta.tokens # saves[d].meta.tokens
    BY <1>2, <1>5, <2>2, <2>5, <2>6
  <2>8. saves[d] # Empty /\ saves[d].meta.kind = n /\ d \in Arena
    BY <1>0, <1>5
  <2>9. \A e \in ToSet(short) : saves[e] = saves[e]
    OBVIOUS
  <2>10. ListOK(n, short, saves) /\ d \notin ToSet(short)
    BY <2>5, <2>6
  <2>11. ListOK(n, Append(short, d), saves) /\ ToSet(Append(short, d)) = ToSet(short) \cup {d}
    BY ONLY <2>7, <2>8, <2>9, <2>10, ListAppended
  <2> QED BY <1>2, <1>5, <2>2, <2>3, <2>5, <2>11
<1> QED BY <1>6, <1>7

\* A retained snapshot is inserted into its bank.
LEMMA InsertKeeps ==
    ASSUME TierInv, NEW r \in Slot, Insert(r), giving_up' = giving_up
    PROVE  TierInv'
<1> DEFINE rq == requests[r]
           k == rq.kind
           d == rq.buffer
           same == SameKey(k, rq.tokens)
           x == IF k = "prompt" THEN [rq EXCEPT !.phase = "decode", !.buffer = NoSlot]
                ELSE NoRequest
<1>1. /\ Calls(r) /\ rq.phase = "insert" /\ Goes(r, x) /\ calling' = NoSlot
      /\ UNCHANGED cache_vars
  BY DEF Insert
<1>2. /\ banks' = [banks EXCEPT ![k] =
              Append(IF same = {} THEN banks[k] ELSE RemoveFirst(banks[k], CHOOSE e \in same : TRUE), d)]
      /\ saved' = [e \in Arena |-> IF e \in same THEN Empty ELSE saved[e]]
      /\ device' = [y \in DOMAIN device |-> IF y \in same THEN Junk ELSE device[y]]
  BY DEF Insert
<1>3. /\ calling = r /\ giving_up = NoTarget /\ giving_up.target = {} /\ RequestOK(rq, device)
  BY <1>1, CallFacts
<1>4. r \in Inserting
  BY <1>1 DEF Inserting
<1>5. Inserting = {r}
  BY <1>3, <1>4, NoInserting
<1>6. d \in Arena
  BY <1>4, BufferFacts
<1>7. saved[d] # Empty /\ saved[d].meta = MetaOf(r) /\ ~Listed(d)
  BY <1>4 DEF TierInv, BuffersOK
<1>8. k \in Kind /\ saved[d].meta.kind = k /\ saved[d].meta.tokens = rq.tokens
  BY <1>3, <1>7 DEF MetaOf, RequestOK, RequestRecords
<1>9. (x = NoRequest \/ RequestOK(x, device)) /\ Away(x) /\ x.phase \in {"free", "decode"}
  BY <1>1, <1>3, InsertedOK
<1> HIDE DEF x
<1>10. /\ DOMAIN banks = Kind /\ banks = [n \in Kind |-> banks[n]]
       /\ \A n \in Kind : ListOK(n, banks[n], saved)
  BY DEF TierInv, BanksOK
<1>11. \A n \in Kind : d \notin ToSet(banks[n])
  BY <1>7 DEF Listed
<1>12. \A e \in Arena : saved'[e] = IF e \in same THEN Empty ELSE saved[e]
  BY <1>2
<1>13. /\ ListOK(k, banks'[k], saved') /\ ToSet(banks'[k]) = (ToSet(banks[k]) \ same) \cup {d}
       /\ same \subseteq ToSet(banks[k]) /\ d \notin same
       /\ \A e, f \in same : e = f
  <2> DEFINE list == Append(IF same = {} THEN banks[k]
                            ELSE RemoveFirst(banks[k], CHOOSE e \in same : TRUE), d)
  <2>1. banks'[k] = list
    BY <1>2, <1>8, <1>10
  <2>2. same = SameKey(k, saved[d].meta.tokens)
    BY <1>8
  <2> HIDE DEF same
  <2>3. banks'[k] = list
    BY <2>1
  <2>4. \/ same = {} /\ list = Append(banks[k], d)
        \/ \E c \in same : list = Append(RemoveFirst(banks[k], c), d)
    <3>1. CASE same = {}
      BY <3>1
    <3>2. CASE same # {}
      <4>1. (CHOOSE e \in same : TRUE) \in same
        BY <3>2
      <4> QED BY <3>2, <4>1
    <3> QED BY <3>1, <3>2
  <2>5. d \in Arena /\ d \notin ToSet(banks[k]) /\ saved[d] # Empty
        /\ saved[d].meta.kind = k /\ k \in Kind
    BY <1>6, <1>7, <1>8, <1>11
  <2> HIDE DEF k, d, list
  <2>6. \A e \in Arena \ same : saved'[e] = saved[e]
    BY <1>12
  <2> DEFINE saves == saved'
  <2>7. \A e \in Arena \ same : saves[e] = saved[e]
    BY <2>6
  <2>8. Inserts(k, d, same, saves, list)
    BY <2>2, <2>4, <2>5, <2>7 DEF Inserts
  <2> HIDE DEF saves
  <2>9. /\ ListOK(k, list, saves) /\ ToSet(list) = (ToSet(banks[k]) \ same) \cup {d}
        /\ same \subseteq ToSet(banks[k]) /\ d \notin same
        /\ \A e, f \in same : e = f
    BY <2>8, ListInserted
  <2> QED BY <2>3, <2>9 DEF saves
<1>14. /\ DOMAIN banks' = Kind /\ banks' = [n \in Kind |-> banks'[n]]
       /\ \A n \in Kind \ {k} : banks'[n] = banks[n]
  BY <1>2, <1>10
<1>15. \A e \in same : e \in Arena /\ saved[e] # Empty /\ saved[e].meta.kind = k
  <2> TAKE e \in same
  <2>1. e \in ToSet(banks[k])
    BY <1>13
  <2> QED BY <1>8, <2>1, ListedFacts
<1> HIDE DEF same, rq, k, d
<1>16. \A n \in Kind : ListOK(n, banks'[n], saved')
  <2> SUFFICES ASSUME NEW n \in Kind, n # k PROVE ListOK(n, banks'[n], saved')
    BY <1>13
  <2>1. ListOK(n, banks[n], saved) /\ banks'[n] = banks[n]
    BY <1>10, <1>14
  <2>2. ToSet(banks[n]) \subseteq Arena
    BY <2>1, SeqSet DEF ListOK
  <2>3. \A e \in ToSet(banks[n]) : e \notin same
    BY <1>15, <2>1 DEF ListOK
  <2>4. \A e \in ToSet(banks[n]) : saved'[e] = saved[e]
    BY <1>12, <2>2, <2>3
  <2> QED BY <2>1, <2>4 DEF ListOK
<1>17. /\ DOMAIN device' = PageId \cup Arena /\ Aged(device, device')
       /\ \A y \in PageId \cup Arena : device'[y] = IF y \in same THEN Junk ELSE device[y]
  <2>1. DOMAIN device = PageId \cup Arena
    BY DEF TierInv
  <2> QED BY <1>2, <2>1, CacheShape DEF Aged
<1>18. UNCHANGED <<store, plans, pending, next_ticket, payloads, held, settled, stream, memory>>
  BY <1>1 DEF cache_vars
<1>19. CacheInv'
  <2>1. SavedMatch(saved, ToSet(pending), next_ticket)
    BY DEF TierInv, CacheInv
  <2>2. DOMAIN saved = Arena /\ saved = [e \in Arena |-> saved[e]]
    BY <2>1 DEF SavedMatch
  <2>3. SavedMatch(saved', ToSet(pending), next_ticket)
    <3>1. CASE same = {}
      <4>1. saved' = saved
        BY <1>2, <2>2, <3>1
      <4> QED BY <2>1, <4>1
    <3>2. CASE same # {}
      <4>1. PICK c \in Arena : same = {c}
        BY <1>13, <1>15, <3>2
      <4>2. saved' = [saved EXCEPT ![c] = Empty]
        BY <1>2, <2>2, <4>1
      <4>3. next_ticket \in Nat /\ ToSet(pending) \subseteq EntryRecords
        BY NextIsNat, EntriesFinite DEF TierInv, CacheInv
      <4> QED BY <2>1, <4>2, <4>3, DroppedKeeps
    <3> QED BY <3>1, <3>2
  <2>4. StoreInv(store, plans) /\ PayloadsMatch(store, payloads)
    BY DEF TierInv, CacheInv, BooksOK, Books
  <2> QED BY <1>18, <2>3, <2>4, StoreOnly DEF TierInv
<1>20. RequestsOK'
  BY <1>1, <1>9, <1>17, RequestAges, RequestsStep DEF TierInv
<1>21. /\ requests'[r] = x /\ \A q \in Slot \ {r} : requests'[q] = requests[q]
       /\ QueuedSlots' = QueuedSlots /\ Inserting' = {} /\ r \notin QueuedSlots
  <2>1. /\ QueuedSlots' = (QueuedSlots \ {r}) \cup (IF x.phase = "queued" THEN {r} ELSE {})
        /\ Inserting' = (Inserting \ {r}) \cup (IF x.phase = "insert" THEN {r} ELSE {})
        /\ requests'[r] = x /\ \A q \in Slot \ {r} : requests'[q] = requests[q]
    BY <1>1, SlotSets DEF TierInv
  <2>2. r \notin QueuedSlots
    BY <1>1 DEF QueuedSlots, rq
  <2> QED BY <1>5, <1>9, <2>1, <2>2
<1>22. CallsOK'
  BY <1>1, <1>3, <1>9, <1>21, CallsStep DEF TierInv, CallsOK
<1>23. TargetsOK' /\ HitOK'
  BY <1>1, <1>3, <1>9, NoTargetOK, NoHit
<1>24. WrittenOK(stream, memory, device)'
  BY <1>17, <1>18, WrittenAges DEF TierInv
<1>25. SavedOK'
  <2> SUFFICES ASSUME NEW e \in Arena
               PROVE  /\ saved'[e].ticket # NoTicket => device'[e] # Fresh
                      /\ saved'[e] # Empty =>
                            /\ saved'[e].meta \in Meta
                            /\ \A i \in 1..Len(saved'[e].meta.pages) :
                                  device'[saved'[e].meta.pages[i]] # Fresh
    BY DEF SavedOK
  <2>1. CASE e \in same
    <3>1. saved'[e] = Empty
      BY <1>12, <2>1
    <3> QED BY <3>1 DEF Empty
  <2>2. CASE e \notin same
    <3>1. saved'[e] = saved[e]
      BY <1>12, <2>2
    <3>2. /\ saved[e].ticket # NoTicket => device[e] # Fresh
          /\ saved[e] # Empty =>
                /\ saved[e].meta \in Meta
                /\ \A i \in 1..Len(saved[e].meta.pages) : device[saved[e].meta.pages[i]] # Fresh
      BY DEF TierInv, SavedOK
    <3>3. saved[e] # Empty => \A i \in 1..Len(saved[e].meta.pages) : saved[e].meta.pages[i] \in PageId
      <4>1. saved[e] # Empty => saved[e].meta.pages \in Seq(PageId)
        BY <3>2, MetaFacts
      <4> QED BY <4>1, SequenceFacts
    <3> QED BY <1>17, <3>1, <3>2, <3>3 DEF Aged
  <2> QED BY <2>1, <2>2
<1>26. BanksOK'
  <2>1. \A e \in Arena : saved'[e] # Empty => \E n \in Kind : e \in ToSet(banks'[n])
    <3> SUFFICES ASSUME NEW e \in Arena, saved'[e] # Empty
                 PROVE  \E n \in Kind : e \in ToSet(banks'[n])
      OBVIOUS
    <3>1. e \notin same /\ saved[e] # Empty
      BY <1>12
    <3>2. CASE e = d
      BY <1>8, <1>13, <3>2
    <3>3. CASE e # d
      <4>1. Listed(e) \/ \E q \in Inserting : requests[q].buffer = e
        BY <3>1 DEF TierInv, BanksOK
      <4>2. Listed(e)
        BY <1>5, <3>3, <4>1 DEF d, rq
      <4>3. PICK n \in Kind : e \in ToSet(banks[n])
        BY <4>2 DEF Listed
      <4>4. e \in ToSet(banks'[n])
        BY <1>13, <1>14, <3>1, <4>3
      <4> QED BY <4>4
    <3> QED BY <3>2, <3>3
  <2> QED BY <1>14, <1>16, <2>1 DEF BanksOK, Listed
<1>27. BuffersOK'
  <2>1. /\ \A q, s \in QueuedSlots : requests[q].buffer = requests[s].buffer => q = s
        /\ \A q \in QueuedSlots :
              LET e == requests[q].buffer IN
              saved[e] = Empty /\ device[e] = OwnBytes(MetaOf(q)) /\ e \notin giving_up.target
        /\ \A e \in Arena : saved[e] = Empty /\ device[e] \notin {Fresh, Junk} =>
              e \in giving_up.target \/ \E q \in QueuedSlots : requests[q].buffer = e
    BY DEF TierInv, BuffersOK
  <2>2. \A q \in QueuedSlots : q \in Slot \ {r} /\ requests[q].buffer \in Arena
    BY <1>21, BufferFacts
  <2>3. \A q \in QueuedSlots :
            MetaOf(q)' = MetaOf(q) /\ requests'[q].buffer = requests[q].buffer
    BY <1>21, <2>2 DEF MetaOf
  <2>4. \A q \in QueuedSlots : requests[q].buffer \notin same
    BY <1>15, <2>1
  <2>5. \A q \in QueuedSlots :
            LET e == requests'[q].buffer IN
            saved'[e] = Empty /\ device'[e] = OwnBytes(MetaOf(q)') /\ e \notin giving_up'.target
    BY <1>12, <1>17, <2>1, <2>2, <2>3, <2>4
  <2>6. \A e \in Arena : saved'[e] = Empty /\ device'[e] \notin {Fresh, Junk} =>
            e \in giving_up'.target \/ \E q \in QueuedSlots : requests'[q].buffer = e
    <3> SUFFICES ASSUME NEW e \in Arena, saved'[e] = Empty, device'[e] \notin {Fresh, Junk}
                 PROVE  e \in giving_up.target \/ \E q \in QueuedSlots : requests'[q].buffer = e
      OBVIOUS
    <3>1. e \notin same
      BY <1>17
    <3>2. saved[e] = Empty /\ device[e] \notin {Fresh, Junk}
      BY <1>12, <1>17, <3>1
    <3> QED BY <2>1, <2>3, <3>2
  <2>7. \A q, s \in QueuedSlots : requests'[q].buffer = requests'[s].buffer => q = s
    BY <2>1, <2>3
  <2> QED BY <1>21, <2>5, <2>6, <2>7 DEF BuffersOK
<1>28. BanksWithinLimit'
  BY <1>1, TierShape DEF BanksWithinLimit
<1> QED BY <1>17, <1>19, <1>20, <1>22, <1>23, <1>24, <1>25, <1>26, <1>27, <1>28 DEF TierInv

-----------------------------------------------------------------------------
(* Dropping a retained snapshot through the host cache. *)

\* No key that was given and has no plan any more comes back or changes its snapshot.
Older(st, pl, st2, pl2) ==
    /\ st.next_key \in Nat /\ st2.next_key \in Nat /\ st.next_key <= st2.next_key
    /\ \A k \in Key : k < st.next_key /\ pl[k] = Absent =>
          /\ pl2[k] = Absent
          /\ k \in Resident(st2) => k \in Resident(st) /\ st2.snapshots[k].meta = st.snapshots[k].meta

\* What holds between two stores and the next two holds between the first and the last.
LEMMA OlderTrans ==
    ASSUME NEW st, NEW pl, NEW st2, NEW pl2, NEW st3, NEW pl3,
           Older(st, pl, st2, pl2), Older(st2, pl2, st3, pl3)
    PROVE  Older(st, pl, st3, pl3)
<1>1. /\ st.next_key \in Nat /\ st2.next_key \in Nat /\ st3.next_key \in Nat
      /\ st.next_key <= st2.next_key /\ st2.next_key <= st3.next_key
  BY DEF Older
<1>2. \A k \in Key : k < st.next_key => k < st2.next_key
  BY <1>1, StoreShape DEF Key
<1> QED BY <1>1, <1>2 DEF Older

\* A plan that ends, committed or released, leaves an older store's keys alone.
LEMMA EndedOlder ==
    ASSUME NEW books, BooksOK(books), NEW k \in HasPlan(books.plans), NEW next,
           next \in {CommittedPlan(books, books.plans[k], books.plans[k].meta),
                     ReleasedPlan(books, books.plans[k])}
    PROVE  Older(books.store, books.plans, next.store, next.plans)
<1> DEFINE p == books.plans[k]
           st == books.store
           pl2 == [books.plans EXCEPT ![k] = Absent]
<1>1. /\ p.key = k /\ k \in Key /\ p # Absent
      /\ StoreInv(st, books.plans) /\ st.next_key \in Nat
      /\ books = [store |-> books.store, plans |-> books.plans, payloads |-> books.payloads]
      /\ books.plans \in [Key -> PlanRecords \cup {Absent}]
  BY StoreShape DEF BooksOK, StoreInv, PlansExact, HasPlan, StoreRecords
<1>2. \A j \in Key : books.plans[j] = Absent => pl2[j] = Absent /\ j # k
  BY <1>1
<1>3. CASE next = CommittedPlan(books, p, p.meta)
  <2> DEFINE t == Committed(st, p)
             old == Replaced(st, p.meta)
             kept == IF old # {} THEN PayloadsIn(t, books.payloads) ELSE books.payloads
             all == [kept EXCEPT ![k] = p.meta]
  <2>1. /\ StoreInv(t, pl2) /\ old \subseteq Resident(st)
        /\ Resident(t) = (Resident(st) \ old) \cup {k}
        /\ t.snapshots[k].meta = p.meta /\ t.snapshots[k].pins = 0
        /\ \A j \in Resident(st) \ old : t.snapshots[j] = st.snapshots[j]
        /\ t.next_key = st.next_key
    <3>1. StoreInv(st, books.plans) /\ k \in HasPlan(books.plans)
      BY <1>1
    <3> HIDE DEF st
    <3> QED BY ONLY <3>1, CommittedKeeps DEF p, t, old, pl2
  <2>2. next.store = t /\ next.plans = pl2
    <3>1. next = [books EXCEPT !.plans = pl2, !.store = t, !.payloads = all]
      BY <1>1, <1>3 DEF CommittedPlan
    <3> HIDE DEF pl2, t, all
    <3>2. next = [store |-> t, plans |-> pl2, payloads |-> all]
      BY <1>1, <3>1, BooksChanged
    <3> QED BY <3>2
  <2> HIDE DEF t, old, pl2, p, st
  <2> QED BY <1>1, <1>2, <2>1, <2>2 DEF Older, st
<1>4. CASE next = ReleasedPlan(books, p)
  <2> DEFINE t == Aborted(st, p)
  <2>1. t.snapshots = st.snapshots /\ t.next_key = st.next_key
    BY <1>1, AbortedKeeps
  <2>2. next.store = t /\ next.plans = pl2
    <3>1. next = [books EXCEPT !.plans = pl2, !.store = t]
      BY <1>1, <1>4 DEF ReleasedPlan
    <3> HIDE DEF pl2, t
    <3>2. next = [store |-> t, plans |-> pl2, payloads |-> books.payloads]
      BY <1>1, <3>1, BooksChanged
    <3> QED BY <3>2
  <2> HIDE DEF t, pl2, p
  <2> QED BY <1>1, <1>2, <2>1, <2>2 DEF Older, Resident
<1> QED BY <1>3, <1>4

\* Waiting for a store ends its plan, and copies what was written.
LEMMA WaitOlder ==
    ASSUME NEW books, BooksOK(books), NEW k \in HasPlan(books.plans), NEW queue, NEW mem,
           WaitAndSettle(books, books.plans[k], queue, mem, books.plans[k].meta),
           WrittenOK(queue, mem, device)
    PROVE  /\ Older(books.store, books.plans, store', plans')
           /\ WrittenOK(stream', memory', device)
<1>1. PICK n \in 0..Len(queue), completed \in BOOLEAN :
        /\ stream' = SubSeq(queue, n + 1, Len(queue))
        /\ TakesBooks(IF completed THEN CommittedPlan(books, books.plans[k], books.plans[k].meta)
                      ELSE ReleasedPlan(books, books.plans[k]))
        /\ memory' = Unowned(store', Executed(device, mem, SubSeq(queue, 1, n)))
  BY DEF WaitAndSettle
<1>2. WrittenOK(stream', memory', device)
  <2> DEFINE rest == SubSeq(queue, n + 1, Len(queue))
             exec == Executed(device, mem, SubSeq(queue, 1, n))
  <2>1. WrittenOK(rest, exec, device)
    BY <1>1, ExecutedWritten
  <2>2. stream' = rest /\ memory' = Unowned(store', exec)
    BY <1>1
  <2> HIDE DEF rest, exec
  <2>3. 0 \in 0..Len(rest)
    BY <2>1 DEF WrittenOK
  <2>4. WrittenOK(rest, Unowned(store', exec), device)
    BY <2>1, <2>3, ExecutedWritten
  <2> QED BY <2>2, <2>4
<1>3. PICK next \in {CommittedPlan(books, books.plans[k], books.plans[k].meta),
                     ReleasedPlan(books, books.plans[k])} : TakesBooks(next)
  BY <1>1
<1>4. Older(books.store, books.plans, next.store, next.plans)
  BY <1>3, EndedOlder
<1> QED BY <1>2, <1>3, <1>4 DEF TakesBooks

\* Planning and issuing a store takes a key not given before.
LEMMA IssueOlder ==
    ASSUME CacheInv, NEW meta, NEW o, IssueOK(meta, o),
           o.plan # Absent => o.plan.key = store.next_key
    PROVE  Older(store, plans, o.store, BooksAfter(o).plans)
<1>1. store.next_key \in Nat /\ plans \in [Key -> PlanRecords \cup {Absent}]
  BY NextIsNat, CurrentBooks
<1>2. o.store.next_key \in {store.next_key, store.next_key + 1}
  BY DEF IssueOK
<1>3. /\ Resident(o.store) \subseteq Resident(store)
      /\ \A k \in Resident(o.store) : o.store.snapshots[k] = store.snapshots[k]
  BY DEF IssueOK
<1>4. BooksAfter(o).plans = IF o.plan = Absent THEN plans
                            ELSE [plans EXCEPT ![o.plan.key] = o.plan]
  BY CurrentBooks, BooksAfterKeeps
<1>5. \A k \in Key : k < store.next_key /\ plans[k] = Absent => BooksAfter(o).plans[k] = Absent
  <2>1. \A k \in Key : k < store.next_key => k # store.next_key
    BY <1>1, StoreShape DEF Key
  <2> QED BY <1>1, <1>4, <2>1
<1> QED BY <1>1, <1>2, <1>3, <1>5 DEF Older

\* The eviction of a snapshot whose store was issued.
LEMMA IssuedEffect ==
    ASSUME TierInv, NEW d \in Arena, EvictIssued(d)
    PROVE  /\ Older(store, plans, store', plans') /\ WrittenOK(stream', memory', device)
           /\ Dropped(d)
<1>1. PICK i \in PositionOf(saved[d].ticket) :
        /\ pending[i].kind = "issued"
        /\ WaitAndSettle(Books, plans[pending[i].key], stream, memory,
                         pending[i].payload)
        /\ Dropped(d)
  BY DEF EvictIssued
<1> DEFINE x == pending[i]
           k == x.key
<1>2. i \in DOMAIN pending /\ pending \in Seq(EntryRecords)
  BY DEF PositionOf, TierInv, CacheInv, QueueOK
<1>3. x \in ToSet(pending)
  BY <1>2 DEF ToSet
<1>4. x.kind = "issued" /\ WaitAndSettle(Books, plans[k], stream, memory, x.payload)
  BY <1>1
<1> HIDE DEF x
<1>5. x \in IssuedIn(ToSet(pending))
  BY <1>3, <1>4 DEF IssuedIn
<1>6. k \in HasPlan(plans) /\ plans[k].meta = x.payload
  BY <1>5 DEF TierInv, CacheInv, PlansMatch
<1> HIDE DEF k
<1>7. BooksOK(Books) /\ Books.plans = plans /\ Books.store = store
  BY CurrentBooks DEF TierInv
<1>8. WaitAndSettle(Books, Books.plans[k], stream, memory, Books.plans[k].meta)
  BY <1>4, <1>6, <1>7
<1>9. Older(Books.store, Books.plans, store', plans') /\ WrittenOK(stream', memory', device)
  BY <1>6, <1>7, <1>8, WaitOlder DEF TierInv
<1> QED BY <1>1, <1>7, <1>9

\* The eviction of a snapshot whose store was deferred.
LEMMA DeferredEffect ==
    ASSUME TierInv, NEW d \in Arena, saved[d] # Empty, EvictDeferred(d)
    PROVE  /\ Older(store, plans, store', plans') /\ WrittenOK(stream', memory', device)
           /\ Dropped(d)
<1> DEFINE meta == saved[d].meta
<1>1. PICK i \in PositionOf(saved[d].ticket) :
        /\ pending[i].kind = "deferred"
        /\ \E o \in Issues(meta, d, device) :
            IF o.result = "issued"
            THEN WaitAndSettle(BooksAfter(o), o.plan, o.stream, o.memory, pending[i].payload)
            ELSE /\ TakesBooks(BooksAfter(o)) /\ stream' = o.stream
                 /\ memory' = Unowned(o.store, o.memory)
        /\ Dropped(d)
  BY DEF EvictDeferred
<1>2. PICK o \in Issues(meta, d, device) :
            IF o.result = "issued"
            THEN WaitAndSettle(BooksAfter(o), o.plan, o.stream, o.memory, pending[i].payload)
            ELSE /\ TakesBooks(BooksAfter(o)) /\ stream' = o.stream
                 /\ memory' = Unowned(o.store, o.memory)
  BY <1>1
<1> DEFINE x == pending[i]
<1>3. i \in DOMAIN pending /\ x.ticket = saved[d].ticket /\ pending \in Seq(EntryRecords)
  BY DEF PositionOf, TierInv, CacheInv, QueueOK
<1>4. x \in ToSet(pending) /\ x \in EntryRecords
  <2>1. x \in ToSet(pending)
    BY <1>3 DEF ToSet
  <2> QED BY <1>3, <2>1, SeqSet
<1>5. x.kind = "deferred"
  BY <1>1
<1> HIDE DEF x
<1>6. x.payload = meta
  <2>1. \A y \in ToSet(pending) : y.ticket = saved[d].ticket => saved[d].meta = y.payload
    BY DEF TierInv, CacheInv, SavedMatch
  <2> QED BY <1>3, <1>4, <2>1
<1>7. meta \in Meta /\ \A j \in 1..Len(meta.pages) : device[meta.pages[j]] # Fresh
  BY DEF TierInv, SavedOK
<1>8. device[d] # Fresh
  <2>1. x.ticket \in Ticket
    BY <1>4 DEF EntryRecords
  <2>2. x.ticket # NoTicket
    BY <2>1, StoreShape DEF Ticket, Key, NoTicket
  <2> QED BY <1>3, <2>2 DEF TierInv, SavedOK
<1> HIDE DEF meta
<1>9. store.next_key < MaxKeys
  <2> DEFINE rest == ToSet(pending) \ {x}
  <2>1. /\ Cardinality(DeferredIn(rest)) \in Nat
        /\ store.next_key + 1 + Cardinality(DeferredIn(rest)) <= next_ticket
    BY <1>4, <1>5, DeferredLeaves DEF TierInv
  <2>2. next_ticket \in Nat /\ next_ticket <= MaxKeys /\ store.next_key \in Nat /\ MaxKeys \in Nat
    BY NextIsNat, StoreShape DEF TierInv
  <2> HIDE DEF rest
  <2> QED BY <2>1, <2>2
<1>10. StoreInv(store, plans) /\ WrittenOK(stream, memory, device)
  BY CurrentBooks DEF TierInv
<1>11. IssueOK(meta, o)
  BY <1>2, <1>7, <1>9, <1>10, IssuesKeep
<1>12. WrittenOK(o.stream, o.memory, device) /\ (o.plan # Absent => o.plan.key = store.next_key)
  BY <1>2, <1>7, <1>8, <1>9, <1>10, IssuesWritten
<1> DEFINE books == BooksAfter(o)
<1>13. /\ BooksOK(books) /\ books.store = o.store
       /\ o.result = "issued" =>
             /\ books.plans = [plans EXCEPT ![o.plan.key] = o.plan]
             /\ o.plan.key \in Key /\ o.plan.meta = meta /\ o.plan # Absent
  BY <1>11, IssuePlans DEF TierInv
<1>14. Older(store, plans, o.store, books.plans)
  BY <1>11, <1>12, IssueOlder DEF TierInv
<1>15. IF o.result = "issued"
       THEN WaitAndSettle(books, o.plan, o.stream, o.memory, x.payload)
       ELSE /\ TakesBooks(books) /\ stream' = o.stream
            /\ memory' = Unowned(o.store, o.memory)
  BY <1>2 DEF x
<1> HIDE DEF books
<1>16. CASE o.result = "issued"
  <2> DEFINE k == o.plan.key
  <2>1. /\ books.plans = [plans EXCEPT ![k] = o.plan] /\ k \in Key
        /\ o.plan.meta = x.payload /\ o.plan # Absent
        /\ plans \in [Key -> PlanRecords \cup {Absent}]
    BY <1>6, <1>13, <1>16, CurrentBooks DEF TierInv
  <2> HIDE DEF k
  <2>2. books.plans[k] = o.plan /\ k \in HasPlan(books.plans)
    BY <2>1 DEF HasPlan
  <2>3. WaitAndSettle(books, books.plans[k], o.stream, o.memory, books.plans[k].meta)
    BY <1>15, <1>16, <2>1, <2>2
  <2>4. Older(books.store, books.plans, store', plans') /\ WrittenOK(stream', memory', device)
    BY <1>12, <1>13, <2>2, <2>3, WaitOlder
  <2>5. Older(o.store, books.plans, store', plans')
    BY <1>13, <2>4
  <2> QED BY <1>1, <1>14, <2>4, <2>5, OlderTrans
<1>17. CASE o.result # "issued"
  <2>1. TakesBooks(books) /\ stream' = o.stream /\ memory' = Unowned(o.store, o.memory)
    BY <1>15, <1>17
  <2>2. 0 \in 0..Len(o.stream)
    BY <1>12 DEF WrittenOK
  <2>3. WrittenOK(o.stream, Unowned(o.store, o.memory), device)
    BY <1>12, <2>2, ExecutedWritten
  <2>4. Older(store, plans, store', plans')
    BY <1>13, <1>14, <2>1 DEF TakesBooks
  <2> QED BY <1>1, <2>1, <2>3, <2>4
<1> QED BY <1>16, <1>17

\* An eviction, whatever became of the snapshot's store: what the tiers see of it.
LEMMA EvictEffect ==
    ASSUME TierInv, NEW d \in Arena, saved[d] # Empty, Evict(d)
    PROVE  /\ CacheInv' /\ Older(store, plans, store', plans')
           /\ WrittenOK(stream', memory', device) /\ Dropped(d)
<1>1. CacheInv'
  BY EvictCleanKeeps, EvictIssuedKeeps, EvictDeferredKeeps, EvictFailedKeeps DEF TierInv, Evict
<1>2. Older(store, plans, store, plans)
  BY NextIsNat DEF TierInv, Older
<1>3. WrittenOK(stream, memory, device)
  BY DEF TierInv
<1>4. CASE EvictClean(d)
  <2>1. Dropped(d) /\ UNCHANGED <<store, plans, stream, memory>>
    BY <1>4 DEF EvictClean, cache_vars
  <2> QED BY <1>1, <1>2, <1>3, <2>1
<1>5. CASE EvictFailed(d)
  <2>1. Dropped(d) /\ UNCHANGED <<store, plans, stream, memory>>
    BY <1>5 DEF EvictFailed
  <2> QED BY <1>1, <1>2, <1>3, <2>1
<1> QED BY <1>1, <1>4, <1>5, IssuedEffect, DeferredEffect DEF Evict

\* What is to be copied stays written after a step that queued or executed copies.
LEMMA WrittenAgesNext ==
    ASSUME WrittenOK(stream', memory', device), Aged(device, device')
    PROVE  WrittenOK(stream', memory', device')
<1> DEFINE str == stream'
<1>1. WrittenOK(str, memory', device)
  OBVIOUS
<1> HIDE DEF str
<1>2. str \in Seq(CopyRecords)
  BY <1>1 DEF WrittenOK
<1>3. \A n \in 1..Len(str) : str[n] \in CopyRecords
  BY <1>2, SequenceFacts
<1>4. \A n \in 1..Len(str) : str[n].from \in PageId \cup Arena
  BY <1>3 DEF CopyRecords
<1>5. WrittenOK(str, memory', device')
  BY <1>1, <1>4 DEF WrittenOK, Aged
<1> QED BY <1>5 DEF str

\* A listed snapshot that leaves its bank through the host cache.
LEMMA DropKeeps ==
    ASSUME TierInv, NEW k \in Kind, NEW d \in ToSet(banks[k]), DropThroughHost(d),
           UNCHANGED <<requests, calling, giving_up>>
    PROVE  TierInv'
<1>1. Evict(d) /\ banks' = [n \in Kind |-> RemoveFirst(banks[n], d)]
  BY DEF DropThroughHost, Without
<1>2. d \in Arena /\ saved[d] # Empty
  BY ListedFacts
<1>3. /\ CacheInv' /\ Older(store, plans, store', plans')
      /\ WrittenOK(stream', memory', device) /\ Dropped(d)
  BY <1>1, <1>2, EvictEffect
<1>4. /\ requests' = requests /\ calling' = calling /\ giving_up' = giving_up
      /\ QueuedSlots' = QueuedSlots /\ Inserting' = Inserting
  BY DEF QueuedSlots, Inserting
<1>5. \A e \in Arena : saved'[e] = IF e = d THEN Empty ELSE saved[e]
  BY <1>3 DEF Dropped, TierInv, CacheInv, SavedMatch
<1>6. /\ DOMAIN device' = PageId \cup Arena /\ Aged(device, device')
      /\ \A x \in PageId \cup Arena : device'[x] = IF x = d THEN Junk ELSE device[x]
  <2>1. Junk # Fresh
    BY CacheShape
  <2> QED BY <1>2, <1>3, <2>1 DEF Dropped, TierInv, Aged
<1>7. WrittenOK(stream, memory, device)'
  BY <1>3, <1>6, WrittenAgesNext
<1>8. /\ DOMAIN banks' = Kind /\ banks' = [n \in Kind |-> banks'[n]]
      /\ \A n \in Kind : banks'[n] = RemoveFirst(banks[n], d)
  BY <1>1
<1>9. \A n \in Kind : ListOK(n, banks'[n], saved') /\ ToSet(banks'[n]) = ToSet(banks[n]) \ {d}
                      /\ Len(banks'[n]) <= Len(banks[n]) /\ Len(banks'[n]) \in Nat
  <2> SUFFICES ASSUME NEW n \in Kind
               PROVE  /\ ListOK(n, banks'[n], saved') /\ ToSet(banks'[n]) = ToSet(banks[n]) \ {d}
                      /\ Len(banks'[n]) <= Len(banks[n]) /\ Len(banks'[n]) \in Nat
    OBVIOUS
  <2> DEFINE saves == saved'
             t == RemoveFirst(banks[n], d)
  <2>1. ListOK(n, banks[n], saved)
    BY DEF TierInv, BanksOK
  <2>2. \A e \in Arena \ {d} : saves[e] = saved[e]
    BY <1>5
  <2>3. banks'[n] = t
    BY <1>8
  <2> HIDE DEF saves
  <2>4. /\ ListOK(n, t, saves) /\ ToSet(t) = ToSet(banks[n]) \ {d}
        /\ Len(t) <= Len(banks[n]) /\ Len(t) \in Nat
    BY <2>1, <2>2, ListRemoved
  <2> QED BY <2>3, <2>4 DEF saves
<1>10. RequestsOK'
  BY <1>4, <1>6, RequestAges DEF TierInv, RequestsOK
<1>11. CallsOK'
  BY <1>4 DEF TierInv, CallsOK, Elsewhere
<1>12. TargetsOK'
  BY <1>4, <1>5 DEF TierInv, TargetsOK, GivingUpOK
<1>13. SavedOK'
  <2> SUFFICES ASSUME NEW e \in Arena
               PROVE  /\ saved'[e].ticket # NoTicket => device'[e] # Fresh
                      /\ saved'[e] # Empty =>
                            /\ saved'[e].meta \in Meta
                            /\ \A i \in 1..Len(saved'[e].meta.pages) :
                                  device'[saved'[e].meta.pages[i]] # Fresh
    BY DEF SavedOK
  <2>1. CASE e = d
    BY <1>5, <2>1 DEF Empty
  <2>2. CASE e # d
    <3>1. saved'[e] = saved[e]
      BY <1>5, <2>2
    <3>2. /\ saved[e].ticket # NoTicket => device[e] # Fresh
          /\ saved[e] # Empty =>
                /\ saved[e].meta \in Meta
                /\ \A i \in 1..Len(saved[e].meta.pages) : device[saved[e].meta.pages[i]] # Fresh
      BY DEF TierInv, SavedOK
    <3>3. saved[e] # Empty => \A i \in 1..Len(saved[e].meta.pages) : saved[e].meta.pages[i] \in PageId
      <4>1. saved[e] # Empty => saved[e].meta.pages \in Seq(PageId)
        BY <3>2, MetaFacts
      <4> QED BY <4>1, SequenceFacts
    <3> QED BY <1>6, <3>1, <3>2, <3>3 DEF Aged
  <2> QED BY <2>1, <2>2
<1>14. BanksOK'
  <2>1. \A e \in Arena : saved'[e] # Empty =>
            \/ \E n \in Kind : e \in ToSet(banks'[n])
            \/ \E r \in Inserting : requests[r].buffer = e
    <3> SUFFICES ASSUME NEW e \in Arena, saved'[e] # Empty
                 PROVE  \/ \E n \in Kind : e \in ToSet(banks'[n])
                        \/ \E r \in Inserting : requests[r].buffer = e
      OBVIOUS
    <3>1. e # d /\ saved[e] # Empty
      BY <1>5
    <3>2. Listed(e) \/ \E r \in Inserting : requests[r].buffer = e
      BY <3>1 DEF TierInv, BanksOK
    <3> QED BY <1>9, <3>1, <3>2 DEF Listed
  <2> QED BY <1>4, <1>8, <1>9, <2>1 DEF BanksOK, Listed
<1>15. BuffersOK'
  <2>1. /\ \A q, r \in QueuedSlots \cup Inserting : requests[q].buffer = requests[r].buffer => q = r
        /\ \A r \in Inserting :
              LET e == requests[r].buffer IN
              saved[e] # Empty /\ saved[e].meta = MetaOf(r) /\ \A n \in Kind : e \notin ToSet(banks[n])
        /\ \A r \in QueuedSlots :
              LET e == requests[r].buffer IN
              saved[e] = Empty /\ device[e] = OwnBytes(MetaOf(r)) /\ e \notin giving_up.target
        /\ \A e \in Arena : saved[e] = Empty /\ device[e] \notin {Fresh, Junk} =>
              e \in giving_up.target \/ \E r \in QueuedSlots : requests[r].buffer = e
    BY DEF TierInv, BuffersOK, Listed
  <2>2. \A r \in QueuedSlots \cup Inserting : requests[r].buffer \in Arena \ {d}
    BY <1>2, <2>1, BufferFacts
  <2>3. \A r \in QueuedSlots \cup Inserting : MetaOf(r)' = MetaOf(r)
    BY <1>4 DEF MetaOf
  <2>4. \A r \in Inserting :
            LET e == requests'[r].buffer IN
            saved'[e] # Empty /\ saved'[e].meta = MetaOf(r)' /\ \A n \in Kind : e \notin ToSet(banks'[n])
    <3> SUFFICES ASSUME NEW r \in Inserting
                 PROVE  LET e == requests[r].buffer IN
                        /\ saved'[e] # Empty /\ saved'[e].meta = MetaOf(r)'
                        /\ \A n \in Kind : e \notin ToSet(banks'[n])
      BY <1>4
    <3> DEFINE e == requests[r].buffer
    <3>1. saved[e] # Empty /\ saved[e].meta = MetaOf(r) /\ \A n \in Kind : e \notin ToSet(banks[n])
      BY <2>1
    <3>2. saved'[e] = saved[e]
      BY <1>5, <2>2
    <3>3. MetaOf(r)' = MetaOf(r)
      BY <2>3
    <3> HIDE DEF e
    <3>4. \A n \in Kind : e \notin ToSet(banks'[n])
      BY <1>9, <3>1
    <3>5. saved'[e].meta = MetaOf(r)'
      BY ONLY <3>1, <3>2, <3>3
    <3> QED BY <3>1, <3>2, <3>4, <3>5 DEF e
  <2>5. \A r \in QueuedSlots :
            LET e == requests'[r].buffer IN
            saved'[e] = Empty /\ device'[e] = OwnBytes(MetaOf(r)') /\ e \notin giving_up'.target
    BY <1>4, <1>5, <1>6, <2>1, <2>2, <2>3
  <2>6. \A e \in Arena : saved'[e] = Empty /\ device'[e] \notin {Fresh, Junk} =>
            e \in giving_up'.target \/ \E r \in QueuedSlots : requests'[r].buffer = e
    BY <1>4, <1>5, <1>6, <2>1
  <2>7. \A q, r \in QueuedSlots \cup Inserting : requests'[q].buffer = requests'[r].buffer => q = r
    BY <1>4, <2>1
  <2> QED BY <1>4, <2>4, <2>5, <2>6, <2>7 DEF BuffersOK, Listed
<1>16. BanksWithinLimit'
  <2>1. calling' \in Slot /\ requests'[calling'].phase # "attach" =>
            \A n \in Kind : Len(banks[n]) <= LIMIT
    BY <1>4 DEF TierInv, BanksWithinLimit
  <2>2. \A n \in Kind : Len(banks[n]) \in Nat
    BY DEF TierInv, BanksOK, ListOK
  <2> QED BY <1>9, <2>1, <2>2, TierShape DEF BanksWithinLimit
<1>17. HitOK'
  <2> SUFFICES ASSUME NEW r \in Slot, requests[r].phase = "host"
               PROVE  LET rq == requests[r] IN
                      /\ rq.hit \in Key /\ rq.hit < store'.next_key /\ plans'[rq.hit] = Absent
                      /\ rq.hit \in Resident(store)' =>
                            Skipped(rq.prompt, Tokens(store, rq.hit)') > 0
                      /\ \A n \in Kind : \A e \in ToSet(banks'[n]) :
                            ~(Skipped(rq.prompt, saved'[e].meta.tokens) > 0)
    BY <1>4 DEF HitOK
  <2> DEFINE h == requests[r].hit
             p == requests[r].prompt
  <2>1. /\ h \in Key /\ h < store.next_key /\ plans[h] = Absent
        /\ h \in Resident(store) => Skipped(p, Tokens(store, h)) > 0
        /\ \A n \in Kind : \A e \in ToSet(banks[n]) : ~(Skipped(p, saved[e].meta.tokens) > 0)
    BY DEF TierInv, HitOK
  <2>2. h \in Nat /\ store.next_key \in Nat /\ store'.next_key \in Nat
        /\ store.next_key <= store'.next_key
    BY <1>3, <2>1, StoreShape DEF Older, Key
  <2>3. h < store'.next_key
    BY <2>1, <2>2
  <2>4. /\ plans'[h] = Absent
        /\ h \in Resident(store') =>
              h \in Resident(store) /\ store'.snapshots[h].meta = store.snapshots[h].meta
    BY <1>3, <2>1 DEF Older
  <2>5. h \in Resident(store') => Skipped(p, Tokens(store', h)) > 0
    BY <2>1, <2>4 DEF Tokens
  <2>6. \A n \in Kind : \A e \in ToSet(banks'[n]) : ~(Skipped(p, saved'[e].meta.tokens) > 0)
    <3> SUFFICES ASSUME NEW n \in Kind, NEW e \in ToSet(banks'[n])
                 PROVE  ~(Skipped(p, saved'[e].meta.tokens) > 0)
      OBVIOUS
    <3>1. e \in ToSet(banks[n]) /\ e # d
      BY <1>9
    <3>2. e \in Arena
      BY <3>1, ListedFacts
    <3>3. saved'[e] = saved[e]
      BY <1>5, <3>1, <3>2
    <3> QED BY <2>1, <3>1, <3>3
  <2> QED BY <2>1, <2>3, <2>4, <2>5, <2>6 DEF Resident, Tokens
<1> QED BY <1>3, <1>6, <1>7, <1>10, <1>11, <1>12, <1>13, <1>14, <1>15, <1>16, <1>17 DEF TierInv

\* A snapshot some bank lists leaves through the host cache.
Dropping ==
    /\ \E k \in Kind : \E d \in ToSet(banks[k]) : DropThroughHost(d)
    /\ UNCHANGED <<requests, calling>>

\* Room is made by dropping the snapshot of a bank that was accessed longest ago.
LEMMA MakeRoomDrops ==
    ASSUME TierInv, MakeRoom
    PROVE  Dropping
<1> DEFINE order == banks["prompt"] \o banks["turn"]
<1>1. /\ order # <<>> /\ DropThroughHost(Head(order)) /\ UNCHANGED <<requests, calling>>
  BY DEF MakeRoom
<1>2. /\ "prompt" \in Kind /\ "turn" \in Kind
      /\ banks["prompt"] \in Seq(Arena) /\ banks["turn"] \in Seq(Arena)
  BY DEF TierInv, BanksOK, ListOK, Kind
<1>3. \E k \in Kind : Head(order) \in ToSet(banks[k])
  <2>1. CASE banks["prompt"] # <<>>
    <3> DEFINE s == banks["prompt"]
               t == banks["turn"]
    <3>1. s \in Seq(Arena) /\ t \in Seq(Arena) /\ s # <<>>
      BY <1>2, <2>1
    <3>2. 1 \in 1..Len(s) /\ DOMAIN s = 1..Len(s)
      BY <2>1, <3>1, HeadTailFacts, SequenceFacts
    <3> HIDE DEF s, t
    <3>3. s \o t \in Seq(Arena) /\ (s \o t)[1] = s[1]
      BY <3>1, <3>2, ConcatFacts
    <3>4. s \o t # <<>>
      BY <1>1 DEF order, s, t
    <3>5. Head(s \o t) = s[1]
      BY <3>3, <3>4, HeadTailFacts
    <3> QED BY <1>2, <3>2, <3>5 DEF ToSet, order, s, t
  <2>2. CASE banks["prompt"] = <<>>
    <3>1. Head(order) = banks["turn"][1] /\ 1 \in DOMAIN banks["turn"]
      BY <1>1, <1>2, <2>2
    <3> QED BY <1>2, <3>1 DEF ToSet
  <2> QED BY <2>1, <2>2
<1> HIDE DEF order
<1> QED BY <1>1, <1>3 DEF Dropping

\* A bank makes room for an insertion by dropping what is in its way.
LEMMA MakeBankRoomDrops ==
    ASSUME TierInv, NEW r \in Slot, MakeBankRoom(r)
    PROVE  Dropping
<1> DEFINE k == requests[r].kind
<1>1. PICK d \in InTheWay(k, requests[r].tokens) : DropThroughHost(d)
  BY DEF MakeBankRoom
<1>2. UNCHANGED <<requests, calling>> /\ k \in Kind
  BY CallFacts DEF MakeBankRoom, RequestOK, RequestRecords
<1>3. d \in ToSet(banks[k])
  <2>1. banks[k] \in Seq(Arena)
    BY <1>2 DEF TierInv, BanksOK, ListOK
  <2>2. Len(banks[k]) >= LIMIT => Head(banks[k]) \in ToSet(banks[k])
    <3> SUFFICES ASSUME Len(banks[k]) >= LIMIT PROVE Head(banks[k]) \in ToSet(banks[k])
      OBVIOUS
    <3>1. banks[k] # <<>>
      BY <2>1, TierShape
    <3>2. Head(banks[k]) = banks[k][1] /\ 1 \in DOMAIN banks[k]
      BY <2>1, <3>1
    <3> QED BY <3>2 DEF ToSet
  <2> HIDE DEF k
  <2> QED BY <1>1, <2>2 DEF InTheWay, SameKey
<1> HIDE DEF k
<1> QED BY <1>1, <1>2, <1>3 DEF Dropping

\* The eviction that follows an insertion.
LEMMA EvictOverDrops ==
    ASSUME TierInv, EvictOver
    PROVE  Dropping
<1>1. PICK k \in Over : DropThroughHost(Head(banks[k]))
  BY DEF EvictOver
<1>2. UNCHANGED <<requests, calling>> /\ k \in Kind /\ Len(banks[k]) > LIMIT
  BY DEF EvictOver, Over
<1>3. banks[k] \in Seq(Arena)
  BY <1>2 DEF TierInv, BanksOK, ListOK
<1>4. banks[k] # <<>>
  BY <1>2, <1>3, TierShape
<1>5. Head(banks[k]) = banks[k][1] /\ 1 \in DOMAIN banks[k]
  BY <1>3, <1>4
<1>6. Head(banks[k]) \in ToSet(banks[k])
  BY <1>5 DEF ToSet
<1> QED BY <1>1, <1>2, <1>6 DEF Dropping

-----------------------------------------------------------------------------
(* Restoring a snapshot from the host. *)

\* Whatever a restore's copies write was read from a slab.
LEMMA UploadedFrom ==
    ASSUME NEW copies \in Seq(UploadRecords), NEW x \in PageId \cup Arena
    PROVE  \/ Uploaded(copies)[x] = device[x]
           \/ \E b \in Slab : Uploaded(copies)[x] = memory[b]
<1>1. DOMAIN copies = 1..Len(copies) /\ Len(copies) \in Nat
      /\ \A n \in 1..Len(copies) : copies[n] \in UploadRecords
  BY SequenceFacts
<1> DEFINE W == Writes(copies, x)
<1>2. Uploaded(copies)[x] = IF W = {} THEN device[x] ELSE memory[copies[Max(W)].from]
  BY DEF Uploaded
<1>3. /\ W \in SUBSET Nat /\ \A y \in W : y <= Len(copies)
      /\ \A n : n \in W <=> n \in 1..Len(copies) /\ copies[n].to = x
  BY <1>1 DEF Writes
<1> HIDE DEF W
<1>4. W # {} => Max(W) \in W
  BY <1>1, <1>3, MaxProperties
<1>5. W # {} => copies[Max(W)].from \in Slab
  BY <1>1, <1>3, <1>4 DEF UploadRecords
<1> QED BY <1>2, <1>5

\* The device after a restore of snapshot s to pages ids and buffer d.
LEMMA RestoredDevice ==
    ASSUME DOMAIN device = PageId \cup Arena, WrittenOK(stream, memory, device),
           NEW s, s.pages \in Seq(Slab), s.own \subseteq Slab, NEW d \in Arena,
           NEW ids \in Seq(PageId), Len(ids) = Len(s.pages), Injective(ids),
           device' = Uploaded(Uploads(s, d, ids))
    PROVE  /\ DOMAIN device' = PageId \cup Arena /\ Aged(device, device')
           /\ \A i \in 1..Len(ids) : device'[ids[i]] # Fresh
           /\ \A e \in Arena \ {d} : device'[e] = device[e]
<1> DEFINE u == Uploads(s, d, ids)
<1>1. /\ DOMAIN ids = 1..Len(ids) /\ DOMAIN s.pages = 1..Len(s.pages)
      /\ \A i \in 1..Len(ids) : ids[i] \in PageId /\ s.pages[i] \in Slab
  BY SequenceFacts
<1>2. /\ u \in Seq(UploadRecords)
      /\ ToSet(u) = {PageUpload(s, ids, i) : i \in DOMAIN ids} \cup {PartUpload(b, d) : b \in s.own}
  BY <1>1, UploadsFacts
<1> HIDE DEF u
<1>3. ToSet(u) = {u[n] : n \in 1..Len(u)}
  BY <1>2, SequenceFacts
<1>4. device' = Uploaded(u)
  BY DEF u
<1>5. DOMAIN device' = PageId \cup Arena
  BY <1>4 DEF Uploaded
<1>6. Aged(device, device')
  <2> SUFFICES ASSUME NEW x \in PageId \cup Arena, device[x] # Fresh PROVE device'[x] # Fresh
    BY DEF Aged
  <2>1. device'[x] = device[x] \/ \E b \in Slab : device'[x] = memory[b]
    BY <1>2, <1>4, UploadedFrom
  <2> QED BY <2>1 DEF WrittenOK
<1>7. \A i \in 1..Len(ids) : device'[ids[i]] # Fresh
  <2> SUFFICES ASSUME NEW i \in 1..Len(ids) PROVE device'[ids[i]] # Fresh
    OBVIOUS
  <2> DEFINE x == ids[i]
  <2>1. x \in PageId /\ x \in PageId \cup Arena /\ x # d
    BY <1>1, CacheShape
  <2>2. PageUpload(s, ids, i) \in ToSet(u)
    BY <1>1, <1>2
  <2>3. \E n \in 1..Len(u) : u[n].to = x
    BY <1>3, <2>2 DEF PageUpload
  <2>4. \A n \in 1..Len(u) : u[n].to = x => u[n].from = s.pages[i]
    <3> SUFFICES ASSUME NEW n \in 1..Len(u), u[n].to = x PROVE u[n].from = s.pages[i]
      OBVIOUS
    <3>1. u[n] \in ToSet(u)
      BY <1>3
    <3>2. u[n] \notin {PartUpload(b, d) : b \in s.own}
      BY <2>1 DEF PartUpload
    <3>3. PICK j \in 1..Len(ids) : u[n] = PageUpload(s, ids, j)
      BY <1>1, <1>2, <3>1, <3>2
    <3>4. ids[j] = ids[i] /\ u[n].from = s.pages[j]
      BY <3>3 DEF PageUpload
    <3>5. j = i
      BY <1>1, <3>4 DEF Injective
    <3> QED BY <3>4, <3>5
  <2>5. Uploaded(u)[x] = memory[s.pages[i]]
    <3> DEFINE b == s.pages[i]
    <3>1. \A n \in 1..Len(u) : u[n].to = x => u[n].from = b
      BY <2>4
    <3> HIDE DEF b, x
    <3>2. Uploaded(u)[x] = memory[b]
      BY <1>2, <2>1, <2>3, <3>1, UploadedFacts
    <3> QED BY <3>2 DEF b
  <2> QED BY <1>1, <1>4, <2>5 DEF WrittenOK
<1>8. \A e \in Arena \ {d} : device'[e] = device[e]
  <2> SUFFICES ASSUME NEW e \in Arena \ {d} PROVE device'[e] = device[e]
    OBVIOUS
  <2>1. \A n \in 1..Len(u) : u[n].to # e
    <3> SUFFICES ASSUME NEW n \in 1..Len(u) PROVE u[n].to # e
      OBVIOUS
    <3>1. u[n] \in {PageUpload(s, ids, i) : i \in DOMAIN ids} \cup {PartUpload(b, d) : b \in s.own}
      BY <1>2, <1>3
    <3> QED BY <1>1, <3>1, CacheShape DEF PageUpload, PartUpload
  <2> QED BY <1>2, <1>4, <2>1, UploadedFacts
<1> QED BY <1>5, <1>6, <1>7, <1>8

\* A snapshot that comes back from the host is retained and listed.
LEMMA RestoreFromHostKeeps ==
    ASSUME TierInv, NEW r \in Slot, RestoreFromHost(r), giving_up' = giving_up
    PROVE  TierInv'
<1> DEFINE k == requests[r].hit
           s == store.snapshots[k]
           ids == SubSeq(Unused, 1, Len(s.pages))
           m == [s.meta EXCEPT !.pages = ids]
           x == [requests[r] EXCEPT !.phase = "attach"]
<1>1. /\ Calls(r) /\ requests[r].phase = "host" /\ k \in Resident(store)
      /\ Len(Unused) >= Len(s.pages) /\ Goes(r, x) /\ calling' = calling
  BY DEF RestoreFromHost
<1>2. PICK d \in Arena :
          /\ Takeable(d) /\ Restore(k, d, ids)
          /\ banks' = [banks EXCEPT ![s.meta.kind] = Append(banks[s.meta.kind], d)]
  BY DEF RestoreFromHost
<1>3. /\ calling = r /\ giving_up = NoTarget /\ giving_up.target = {}
      /\ RequestOK(requests[r], device)
      /\ \A i \in Kind : Len(banks[i]) \in Nat /\ Len(banks[i]) <= LIMIT
  BY <1>1, CallFacts
<1>4. /\ m \in Meta /\ device' = Uploaded(Uploads(s, d, ids))
      /\ saved' = [saved EXCEPT ![d] = [ticket |-> NoTicket, meta |-> m]]
      /\ UNCHANGED <<stream, memory, plans>>
  BY <1>2 DEF Restore, RestoresTo
<1>5. /\ s \in SnapshotRecords /\ s.pages \in Seq(Slab) /\ s.own \subseteq Slab /\ s.meta \in Meta
  BY <1>1, ResidentFacts DEF SnapshotRecords
<1>6. /\ ids \in Seq(PageId) /\ Len(ids) = Len(s.pages) /\ Injective(ids)
  <2>1. Len(s.pages) \in Nat
    BY ONLY <1>5, SequenceFacts
  <2>2. Len(Unused) \in Nat
    BY ONLY UnusedFacts
  <2>3. Len(Unused) >= Len(s.pages)
    BY ONLY <1>1
  <2> HIDE DEF s
  <2>4. Len(s.pages) \in 0..Len(Unused)
    BY ONLY <2>1, <2>2, <2>3
  <2> QED BY <2>4, FirstUnused
<1>7. m.pages = ids /\ m.kind = s.meta.kind /\ m.tokens = s.meta.tokens /\ m.kind \in Kind
  <2>1. s.meta = [kind |-> s.meta.kind, tokens |-> s.meta.tokens, pages |-> s.meta.pages,
                  parts |-> s.meta.parts]
    BY <1>5, MetaShape
  <2> HIDE DEF ids, s
  <2>2. m.pages = ids /\ m.kind = s.meta.kind /\ m.tokens = s.meta.tokens
    BY ONLY <2>1
  <2> HIDE DEF m
  <2> QED BY <1>4, <2>2, MetaFacts
<1>8. CacheInv'
  <2> HIDE DEF m, ids, s
  <2>1. Restore(k, d, m.pages)
    BY <1>2, <1>7
  <2> QED BY <1>1, <1>4, <2>1, RestoreKeeps DEF TierInv
<1>9. /\ DOMAIN device' = PageId \cup Arena /\ Aged(device, device')
      /\ \A i \in 1..Len(ids) : device'[ids[i]] # Fresh
      /\ \A e \in Arena \ {d} : device'[e] = device[e]
  <2> HIDE DEF ids, s
  <2> QED BY <1>4, <1>5, <1>6, RestoredDevice DEF TierInv
<1>10. RequestOK(x, device)
  BY <1>1, <1>3, PhaseChanged DEF Phases
<1>11. x.phase = "attach" /\ x.queues = requests[r].queues /\ ~requests[r].queues
  BY <1>1, <1>3 DEF RequestOK, PhaseOK, RequestRecords
<1>12. QueuedSlots = {}
  BY <1>3, <1>11, QueuesFacts
<1>13. saved[d] = Empty
  BY <1>2, TakeableFacts
<1>14. \A e \in Arena : saved'[e] = IF e = d THEN [ticket |-> NoTicket, meta |-> m] ELSE saved[e]
  BY <1>4 DEF TierInv, CacheInv, SavedMatch
<1>15. [ticket |-> NoTicket, meta |-> m] # Empty
  <2>1. Empty.meta.kind \notin Kind
    BY DEF Empty, NoPayload, Kind
  <2> HIDE DEF m
  <2> QED BY <1>7, <2>1
<1>16. \A n \in Kind : \A e \in ToSet(banks[n]) : saved[e].meta.tokens # m.tokens
  <2>1. /\ Skipped(requests[r].prompt, Tokens(store, k)) > 0
        /\ \A n \in Kind : \A e \in ToSet(banks[n]) :
              ~(Skipped(requests[r].prompt, saved[e].meta.tokens) > 0)
    BY <1>1 DEF TierInv, HitOK
  <2>2. Tokens(store, k) = m.tokens
    BY <1>7 DEF Tokens
  <2> QED BY <2>1, <2>2
<1> HIDE DEF x, m, ids, s, k
<1>17. \A n \in Kind : d \notin ToSet(banks[n])
  BY <1>13, ListedFacts
<1>18. /\ DOMAIN banks = Kind /\ banks = [n \in Kind |-> banks[n]]
       /\ \A n \in Kind : ListOK(n, banks[n], saved)
  BY DEF TierInv, BanksOK
<1>19. /\ DOMAIN banks' = Kind /\ banks' = [n \in Kind |-> banks'[n]]
       /\ \A n \in Kind : banks'[n] = IF n = m.kind THEN Append(banks[n], d) ELSE banks[n]
  BY <1>2, <1>7, <1>18
<1>20. \A n \in Kind : \A e \in ToSet(banks[n]) : e \in Arena /\ e # d /\ saved'[e] = saved[e]
  BY <1>14, <1>17, ListedFacts
<1>21. \A n \in Kind : /\ ListOK(n, banks'[n], saved')
                       /\ ToSet(banks'[n]) = IF n = m.kind THEN ToSet(banks[n]) \cup {d}
                                             ELSE ToSet(banks[n])
  <2> SUFFICES ASSUME NEW n \in Kind
               PROVE  /\ ListOK(n, banks'[n], saved')
                      /\ ToSet(banks'[n]) = IF n = m.kind THEN ToSet(banks[n]) \cup {d}
                                            ELSE ToSet(banks[n])
    OBVIOUS
  <2> DEFINE saves == saved'
             list == banks[n]
  <2>1. ListOK(n, list, saved) /\ d \notin ToSet(list)
    BY <1>17, <1>18
  <2>2. \A e \in ToSet(list) : saves[e] = saved[e]
    BY <1>20
  <2>3. saves[d] # Empty /\ saves[d].meta = m
    BY <1>14, <1>15
  <2>4. \A e \in ToSet(list) : saved[e].meta.tokens # saves[d].meta.tokens
    BY <1>16, <2>3
  <2>5. CASE n = m.kind
    <3>1. banks'[n] = Append(list, d)
      BY <1>19, <2>5
    <3>2. saves[d].meta.kind = n
      BY <2>3, <2>5
    <3> HIDE DEF saves, list
    <3>3. ListOK(n, Append(list, d), saves) /\ ToSet(Append(list, d)) = ToSet(list) \cup {d}
      BY <2>1, <2>2, <2>3, <2>4, <3>2, ListAppended
    <3> QED BY <2>5, <3>1, <3>3 DEF saves, list
  <2>6. CASE n # m.kind
    <3>1. banks'[n] = list
      BY <1>19, <2>6
    <3> HIDE DEF saves
    <3>2. ListOK(n, list, saves)
      BY <2>1, <2>2 DEF ListOK
    <3> QED BY <2>6, <3>1, <3>2 DEF saves
  <2> QED BY <2>5, <2>6
<1>22. RequestsOK'
  BY <1>1, <1>9, <1>10, RequestAges, RequestsStep DEF TierInv
<1>23. /\ requests'[r] = x /\ \A q \in Slot \ {r} : requests'[q] = requests[q]
       /\ QueuedSlots' = {} /\ Inserting' = {} /\ Inserting = {}
  <2>1. /\ QueuedSlots' = (QueuedSlots \ {r}) \cup (IF x.phase = "queued" THEN {r} ELSE {})
        /\ Inserting' = (Inserting \ {r}) \cup (IF x.phase = "insert" THEN {r} ELSE {})
        /\ requests'[r] = x /\ \A q \in Slot \ {r} : requests'[q] = requests[q]
    BY <1>1, SlotSets DEF TierInv
  <2>2. Inserting \subseteq {r} /\ r \notin Inserting
    BY <1>1, <1>3, NoInserting DEF Inserting
  <2> QED BY <1>11, <1>12, <2>1, <2>2
<1>24. CallsOK'
  <2>1. ~Away(x)
    BY <1>11 DEF Away, NoRequest
  <2> QED BY <1>1, <1>3, <1>11, <1>12, <1>23, <2>1, CallsStep DEF TierInv, CallsOK
<1>25. TargetsOK' /\ HitOK'
  BY <1>1, <1>3, <1>11, NoTargetOK, NoHit
<1>26. WrittenOK(stream, memory, device)'
  BY <1>4, <1>9, WrittenAges DEF TierInv
<1>27. SavedOK'
  <2> SUFFICES ASSUME NEW e \in Arena
               PROVE  /\ saved'[e].ticket # NoTicket => device'[e] # Fresh
                      /\ saved'[e] # Empty =>
                            /\ saved'[e].meta \in Meta
                            /\ \A i \in 1..Len(saved'[e].meta.pages) :
                                  device'[saved'[e].meta.pages[i]] # Fresh
    BY DEF SavedOK
  <2>1. CASE e = d
    <3>1. saved'[e].ticket = NoTicket /\ saved'[e].meta = m
      BY <1>14, <2>1
    <3> QED BY <1>4, <1>7, <1>9, <3>1
  <2>2. CASE e # d
    <3>1. saved'[e] = saved[e]
      BY <1>14, <2>2
    <3>2. /\ saved[e].ticket # NoTicket => device[e] # Fresh
          /\ saved[e] # Empty =>
                /\ saved[e].meta \in Meta
                /\ \A i \in 1..Len(saved[e].meta.pages) : device[saved[e].meta.pages[i]] # Fresh
      BY DEF TierInv, SavedOK
    <3>3. saved[e] # Empty => \A i \in 1..Len(saved[e].meta.pages) : saved[e].meta.pages[i] \in PageId
      <4>1. saved[e] # Empty => saved[e].meta.pages \in Seq(PageId)
        BY <3>2, MetaFacts
      <4> QED BY <4>1, SequenceFacts
    <3> QED BY <1>9, <3>1, <3>2, <3>3 DEF Aged
  <2> QED BY <2>1, <2>2
<1>28. BanksOK'
  <2>1. \A e \in Arena : saved'[e] # Empty => \E n \in Kind : e \in ToSet(banks'[n])
    <3> SUFFICES ASSUME NEW e \in Arena, saved'[e] # Empty
                 PROVE  \E n \in Kind : e \in ToSet(banks'[n])
      OBVIOUS
    <3>1. CASE e = d
      BY <1>7, <1>21, <3>1
    <3>2. CASE e # d
      <4>1. saved[e] # Empty
        BY <1>14, <3>2
      <4>2. Listed(e)
        BY <1>23, <4>1 DEF TierInv, BanksOK
      <4> QED BY <1>21, <4>2 DEF Listed
    <3> QED BY <3>1, <3>2
  <2> QED BY <1>19, <1>21, <2>1 DEF BanksOK, Listed
<1>29. BuffersOK'
  <2>1. \A e \in Arena : saved[e] = Empty => device[e] \in {Fresh, Junk}
    BY <1>3, <1>12 DEF TierInv, BuffersOK
  <2>2. \A e \in Arena : saved'[e] = Empty => device'[e] \in {Fresh, Junk}
    BY <1>9, <1>14, <1>15, <2>1
  <2> QED BY <1>23, <2>2 DEF BuffersOK
<1>30. BanksWithinLimit'
  BY <1>1, <1>3, <1>11, <1>23 DEF BanksWithinLimit
<1> QED BY <1>8, <1>9, <1>22, <1>24, <1>25, <1>26, <1>27, <1>28, <1>29, <1>30 DEF TierInv

-----------------------------------------------------------------------------
(* The invariant holds in every state. *)

\* Before the first request nothing is retained, listed or copied.
LEMMA InitTierInv == TierInit => TierInv
<1> SUFFICES ASSUME TierInit PROVE TierInv
  OBVIOUS
<1>1. /\ CacheInit /\ banks = [n \in Kind |-> <<>>]
      /\ requests = [r \in Slot |-> NoRequest] /\ calling = NoSlot
  BY DEF TierInit
<1>2. /\ stream = <<>> /\ memory = [b \in Slab |-> Junk]
      /\ device = [x \in PageId \cup Arena |-> Fresh]
      /\ saved = [d \in Arena |-> Empty] /\ giving_up = NoTarget
  BY <1>1 DEF CacheInit
<1>3. CacheInv
  BY <1>1, InitCacheInv
<1>4. RequestsOK
  BY <1>1 DEF RequestsOK
<1>5. QueuedSlots = {} /\ Inserting = {}
  BY <1>1 DEF QueuedSlots, Inserting, NoRequest
<1>6. CallsOK
  <2>1. NoSlot \notin Slot /\ Lanes \in Nat
    BY TierShape
  <2>2. Cardinality(QueuedSlots) <= Lanes
    BY <1>5, <2>1, FS_EmptySet
  <2> QED BY <1>1, <2>1, <2>2 DEF CallsOK, Elsewhere
<1>7. TargetsOK
  <2>1. NoTarget = [uploads |-> <<>>, target |-> {}]
    BY DEF NoTarget
  <2>2. <<>> \in Seq(UploadRecords) /\ Len(<<>>) = 0
    OBVIOUS
  <2> QED BY <1>2, <2>1, <2>2 DEF TargetsOK, GivingUpOK
<1>8. SavedOK
  BY <1>2 DEF SavedOK, Empty
<1>9. \A n \in Kind : ListOK(n, banks[n], saved)
  <2>1. <<>> \in Seq(Arena) /\ DOMAIN <<>> = {} /\ ToSet(<<>>) = {}
    BY DEF ToSet
  <2> QED BY <1>1, <2>1 DEF ListOK, Injective
<1>10. BanksOK
  BY <1>1, <1>2, <1>9 DEF BanksOK
<1>11. BuffersOK
  BY <1>2, <1>5 DEF BuffersOK
<1>12. BanksWithinLimit
  BY <1>1, TierShape DEF BanksWithinLimit
<1>13. WrittenOK(stream, memory, device)
  <2>1. <<>> \in Seq(CopyRecords) /\ Len(<<>>) = 0
    OBVIOUS
  <2> QED BY <1>2, <2>1, CacheShape DEF WrittenOK
<1>14. HitOK
  BY <1>1 DEF HitOK, NoRequest
<1> QED BY <1>2, <1>3, <1>4, <1>6, <1>7, <1>8, <1>10, <1>11, <1>12, <1>13, <1>14 DEF TierInv

\* Nothing changes.
LEMMA TierStutters ==
    ASSUME TierInv, UNCHANGED vars
    PROVE  TierInv'
<1>1. /\ UNCHANGED <<store, plans, pending, next_ticket, payloads, held, settled, saved>>
      /\ UNCHANGED <<stream, memory, device, giving_up>> /\ UNCHANGED tier_vars
      /\ UNCHANGED <<banks, requests, calling>>
  BY DEF vars, all_vars, cache_vars, engine_vars, tier_vars
<1>2. CacheInv'
  BY <1>1, SameCache DEF TierInv
<1>3. TargetOnly
  BY <1>1 DEF TierInv, TargetOnly, Aged
<1>4. TargetsOK'
  BY <1>1 DEF TierInv, TargetsOK, GivingUpOK
<1>5. WrittenOK(stream, memory, device)'
  BY <1>1 DEF TierInv, WrittenOK
<1>6. HitOK'
  BY <1>1, SameHits DEF TierInv
<1> QED BY <1>1, <1>2, <1>3, <1>4, <1>5, <1>6, StillKeeps

\* Every action keeps the invariant.
LEMMA NextTierInv == TierInv /\ [TierNext]_vars => TierInv'
<1> SUFFICES ASSUME TierInv, [TierNext]_vars PROVE TierInv'
  OBVIOUS
<1>1. CASE UNCHANGED vars
  BY <1>1, TierStutters
<1>2. CASE \E r \in Slot : GiveUpRestore(r)
  BY <1>2, GiveUpKeeps
<1>3. CASE (UploadNext \/ ReleaseTarget) /\ UNCHANGED tier_vars
  BY <1>3, UploadKeeps, ReleaseKeeps
<1>4. ASSUME NEW r \in Slot, giving_up' = giving_up,
             \/ \E p \in Prompts : Admit(r, p)
             \/ AttachDevice(r) \/ HitHost(r) \/ Miss(r)
             \/ RestoreFromHost(r) \/ AbandonRestore(r) \/ Prefill(r)
             \/ MakeBankRoom(r) \/ RetainNow(r) \/ SkipRetain(r) \/ QueueRetain(r)
             \/ PollRetain(r) \/ AbortRetain(r) \/ Insert(r)
             \/ \E t \in Vocabulary : Decode(r, t)
             \/ \E queues \in BOOLEAN : Retire(r, queues)
             \/ EndRequest(r)
      PROVE  TierInv'
  <2>1. CASE \E p \in Prompts : Admit(r, p)
    BY <1>4, <2>1, AdmitKeeps
  <2>2. CASE AttachDevice(r) \/ HitHost(r) \/ Miss(r)
    BY <1>4, <2>2, AttachKeeps, HitHostKeeps, MissKeeps
  <2>3. CASE RestoreFromHost(r) \/ AbandonRestore(r) \/ Prefill(r)
    BY <1>4, <2>3, RestoreFromHostKeeps, AbandonKeeps, PrefillKeeps
  <2>4. CASE MakeBankRoom(r) \/ RetainNow(r) \/ SkipRetain(r) \/ QueueRetain(r)
    BY <1>4, <2>4, MakeBankRoomDrops, DropKeeps, RetainNowKeeps, SkipKeeps, QueueRetainKeeps
       DEF Dropping
  <2>5. CASE PollRetain(r) \/ AbortRetain(r) \/ Insert(r)
    BY <1>4, <2>5, PollKeeps, AbortKeeps, InsertKeeps
  <2>6. CASE \E t \in Vocabulary : Decode(r, t)
    BY <1>4, <2>6, DecodeKeeps
  <2>7. CASE (\E queues \in BOOLEAN : Retire(r, queues)) \/ EndRequest(r)
    BY <1>4, <2>7, RetireKeeps, EndKeeps
  <2> QED BY <1>4, <2>1, <2>2, <2>3, <2>4, <2>5, <2>6, <2>7
<1>5. ASSUME giving_up' = giving_up,
             \/ MakeRoom \/ EvictOver
             \/ \E id \in PageId : ReusePage(id)
             \/ ObserveCopies \/ RunStream
      PROVE  TierInv'
  <2>1. CASE MakeRoom \/ EvictOver
    <3>1. Dropping
      BY <2>1, MakeRoomDrops, EvictOverDrops
    <3> QED BY <1>5, <3>1, DropKeeps DEF Dropping
  <2>2. CASE (\E id \in PageId : ReusePage(id)) \/ ObserveCopies \/ RunStream
    BY <1>5, <2>2, ReuseKeeps, ObserveKeeps, StreamKeeps
  <2> QED BY <1>5, <2>1, <2>2
<1> QED BY <1>1, <1>2, <1>3, <1>4, <1>5 DEF TierNext

\* The invariant holds in every state of the two tiers.
THEOREM TierInvariant == TierSpec => []TierInv
<1>1. TierInit => TierInv
  BY InitTierInv
<1>2. TierInv /\ [TierNext]_vars => TierInv'
  BY NextTierInv
<1> QED BY <1>1, <1>2, PTL DEF TierSpec

\* The requests of the engine, its retained snapshots and its restores meet what the
\* host cache's own proofs assume of its owner: plans, tickets and payloads stay
\* accounted for behind the real engine (prefix.rs, host_runtime.rs).
THEOREM TierCache == TierSpec => []CacheInv
<1>1. TierInv => CacheInv
  BY DEF TierInv
<1> QED BY <1>1, TierInvariant, PTL

\* Banks list arena buffers, and the table of each request has the pages its rows
\* need: no page too many is kept, none is missing (radix.rs, backing.rs).
THEOREM TierTypes == TierSpec => []TierTypeOK
<1>1. TierInv => TierTypeOK
  <2> SUFFICES ASSUME TierInv PROVE TierTypeOK
    OBVIOUS
  <2>1. banks \in [Kind -> Seq(Arena)]
    <3>1. banks = [n \in Kind |-> banks[n]] /\ \A n \in Kind : banks[n] \in Seq(Arena)
      BY DEF TierInv, BanksOK, ListOK
    <3> QED BY <3>1
  <2>2. calling \in Slot \cup {NoSlot}
    BY DEF TierInv, CallsOK
  <2>3. \A r \in Active :
            LET rq == requests[r] IN
            /\ rq.phase \in Phases /\ rq.prompt \in Prompts /\ rq.kind \in Kind
            /\ rq.table \in Seq(PageId)
            /\ Len(rq.table) * PAGE_TOKENS - Len(rq.tokens) \in 0..PAGE_TOKENS - 1
    <3> TAKE r \in Active
    <3> DEFINE rq == requests[r]
    <3>1. RequestOK(rq, device)
      BY PhaseFacts DEF TierInv, Active
    <3> HIDE DEF rq
    <3>2. rq \in RequestRecords /\ Len(rq.table) = PagesFor(Len(rq.tokens))
      BY <3>1 DEF RequestOK, TableOK
    <3>3. rq.tokens \in Seq(Vocabulary)
      BY <3>2 DEF RequestRecords
    <3>4. PagesFor(Len(rq.tokens)) * PAGE_TOKENS - Len(rq.tokens) \in 0..PAGE_TOKENS - 1
      <4>1. Len(rq.tokens) \in Nat
        BY <3>3
      <4> QED BY ONLY <4>1, PagesOfTokens
    <3>5. /\ rq.phase \in Phases /\ rq.prompt \in Prompts /\ rq.kind \in Kind
          /\ rq.table \in Seq(PageId)
      BY <3>2 DEF RequestRecords
    <3> QED BY <3>2, <3>4, <3>5 DEF rq
  <2> QED BY <2>1, <2>2, <2>3 DEF TierTypeOK
<1> QED BY <1>1, TierInvariant, PTL

\* An arena buffer is free or has exactly one owner, a bank entry or one retention in
\* progress, and no two entries of a bank stand for the same tokens (prefix.rs).
THEOREM BuffersOwned == TierSpec => []BuffersAccounted
<1>1. TierInv => BuffersAccounted
  <2> SUFFICES ASSUME TierInv PROVE BuffersAccounted
    OBVIOUS
  <2>1. ASSUME NEW n \in Kind
        PROVE  /\ \A d \in ToSet(banks[n]) : saved[d] # Empty /\ saved[d].meta.kind = n
               /\ \A i, j \in DOMAIN banks[n] :
                     saved[banks[n][i]].meta.tokens = saved[banks[n][j]].meta.tokens => i = j
    <3>1. ListOK(n, banks[n], saved)
      BY DEF TierInv, BanksOK
    <3>2. \A i \in DOMAIN banks[n] : banks[n][i] \in ToSet(banks[n])
      BY DEF ToSet
    <3> QED BY <3>1, <3>2 DEF ListOK, Injective
  <2>2. ASSUME NEW d \in Arena
        PROVE  LET owners == {n \in Kind : d \in ToSet(banks[n])}
                                 \cup {r \in Active : requests[r].buffer = d}
                   free == \/ saved[d] = Empty /\ device[d] \in {Fresh, Junk}
                           \/ d \in giving_up.target
               IN  Cardinality(owners) = IF free THEN 0 ELSE 1
    <3> DEFINE lists == {n \in Kind : d \in ToSet(banks[n])}
               holders == {r \in Active : requests[r].buffer = d}
               free == \/ saved[d] = Empty /\ device[d] \in {Fresh, Junk}
                       \/ d \in giving_up.target
    <3>1. \A r : r \in holders <=> r \in QueuedSlots \cup Inserting /\ requests[r].buffer = d
      <4>1. ASSUME NEW r \in Active, requests[r].buffer = d
            PROVE  r \in QueuedSlots \cup Inserting
        <5>1. RequestOK(requests[r], device) /\ r \in Slot
          BY PhaseFacts DEF TierInv, Active
        <5>2. d # NoSlot
          BY TierShape
        <5> QED BY <4>1, <5>1, <5>2 DEF RequestOK, PhaseOK, QueuedSlots, Inserting
      <4>2. QueuedSlots \cup Inserting \subseteq Active
        BY DEF QueuedSlots, Inserting, Active
      <4> QED BY <4>1, <4>2
    <3>2. /\ \A q, r \in holders : q = r
          /\ \A r \in holders \cap Inserting : saved[d] # Empty /\ lists = {}
          /\ \A r \in holders \cap QueuedSlots :
                saved[d] = Empty /\ device[d] \notin {Fresh, Junk} /\ d \notin giving_up.target
      <4>1. /\ \A q, r \in QueuedSlots \cup Inserting :
                   requests[q].buffer = requests[r].buffer => q = r
            /\ \A r \in Inserting :
                  LET e == requests[r].buffer IN saved[e] # Empty /\ ~Listed(e)
            /\ \A r \in QueuedSlots :
                  LET e == requests[r].buffer IN
                  saved[e] = Empty /\ device[e] = OwnBytes(MetaOf(r)) /\ e \notin giving_up.target
        BY DEF TierInv, BuffersOK
      <4>2. \A r \in QueuedSlots : OwnBytes(MetaOf(r)) \notin {Fresh, Junk}
        BY BufferFacts, MetaOfFacts, BytesAreTokens
      <4> QED BY <3>1, <4>1, <4>2 DEF Listed
    <3>3. /\ lists # {} => saved[d] # Empty /\ \E n \in Kind : lists = {n}
          /\ saved[d] # Empty => lists # {} \/ \E r \in Inserting : requests[r].buffer = d
      <4>1. ASSUME NEW n \in Kind, d \in ToSet(banks[n])
            PROVE  saved[d] # Empty /\ lists = {n}
        BY <4>1, ListedFacts
      <4>2. saved[d] # Empty => Listed(d) \/ \E r \in Inserting : requests[r].buffer = d
        BY DEF TierInv, BanksOK
      <4> QED BY <4>1, <4>2 DEF Listed
    <3>4. d \in giving_up.target => saved[d] = Empty
      BY DEF TierInv, TargetsOK
    <3>5. saved[d] = Empty /\ device[d] \notin {Fresh, Junk} =>
              d \in giving_up.target \/ \E r \in QueuedSlots : requests[r].buffer = d
      BY DEF TierInv, BuffersOK
    <3>6. Cardinality({}) = 0 /\ \A y : Cardinality({y}) = 1
      BY FS_EmptySet, FS_Singleton
    <3> HIDE DEF lists, holders
    <3>7. \A r \in holders : r \in Inserting \/ r \in QueuedSlots
      BY <3>1
    <3>8. CASE free
      <4>1. lists = {} /\ holders = {}
        BY <3>2, <3>3, <3>4, <3>7, <3>8
      <4>2. lists \cup holders = {}
        BY <4>1
      <4> QED BY <3>6, <3>8, <4>2 DEF lists, holders
    <3>9. CASE ~free
      <4>1. \E y : lists \cup holders = {y}
        <5>1. CASE saved[d] = Empty
          <6>1. lists = {} /\ holders # {}
            BY <3>1, <3>3, <3>5, <3>9, <5>1
          <6> QED BY <3>2, <6>1
        <5>2. CASE saved[d] # Empty
          <6>1. \A r \in holders : r \in Inserting
            BY <3>2, <3>7, <5>2
          <6>2. CASE lists = {}
            <7>1. holders # {}
              BY <3>1, <3>3, <5>2, <6>2
            <7> QED BY <3>2, <6>2, <7>1
          <6>3. CASE lists # {}
            <7>1. holders = {}
              BY <3>2, <6>1, <6>3
            <7> QED BY <3>3, <6>3, <7>1
          <6> QED BY <6>2, <6>3
        <5> QED BY <5>1, <5>2
      <4> QED BY <3>6, <3>9, <4>1 DEF lists, holders
    <3> QED BY <3>8, <3>9 DEF lists, holders
  <2> QED BY <2>1, <2>2 DEF BuffersAccounted
<1> QED BY <1>1, TierInvariant, PTL

\* The buffers that are not free are listed, or held while a copy is queued.
LEMMA OccupiedBuffers ==
    ASSUME TierInv, NEW r \in Slot, calling = r, requests[r].phase \in {"room", "host"}
    PROVE  \A d \in Arena : saved[d] # Empty \/ device[d] \notin {Fresh, Junk} =>
               \/ d \in ToSet(banks["prompt"]) \cup ToSet(banks["turn"])
               \/ \E q \in QueuedSlots : requests[q].buffer = d
<1>1. giving_up.target = {}
  BY DEF TierInv, TargetsOK
<1>2. Inserting = {}
  BY NoInserting DEF Inserting
<1>3. \A d \in Arena : saved[d] = Empty /\ device[d] \notin {Fresh, Junk} =>
          d \in giving_up.target \/ \E q \in QueuedSlots : requests[q].buffer = d
  BY DEF TierInv, BuffersOK
<1>4. \A d \in Arena : saved[d] # Empty => Listed(d)
  BY <1>2 DEF TierInv, BanksOK
<1> QED BY <1>1, <1>3, <1>4 DEF Listed, Kind

\* A retention or a host restore that is about to take an arena buffer finds one: the
\* two banks at their limits and the copies still queued leave one (prefix.rs:246).
THEOREM ArenaCovers == TierSpec => []ArenaCoversRetention
<1>1. TierInv => ArenaCoversRetention
  <2> SUFFICES ASSUME TierInv, NEW r \in Active,
                      requests[r].phase \in {"room", "host"}
               PROVE  \E d \in Arena : Takeable(d)
    BY DEF ArenaCoversRetention, HasBankRoom
  <2> DEFINE prompts == ToSet(banks["prompt"])
             turns == ToSet(banks["turn"])
             copies == {requests[q].buffer : q \in QueuedSlots}
             used == (prompts \cup turns) \cup copies
  <2>1. r \in Slot /\ calling = r
    BY CalledIs DEF TierInv, Active, Phases
  <2>2. \A n \in Kind : /\ IsFiniteSet(ToSet(banks[n])) /\ Cardinality(ToSet(banks[n])) \in Nat
                        /\ Cardinality(ToSet(banks[n])) <= LIMIT
    <3> TAKE n \in Kind
    <3>1. banks[n] \in Seq(Arena) /\ Injective(banks[n])
      BY DEF TierInv, BanksOK, ListOK
    <3>2. Len(banks[n]) <= LIMIT
      BY <2>1 DEF TierInv, BanksWithinLimit
    <3> QED BY <3>1, <3>2, DistinctLen
  <2>3. /\ IsFiniteSet(QueuedSlots) /\ Cardinality(QueuedSlots) \in Nat
        /\ Cardinality(QueuedSlots) <= 1
    <3>1. IsFiniteSet(QueuedSlots) /\ Cardinality(QueuedSlots) \in Nat
      BY TierShape, FS_Subset, FS_CardinalityType DEF QueuedSlots
    <3>2. Cardinality(QueuedSlots) < Lanes \/ QueuedSlots = {}
      BY <2>1, QueuesFacts
    <3> QED BY <3>1, <3>2, FS_EmptySet, TierShape
  <2>4. IsFiniteSet(copies) /\ Cardinality(copies) \in Nat /\ Cardinality(copies) <= 1
    <3>1. CASE QueuedSlots = {}
      <4>1. copies = {}
        BY <3>1
      <4> QED BY <4>1, FS_EmptySet
    <3>2. CASE QueuedSlots # {}
      <4>1. Cardinality(QueuedSlots) # 0
        BY <2>3, <3>2, FS_EmptySet
      <4>2. Cardinality(QueuedSlots) = 1
        BY <2>3, <4>1
      <4>3. PICK q \in QueuedSlots : QueuedSlots = {q}
        BY <2>3, <4>2, FS_Singleton
      <4>4. copies = {requests[q].buffer}
        BY <4>3
      <4> HIDE DEF copies
      <4>5. IsFiniteSet(copies) /\ Cardinality(copies) = 1
        BY <4>4, FS_Singleton
      <4> QED BY <4>5
    <3> QED BY <3>1, <3>2
  <2> HIDE DEF prompts, turns, copies
  <2>5. /\ IsFiniteSet(prompts) /\ Cardinality(prompts) \in Nat /\ Cardinality(prompts) <= LIMIT
        /\ IsFiniteSet(turns) /\ Cardinality(turns) \in Nat /\ Cardinality(turns) <= LIMIT
    BY <2>2 DEF prompts, turns, Kind
  <2>6. /\ IsFiniteSet(prompts \cup turns) /\ Cardinality(prompts \cup turns) \in Nat
        /\ Cardinality(prompts \cup turns) <= 2 * LIMIT
    <3>1. /\ IsFiniteSet(prompts \cup turns)
          /\ Cardinality(prompts \cup turns) =
                Cardinality(prompts) + Cardinality(turns) - Cardinality(prompts \cap turns)
          /\ Cardinality(prompts \cap turns) \in Nat
      BY <2>5, FS_Union, FS_Intersection, FS_CardinalityType
    <3> QED BY <2>5, <3>1, FS_CardinalityType, TierShape
  <2>7. IsFiniteSet(used) /\ Cardinality(used) \in Nat /\ Cardinality(used) <= 2 * LIMIT + 1
    <3> DEFINE both == prompts \cup turns
    <3>1. IsFiniteSet(both) /\ Cardinality(both) \in Nat /\ Cardinality(both) <= 2 * LIMIT
      BY <2>6
    <3> HIDE DEF both
    <3>2. /\ IsFiniteSet(both \cup copies)
          /\ Cardinality(both \cup copies) =
                Cardinality(both) + Cardinality(copies) - Cardinality(both \cap copies)
          /\ Cardinality(both \cap copies) \in Nat
      BY <2>4, <3>1, FS_Union, FS_Intersection, FS_CardinalityType
    <3>3. Cardinality(both \cup copies) \in Nat /\ LIMIT \in Nat
      BY <3>2, FS_CardinalityType, TierShape
    <3>4. Cardinality(both \cup copies) <= 2 * LIMIT + 1
      BY <2>4, <3>1, <3>2, <3>3
    <3> QED BY <3>2, <3>3, <3>4 DEF both
  <2>8. ~(Arena \subseteq used)
    <3> HIDE DEF used
    <3>1. Arena \subseteq used => Cardinality(Arena) <= Cardinality(used)
      BY <2>7, FS_Subset
    <3> QED BY <2>7, <3>1, TierShape
  <2>9. PICK d \in Arena : d \notin used
    BY <2>8
  <2>10. saved[d] = Empty /\ device[d] \in {Fresh, Junk}
    <3>1. /\ d \notin ToSet(banks["prompt"]) \cup ToSet(banks["turn"])
          /\ ~\E q \in QueuedSlots : requests[q].buffer = d
      BY <2>9 DEF prompts, turns, copies
    <3> QED BY <2>1, <3>1, OccupiedBuffers
  <2> DEFINE free(bytes) == {x \in Arena : saved[x] = Empty /\ device[x] = bytes}
  <2>11. CASE free(Junk) # {}
    <3>1. PICK e \in Arena : e \in free(Junk)
      BY <2>11
    <3> QED BY <2>11, <3>1 DEF Takeable
  <2>12. CASE free(Junk) = {}
    <3>1. d \in free(Fresh)
      BY <2>10, <2>12
    <3>2. (CHOOSE x \in free(Fresh) : TRUE) \in free(Fresh)
      BY <3>1
    <3>3. Takeable(CHOOSE x \in free(Fresh) : TRUE)
      BY <2>12, <3>2 DEF Takeable
    <3> QED BY <3>2, <3>3
  <2> QED BY <2>11, <2>12
<1> QED BY <1>1, TierInvariant, PTL

-----------------------------------------------------------------------------
(* What leaves a bank.                                                     *)

Retaining == QueuedSlots \cup Inserting

\* The other of two lanes may have queued a snapshot of the same tokens.
Races(r) == Lanes = 2 /\ requests[r].queues

\* No bank lists the tokens of a snapshot that is about to be inserted, unless two
\* lanes race.
OnlyCopy ==
    \A r \in Retaining :
        \/ Races(r)
        \/ \A d \in ToSet(banks[requests[r].kind]) :
              saved[d].meta.tokens # requests[r].tokens

\* A dropped snapshot has no store in flight.
DropsSettled ==
    \A d \in Arena :
        saved[d] # Empty /\ saved'[d] = Empty =>
            \A i \in DOMAIN pending' : pending'[i].ticket # saved[d].ticket

\* A lane inserts what it queued, over a snapshot of the same tokens that the other
\* lane inserted meanwhile and whose store is in flight.
ReplacesInFlight ==
    \E r \in Inserting :
        /\ Races(r) /\ Insert(r)
        /\ \E d \in SameKey(requests[r].kind, requests[r].tokens), i \in DOMAIN pending :
              pending[i].ticket = saved[d].ticket

\* Nothing new is about to be inserted, nothing new is listed.
Fading ==
    /\ \A r \in Retaining' :
          /\ r \in Retaining
          /\ requests'[r].kind = requests[r].kind /\ requests'[r].tokens = requests[r].tokens
          /\ requests'[r].queues = requests[r].queues
    /\ \A n \in Kind : \A d \in ToSet(banks'[n]) :
          d \in ToSet(banks[n]) /\ saved'[d].meta = saved[d].meta

\* Then no other copy appears.
LEMMA FadingKeeps ==
    ASSUME TierInv, OnlyCopy, Fading
    PROVE  OnlyCopy'
<1> SUFFICES ASSUME NEW r \in Retaining', ~Races(r)', NEW d \in ToSet(banks'[requests'[r].kind])
             PROVE  saved'[d].meta.tokens # requests'[r].tokens
  BY DEF OnlyCopy
<1>1. /\ r \in Retaining /\ ~Races(r)
      /\ requests'[r].kind = requests[r].kind /\ requests'[r].tokens = requests[r].tokens
  BY DEF Fading, Races
<1>2. requests[r].kind \in Kind
  BY <1>1, BufferFacts DEF Retaining, RequestOK, RequestRecords
<1>3. d \in ToSet(banks[requests[r].kind]) /\ saved'[d].meta = saved[d].meta
  BY <1>1, <1>2 DEF Fading
<1> QED BY <1>1, <1>3 DEF OnlyCopy

\* While a request is in a call, only on the other of two lanes is a copy queued.
LEMMA OneAtATime ==
    ASSUME TierInv, NEW r \in Slot, calling = r
    PROVE  \A q \in Retaining \ {r} : Races(q)
<1>1. IsFiniteSet(QueuedSlots) /\ Cardinality(QueuedSlots) \in Nat
  BY TierShape, FS_Subset, FS_CardinalityType DEF QueuedSlots
<1>2. Cardinality(QueuedSlots) = 0 <=> QueuedSlots = {}
  BY <1>1, CountOne
<1>3. QueuedSlots # {} => Lanes = 2 /\ requests[r].queues
  BY <1>1, <1>2, QueuesFacts, TierShape
<1>4. Inserting \subseteq {r}
  BY NoInserting
<1>5. ASSUME NEW q \in QueuedSlots PROVE requests[q].queues
  <2>1. PhaseOK(requests[q]) /\ requests[q].phase = "queued"
    BY <1>5, BufferFacts DEF RequestOK, QueuedSlots
  <2> QED BY <2>1 DEF PhaseOK
<1> QED BY <1>3, <1>4, <1>5 DEF Retaining, Races

\* The others go on waiting for their copies; the request in a call is not about to
\* insert anything.
LEMMA CallAlone ==
    ASSUME TierInv, NEW r \in Slot, calling = r, NEW x, Goes(r, x),
           x.phase \notin {"queued", "insert"}
    PROVE  OnlyCopy'
<1>1. \A q \in Retaining \ {r} : Races(q)
  BY OneAtATime
<1>2. /\ Retaining' = Retaining \ {r} /\ Retaining \subseteq Slot
      /\ \A q \in Slot \ {r} : requests'[q] = requests[q]
  BY SlotSets DEF TierInv, Retaining, QueuedSlots, Inserting
<1>3. \A q \in Retaining' : Races(q)'
  BY <1>1, <1>2 DEF Races
<1> QED BY <1>3 DEF OnlyCopy

\* Outside a call, a request that does not begin a copy leaves the others as they are.
LEMMA IdleFading ==
    ASSUME TierInv, OnlyCopy, NEW r \in Slot, NEW x, Goes(r, x),
           x.phase \notin {"queued", "insert"}, UNCHANGED <<banks, saved>>
    PROVE  OnlyCopy'
<1>1. /\ Retaining' \subseteq Retaining \ {r}
      /\ \A q \in Slot \ {r} : requests'[q] = requests[q]
  BY SlotSets DEF TierInv, Retaining
<1>2. Retaining \subseteq Slot
  BY DEF Retaining, QueuedSlots, Inserting
<1>3. Fading
  BY <1>1, <1>2 DEF Fading
<1> QED BY <1>3, FadingKeeps

\* Steps of the streams and of the cache's tick.
LEMMA StreamFading ==
    ASSUME TierInv, OnlyCopy, UNCHANGED tier_vars, saved' = saved
    PROVE  OnlyCopy' /\ DropsSettled
<1>1. banks' = banks /\ requests' = requests
  BY DEF tier_vars
<1>2. Retaining' = Retaining
  BY <1>1 DEF Retaining, QueuedSlots, Inserting
<1> QED BY <1>1, <1>2 DEF OnlyCopy, DropsSettled, Races

\* An eviction leaves no entry with the ticket of what it drops in the queue.
LEMMA EvictSettles ==
    ASSUME TierInv, NEW d \in Arena, saved[d] # Empty, Evict(d)
    PROVE  /\ DropsSettled
           /\ \A e \in Arena : saved'[e] = IF e = d THEN Empty ELSE saved[e]
<1>1. Dropped(d)
  BY EvictEffect
<1>2. \A e \in Arena : saved'[e] = IF e = d THEN Empty ELSE saved[e]
  BY <1>1 DEF Dropped, TierInv, CacheInv, SavedMatch
<1> DEFINE t == saved[d].ticket
<1>3. CASE EvictClean(d)
  <2>1. pending' = pending /\ PositionOf(t) = {}
    BY <1>3 DEF EvictClean, cache_vars
  <2>2. \A i \in DOMAIN pending' : pending'[i].ticket # t
    BY <2>1 DEF PositionOf
  <2> QED BY <1>2, <2>2 DEF DropsSettled
<1>4. CASE EvictIssued(d) \/ EvictDeferred(d) \/ EvictFailed(d)
  <2>1. PICK i \in PositionOf(t) : Settled(i)
    BY <1>4 DEF EvictIssued, EvictDeferred, EvictFailed
  <2> DEFINE x == pending[i]
  <2>2. i \in DOMAIN pending /\ x.ticket = t
    BY DEF PositionOf
  <2>3. x \in ToSet(pending) /\ ToSet(pending') = ToSet(pending) \ {x}
    BY <1>1, <2>1, <2>2, EntryLeaves DEF TierInv
  <2>4. \A y, z \in ToSet(pending) : y.ticket = z.ticket => y = z
    BY EntriesFinite DEF TierInv, CacheInv, QueueOK
  <2> HIDE DEF x, t
  <2>5. \A y \in ToSet(pending') : y.ticket # t
    BY <2>2, <2>3, <2>4
  <2>6. \A i2 \in DOMAIN pending' : pending'[i2] \in ToSet(pending')
    BY DEF ToSet
  <2> QED BY <1>2, <2>5, <2>6 DEF DropsSettled, t
<1> QED BY <1>2, <1>3, <1>4 DEF Evict

\* A listed snapshot that leaves its bank through the host cache.
LEMMA DropSettles ==
    ASSUME TierInv, OnlyCopy, NEW k \in Kind, NEW d \in ToSet(banks[k]), DropThroughHost(d),
           requests' = requests
    PROVE  OnlyCopy' /\ DropsSettled
<1>1. Evict(d) /\ banks' = [n \in Kind |-> RemoveFirst(banks[n], d)]
  BY DEF DropThroughHost, Without
<1>2. d \in Arena /\ saved[d] # Empty
  BY ListedFacts
<1>3. DropsSettled /\ \A e \in Arena : saved'[e] = IF e = d THEN Empty ELSE saved[e]
  BY <1>1, <1>2, EvictSettles
<1>4. \A n \in Kind : ToSet(banks'[n]) = ToSet(banks[n]) \ {d}
  <2> TAKE n \in Kind
  <2>1. ListOK(n, banks[n], saved)
    BY DEF TierInv, BanksOK
  <2>2. ToSet(RemoveFirst(banks[n], d)) = ToSet(banks[n]) \ {d}
    BY <2>1, ListRemoved
  <2> QED BY <1>1, <2>2
<1>5. \A n \in Kind : \A e \in ToSet(banks[n]) : e \in Arena
  BY ListedFacts
<1>6. Retaining' = Retaining
  BY DEF Retaining, QueuedSlots, Inserting
<1>7. Fading
  BY <1>3, <1>4, <1>5, <1>6 DEF Fading
<1> QED BY <1>3, <1>7, FadingKeeps

\* A snapshot that is retained is the only one of its tokens, unless two lanes race.
LEMMA Retains ==
    ASSUME TierInv, OnlyCopy, NEW r \in Slot, RequestOK(requests[r], device), NEW x, Goes(r, x),
           x.kind = requests[r].kind, x.tokens = requests[r].tokens,
           x.queues = requests[r].queues, banks' = banks,
           \/ Races(r)
           \/ \A d \in ToSet(banks[requests[r].kind]) :
                 saved[d].meta.tokens # requests[r].tokens,
           \A n \in Kind : \A d \in ToSet(banks[n]) : saved'[d] = saved[d]
    PROVE  OnlyCopy'
<1> SUFFICES ASSUME NEW q \in Retaining', ~Races(q)', NEW d \in ToSet(banks[requests'[q].kind])
             PROVE  saved'[d].meta.tokens # requests'[q].tokens
  BY DEF OnlyCopy
<1>1. /\ Retaining' \subseteq Retaining \cup {r} /\ Retaining \subseteq Slot
      /\ requests'[r] = x /\ \A p \in Slot \ {r} : requests'[p] = requests[p]
  <2>1. Retaining \subseteq Slot
    BY DEF Retaining, QueuedSlots, Inserting
  <2> QED BY <2>1, SlotSets DEF TierInv, Retaining
<1>2. /\ requests'[q].kind = requests[q].kind /\ requests'[q].tokens = requests[q].tokens
      /\ requests'[q].queues = requests[q].queues
  BY <1>1
<1>3. ~Races(q)
  BY <1>2 DEF Races
<1>4. saved[d].meta.tokens # requests[q].tokens
  BY <1>1, <1>2, <1>3 DEF OnlyCopy
<1>5. requests[q].kind \in Kind
  <2>1. q \in Retaining => RequestOK(requests[q], device)
    BY BufferFacts DEF Retaining
  <2> QED BY <1>1, <2>1 DEF RequestOK, RequestRecords
<1> QED BY <1>2, <1>4, <1>5

\* A store drops nothing and changes no listed snapshot.
LEMMA StoreSettles ==
    ASSUME TierInv, NEW r \in Slot, RequestOK(requests[r], device), requests[r].tokens # <<>>,
           NEW d \in Arena, Store(d, MetaOf(r))
    PROVE  DropsSettled /\ \A n \in Kind : \A e \in ToSet(banks[n]) : saved'[e] = saved[e]
<1> DEFINE m == MetaOf(r)
<1>1. m \in Meta /\ \A i \in 1..Len(m.pages) : device[m.pages[i]] # Fresh
  BY MetaOfFacts
<1> HIDE DEF m
<1>2. /\ saved[d] = Empty
      /\ \E t \in {next_ticket, NoTicket} :
            saved' = [saved EXCEPT ![d] = [ticket |-> t, meta |-> m]]
  BY <1>1, StoreEffect DEF m
<1>3. DOMAIN saved = Arena
  BY DEF TierInv, CacheInv, SavedMatch
<1>4. \A e \in Arena : saved[e] # Empty => saved'[e] = saved[e]
  BY <1>2, <1>3
<1> QED BY <1>4, ListedFacts DEF DropsSettled

\* The three ways in which a request begins or goes on to retain its rows.
LEMMA RetainSettles ==
    ASSUME TierInv, OnlyCopy, NEW r \in Slot, RetainNow(r) \/ QueueRetain(r) \/ PollRetain(r)
    PROVE  OnlyCopy' /\ DropsSettled
<1> DEFINE rq == requests[r]
<1>1. rq.phase \in {"room", "queued"}
  BY DEF RetainNow, QueueRetain, PollRetain, HasBankRoom
<1>2. RequestOK(rq, device)
  BY <1>1, PhaseFacts DEF TierInv
<1>3. rq \in RequestRecords /\ rq.tokens # <<>>
  BY <1>1, <1>2 DEF RequestOK, PhaseOK
<1>4. InTheWay(rq.kind, rq.tokens) = {} =>
          \A d \in ToSet(banks[rq.kind]) : saved[d].meta.tokens # rq.tokens
  BY DEF InTheWay, SameKey
<1>5. CASE RetainNow(r)
  <2>1. PICK d \in Arena :
            /\ Store(d, MetaOf(r))
            /\ Goes(r, [rq EXCEPT !.phase = "insert", !.buffer = d])
    BY <1>5 DEF RetainNow
  <2> DEFINE x == [rq EXCEPT !.phase = "insert", !.buffer = d]
  <2>2. x.kind = rq.kind /\ x.tokens = rq.tokens /\ x.queues = rq.queues
    BY <1>3 DEF RequestRecords
  <2>3. InTheWay(rq.kind, rq.tokens) = {} /\ banks' = banks /\ Goes(r, x)
    BY <1>5, <2>1 DEF RetainNow, HasBankRoom
  <2>4. DropsSettled /\ \A n \in Kind : \A e \in ToSet(banks[n]) : saved'[e] = saved[e]
    BY <1>2, <1>3, <2>1, StoreSettles
  <2> HIDE DEF x
  <2> QED BY <1>2, <1>4, <2>2, <2>3, <2>4, Retains
<1>6. CASE QueueRetain(r)
  <2>1. PICK d \in Arena : Goes(r, [rq EXCEPT !.phase = "queued", !.buffer = d])
    BY <1>6 DEF QueueRetain
  <2> DEFINE x == [rq EXCEPT !.phase = "queued", !.buffer = d]
  <2>2. x.kind = rq.kind /\ x.tokens = rq.tokens /\ x.queues = rq.queues
    BY <1>3 DEF RequestRecords
  <2>3. InTheWay(rq.kind, rq.tokens) = {} /\ banks' = banks /\ saved' = saved /\ Goes(r, x)
    BY <1>6, <2>1 DEF QueueRetain, HasBankRoom
  <2>4. DropsSettled
    BY <2>3 DEF DropsSettled
  <2> HIDE DEF x
  <2> QED BY <1>2, <1>4, <2>2, <2>3, <2>4, Retains
<1>7. CASE PollRetain(r)
  <2> DEFINE x == [rq EXCEPT !.phase = "insert"]
  <2>1. x.kind = rq.kind /\ x.tokens = rq.tokens /\ x.queues = rq.queues
    BY <1>3 DEF RequestRecords
  <2>2. /\ rq.phase = "queued" /\ Store(rq.buffer, MetaOf(r)) /\ Goes(r, x) /\ banks' = banks
    BY <1>7 DEF PollRetain
  <2>3. r \in QueuedSlots
    BY <2>2 DEF QueuedSlots
  <2>4. \/ Races(r)
        \/ \A d \in ToSet(banks[rq.kind]) : saved[d].meta.tokens # rq.tokens
    BY <2>3 DEF OnlyCopy, Retaining
  <2>5. rq.buffer \in Arena
    BY <2>3, BufferFacts
  <2>6. DropsSettled /\ \A n \in Kind : \A e \in ToSet(banks[n]) : saved'[e] = saved[e]
    BY <1>2, <1>3, <2>2, <2>5, StoreSettles
  <2> HIDE DEF x
  <2> QED BY <1>2, <2>1, <2>2, <2>4, <2>6, Retains
<1> QED BY <1>5, <1>6, <1>7

\* An insertion replaces nothing, unless two lanes race, and then perhaps a snapshot
\* whose store is in flight.
LEMMA InsertSettles ==
    ASSUME TierInv, OnlyCopy, NEW r \in Slot, Insert(r)
    PROVE  OnlyCopy' /\ (DropsSettled \/ ReplacesInFlight)
<1> DEFINE rq == requests[r]
           same == SameKey(rq.kind, rq.tokens)
           x == IF rq.kind = "prompt" THEN [rq EXCEPT !.phase = "decode", !.buffer = NoSlot]
                ELSE NoRequest
<1>1. /\ Calls(r) /\ rq.phase = "insert" /\ Goes(r, x) /\ pending' = pending
      /\ saved' = [e \in Arena |-> IF e \in same THEN Empty ELSE saved[e]]
  BY DEF Insert, cache_vars
<1>2. calling = r /\ RequestOK(rq, device) /\ r \in Inserting
  BY <1>1, CallFacts DEF Inserting
<1>3. Races(r) \/ same = {}
  BY <1>2 DEF OnlyCopy, Retaining, SameKey
<1>4. x.phase \in {"free", "decode"}
  BY <1>1, <1>2, InsertedOK
<1>5. \/ ReplacesInFlight
      \/ \A d \in same, i \in DOMAIN pending : pending[i].ticket # saved[d].ticket
  BY <1>2, <1>3 DEF ReplacesInFlight
<1> HIDE DEF x, same
<1>6. OnlyCopy'
  BY <1>1, <1>2, <1>4, CallAlone
<1>7. \A d \in Arena : saved[d] # Empty /\ saved'[d] = Empty => d \in same
  BY <1>1
<1> QED BY <1>1, <1>5, <1>6, <1>7 DEF DropsSettled

\* A snapshot that comes back from the host takes a buffer that held none.
LEMMA RestoreSettles ==
    ASSUME TierInv, NEW r \in Slot, RestoreFromHost(r)
    PROVE  OnlyCopy' /\ DropsSettled
<1> DEFINE k == requests[r].hit
           s == store.snapshots[k]
           ids == SubSeq(Unused, 1, Len(s.pages))
           m == [s.meta EXCEPT !.pages = ids]
           x == [requests[r] EXCEPT !.phase = "attach"]
<1>1. Calls(r) /\ requests[r].phase = "host" /\ Goes(r, x)
  BY DEF RestoreFromHost
<1>2. PICK d \in Arena : Takeable(d) /\ Restore(k, d, ids)
  BY DEF RestoreFromHost
<1>3. saved' = [saved EXCEPT ![d] = [ticket |-> NoTicket, meta |-> m]]
  BY <1>2 DEF Restore
<1>4. saved[d] = Empty /\ DOMAIN saved = Arena
  BY <1>2, TakeableFacts DEF TierInv, CacheInv, SavedMatch
<1> HIDE DEF m, ids, s, k
<1>5. \A e \in Arena : saved[e] # Empty => saved'[e] = saved[e]
  BY <1>3, <1>4
<1>6. calling = r /\ requests[r] \in RequestRecords
  BY <1>1, CallFacts DEF RequestOK
<1>7. x.phase = "attach"
  BY <1>6 DEF RequestRecords
<1> HIDE DEF x
<1>8. OnlyCopy'
  BY <1>1, <1>6, <1>7, CallAlone
<1> QED BY <1>5, <1>8 DEF DropsSettled

\* The steps of a call that leave what is retained alone.
LEMMA CallSettles ==
    ASSUME TierInv, NEW r \in Slot,
           \/ AttachDevice(r) \/ HitHost(r) \/ Miss(r) \/ AbandonRestore(r)
           \/ GiveUpRestore(r) \/ Prefill(r) \/ SkipRetain(r)
    PROVE  OnlyCopy' /\ DropsSettled
<1> DEFINE rq == requests[r]
<1>1. Calls(r) /\ saved' = saved
  BY DEF AttachDevice, HitHost, Miss, AbandonRestore, GiveUpRestore, Prefill, SkipRetain,
         LookupOnly, RestoreTimesOut, all_vars, engine_vars
<1>2. calling = r /\ rq \in RequestRecords
  BY <1>1, CallFacts DEF RequestOK
<1>3. \E x : Goes(r, x) /\ x.phase \notin {"queued", "insert"}
  <2>1. CASE AttachDevice(r)
    <3>1. PICK e \in Best(rq.prompt, DeviceEntries) :
              Goes(r, [rq EXCEPT
                 !.phase = IF e.tokens = rq.prompt THEN "decode" ELSE "prefill",
                 !.tokens = SubSeq(rq.prompt, 1, Reused(rq.prompt, e.tokens)),
                 !.table = SubSeq(saved[e.at].meta.pages, 1,
                                  PagesFor(Reused(rq.prompt, e.tokens)))])
      BY <2>1 DEF AttachDevice
    <3> DEFINE tokens == SubSeq(rq.prompt, 1, Reused(rq.prompt, e.tokens))
               table == SubSeq(saved[e.at].meta.pages, 1,
                               PagesFor(Reused(rq.prompt, e.tokens)))
               phase == IF e.tokens = rq.prompt THEN "decode" ELSE "prefill"
    <3>2. Goes(r, [rq EXCEPT !.phase = phase, !.tokens = tokens, !.table = table])
      BY <3>1
    <3>3. phase \in {"decode", "prefill"}
      OBVIOUS
    <3> HIDE DEF phase, tokens, table
    <3>4. [rq EXCEPT !.phase = phase, !.tokens = tokens, !.table = table].phase = phase
      BY <1>2 DEF RequestRecords
    <3> QED BY <3>2, <3>3, <3>4
  <2>2. CASE HitHost(r)
    <3>1. PICK e \in Best(rq.prompt, HostEntries) :
              Goes(r, [rq EXCEPT !.phase = "host", !.hit = e.at])
      BY <2>2 DEF HitHost
    <3>2. [rq EXCEPT !.phase = "host", !.hit = e.at].phase = "host"
      BY <1>2 DEF RequestRecords
    <3> QED BY <3>1, <3>2
  <2>3. CASE Miss(r) \/ AbandonRestore(r) \/ GiveUpRestore(r)
    <3>1. PICK p \in {"prefill", "attach"} : Goes(r, [rq EXCEPT !.phase = p])
      BY <2>3 DEF Miss, AbandonRestore, GiveUpRestore
    <3>2. [rq EXCEPT !.phase = p].phase = p
      BY <1>2 DEF RequestRecords
    <3> QED BY <3>1, <3>2
  <2>4. CASE Prefill(r)
    <3> DEFINE tokens == rq.prompt
               table == Appended(r, rq.prompt).table
    <3>1. Goes(r, [rq EXCEPT !.phase = "room", !.tokens = tokens, !.table = table])
      BY <2>4 DEF Prefill
    <3> HIDE DEF tokens, table
    <3>2. [rq EXCEPT !.phase = "room", !.tokens = tokens, !.table = table].phase = "room"
      BY <1>2 DEF RequestRecords
    <3> QED BY <3>1, <3>2
  <2>5. CASE SkipRetain(r)
    <3>1. \/ Goes(r, [rq EXCEPT !.phase = "decode"])
          \/ Goes(r, NoRequest)
      BY <2>5 DEF SkipRetain
    <3>2. [rq EXCEPT !.phase = "decode"].phase = "decode"
      BY <1>2 DEF RequestRecords
    <3>3. NoRequest.phase = "free"
      BY DEF NoRequest
    <3> QED BY <3>1, <3>2, <3>3
  <2> QED BY <2>1, <2>2, <2>3, <2>4, <2>5
<1>4. OnlyCopy'
  BY <1>2, <1>3, CallAlone
<1> QED BY <1>1, <1>4 DEF DropsSettled

\* The steps between calls that leave what is retained alone.
LEMMA IdleSettles ==
    ASSUME TierInv, OnlyCopy, NEW r \in Slot,
           \/ \E p \in Prompts : Admit(r, p)
           \/ AbortRetain(r) \/ EndRequest(r)
           \/ \E t \in Vocabulary : Decode(r, t)
           \/ \E queues \in BOOLEAN : Retire(r, queues)
    PROVE  OnlyCopy' /\ DropsSettled
<1> DEFINE rq == requests[r]
<1>1. saved' = saved /\ banks' = banks
  BY DEF Admit, AbortRetain, EndRequest, Decode, Retire, all_vars, engine_vars
<1>2. \E x : Goes(r, x) /\ x.phase \notin {"queued", "insert"}
  <2>1. CASE \E p \in Prompts : Admit(r, p)
    <3>1. PICK p \in Prompts : Admit(r, p)
      BY <2>1
    <3> DEFINE x == [phase |-> "restore", prompt |-> p, tokens |-> <<>>, table |-> <<>>,
                     hit |-> NoKey, kind |-> "prompt", queues |-> FALSE, buffer |-> NoSlot]
    <3>2. Goes(r, x) /\ x.phase = "restore"
      BY <3>1 DEF Admit
    <3> QED BY <3>2
  <2>2. CASE AbortRetain(r) \/ EndRequest(r)
    <3>1. Goes(r, NoRequest) /\ NoRequest.phase = "free"
      BY <2>2 DEF AbortRetain, EndRequest, NoRequest
    <3> QED BY <3>1
  <2>3. CASE \E t \in Vocabulary : Decode(r, t)
    <3>1. PICK t \in Vocabulary : Decode(r, t)
      BY <2>3
    <3> DEFINE tokens == Append(rq.tokens, t)
               table == Appended(r, tokens).table
    <3>2. Goes(r, [rq EXCEPT !.tokens = tokens, !.table = table]) /\ rq.phase = "decode"
      BY <3>1 DEF Decode
    <3> HIDE DEF tokens, table
    <3>3. rq \in RequestRecords
      BY <3>2, PhaseFacts DEF TierInv, RequestOK
    <3>4. [rq EXCEPT !.tokens = tokens, !.table = table].phase = "decode"
      BY <3>2, <3>3 DEF RequestRecords
    <3> QED BY <3>2, <3>4
  <2>4. CASE \E queues \in BOOLEAN : Retire(r, queues)
    <3>1. PICK queues \in BOOLEAN : Retire(r, queues)
      BY <2>4
    <3>2. /\ Goes(r, [rq EXCEPT !.phase = "room", !.kind = "turn", !.queues = queues])
          /\ rq.phase = "decode"
      BY <3>1 DEF Retire
    <3>3. rq \in RequestRecords
      BY <3>2, PhaseFacts DEF TierInv, RequestOK
    <3>4. [rq EXCEPT !.phase = "room", !.kind = "turn", !.queues = queues].phase = "room"
      BY <3>3 DEF RequestRecords
    <3> QED BY <3>2, <3>4
  <2> QED BY <2>1, <2>2, <2>3, <2>4
<1>3. OnlyCopy'
  BY <1>1, <1>2, IdleFading
<1> QED BY <1>1, <1>3 DEF DropsSettled

\* Only such an insertion drops a snapshot whose store is in flight.
LEMMA NextSettles ==
    ASSUME TierInv, OnlyCopy, [TierNext]_vars
    PROVE  OnlyCopy' /\ (DropsSettled \/ ReplacesInFlight)
<1>1. CASE UNCHANGED vars
  BY <1>1, StreamFading DEF vars, all_vars, engine_vars
<1>2. CASE (UploadNext \/ ReleaseTarget) /\ UNCHANGED tier_vars
  BY <1>2, StreamFading DEF UploadNext, ReleaseTarget
<1>3. CASE \E id \in PageId : ReusePage(id)
  BY <1>3, StreamFading DEF ReusePage, FreePage
<1>4. CASE ObserveCopies \/ RunStream
  <2>1. saved' = saved /\ UNCHANGED tier_vars
    BY <1>4 DEF ObserveCopies, RunStream, TickAny, Tick, CopyNext, engine_vars
  <2> QED BY <2>1, StreamFading
<1>5. CASE MakeRoom \/ EvictOver \/ \E r \in Slot : MakeBankRoom(r)
  <2>1. Dropping
    BY <1>5, MakeRoomDrops, EvictOverDrops, MakeBankRoomDrops
  <2> QED BY <2>1, DropSettles DEF Dropping
<1>6. ASSUME NEW r \in Slot,
             \/ AttachDevice(r) \/ HitHost(r) \/ Miss(r) \/ AbandonRestore(r)
             \/ GiveUpRestore(r) \/ Prefill(r) \/ SkipRetain(r)
      PROVE  OnlyCopy' /\ DropsSettled
  BY <1>6, CallSettles
<1>7. ASSUME NEW r \in Slot,
             \/ \E p \in Prompts : Admit(r, p)
             \/ AbortRetain(r) \/ EndRequest(r)
             \/ \E t \in Vocabulary : Decode(r, t)
             \/ \E queues \in BOOLEAN : Retire(r, queues)
      PROVE  OnlyCopy' /\ DropsSettled
  BY <1>7, IdleSettles
<1>8. ASSUME NEW r \in Slot, RetainNow(r) \/ QueueRetain(r) \/ PollRetain(r)
      PROVE  OnlyCopy' /\ DropsSettled
  BY <1>8, RetainSettles
<1>9. ASSUME NEW r \in Slot, RestoreFromHost(r) \/ Insert(r)
      PROVE  OnlyCopy' /\ (DropsSettled \/ ReplacesInFlight)
  BY <1>9, RestoreSettles, InsertSettles
<1> QED BY <1>1, <1>2, <1>3, <1>4, <1>5, <1>6, <1>7, <1>8, <1>9 DEF TierNext

\* A device snapshot is not dropped while its store is in flight: every drop passes
\* through the host cache first (prefix.rs:90), for any number of lanes, but in one kind
\* of step.  That is the insertion of a copy queued on one of two lanes over a snapshot
\* of the same tokens that the other lane inserted meanwhile (Radix::insert in
\* poll_retain), which prefix_tier_lanes finds; making room, the eviction after an
\* insertion, retentions, aborts and restores drop nothing that is being stored.
THEOREM DropsThroughHost == TierSpec => [][DropsSettled \/ ReplacesInFlight]_vars
<1>1. TierInit => OnlyCopy
  BY DEF TierInit, OnlyCopy, Retaining, QueuedSlots, Inserting, NoRequest
<1>2. TierInv /\ OnlyCopy /\ [TierNext]_vars => OnlyCopy'
  BY NextSettles
<1>3. TierInv /\ OnlyCopy /\ [TierNext]_vars => [DropsSettled \/ ReplacesInFlight]_vars
  BY NextSettles
<1> QED BY <1>1, <1>2, <1>3, TierInvariant, PTL DEF TierSpec

-----------------------------------------------------------------------------
(* What requests and snapshots read.                                       *)

\* The pages of a table hold the rows of its tokens.
ReadsBy(table, tokens, dev) ==
    \A i \in 1..Len(table) : Holds(dev[table[i]], PageBytes([tokens |-> tokens], i))

\* A table has no page in W.
Avoids(table, W) == \A i \in 1..Len(table) : table[i] \notin W

\* A request reads its rows, from pages that nothing writes.
RequestReads(rq, dev, tgt) == ReadsBy(rq.table, rq.tokens, dev) /\ Avoids(rq.table, tgt)

\* So does the snapshot of meta m in buffer d.
SnapshotReads(d, m, dev, tgt) ==
    dev[d] = OwnBytes(m) /\ ReadsBy(m.pages, m.tokens, dev) /\ Avoids(m.pages, tgt)

ReadsInv ==
    /\ \A r \in Active : RequestReads(requests[r], device, giving_up.target)
    /\ \A d \in Arena :
          saved[d] # Empty => SnapshotReads(d, saved[d].meta, device, giving_up.target)

\* Nobody reads from the target of a restore that was given up.
TargetsAvoided ==
    /\ \A r \in Active : Avoids(requests[r].table, giving_up.target)
    /\ \A d \in Arena : saved[d] # Empty => Avoids(saved[d].meta.pages, giving_up.target)

\* The invariant is what the runs check, and this.
LEMMA ReadsRight ==
    ASSUME TierInv
    PROVE  ReadsInv <=> TierReadsRight /\ TargetsAvoided
<1>1. ASSUME NEW r \in Active
      PROVE  Reads(requests[r].table, requests[r].tokens)
                 <=> ReadsBy(requests[r].table, requests[r].tokens, device)
  <2>1. requests[r].table \in Seq(PageId)
    BY <1>1, PhaseFacts DEF Active, TierInv, RequestOK, RequestRecords
  <2>2. DOMAIN requests[r].table = 1..Len(requests[r].table)
    BY <2>1, SequenceFacts
  <2> QED BY <2>2 DEF Reads, ReadsBy
<1>2. ASSUME NEW d \in Arena, saved[d] # Empty
      PROVE  Reads(saved[d].meta.pages, saved[d].meta.tokens)
                 <=> ReadsBy(saved[d].meta.pages, saved[d].meta.tokens, device)
  <2>1. saved[d].meta \in Meta
    BY <1>2 DEF TierInv, SavedOK
  <2>2. saved[d].meta.pages \in Seq(PageId)
    BY <2>1, MetaFacts
  <2>3. DOMAIN saved[d].meta.pages = 1..Len(saved[d].meta.pages)
    BY <2>2, SequenceFacts
  <2> QED BY <2>3 DEF Reads, ReadsBy
<1> QED BY <1>1, <1>2 DEF TierReadsRight, TargetsAvoided, ReadsInv, RequestReads, SnapshotReads

\* What is not written reads the same.
LEMMA ReadsKept ==
    ASSUME NEW table \in Seq(PageId), NEW tokens, NEW dev, ReadsBy(table, tokens, dev),
           NEW W, Avoids(table, W),
           NEW dev2, \A y \in (PageId \cup Arena) \ W : dev2[y] = dev[y]
    PROVE  ReadsBy(table, tokens, dev2)
<1>1. \A i \in 1..Len(table) : table[i] \in PageId
  BY SequenceFacts
<1> QED BY <1>1 DEF ReadsBy, Avoids

\* Request r goes on with its table, and none of its pages is in W.
RequestKept(r, W) ==
    /\ r \in Active /\ Avoids(requests[r].table, W)
    /\ requests'[r].table = requests[r].table /\ requests'[r].tokens = requests[r].tokens

\* Buffer d keeps its snapshot, and neither it nor a page of it is in W.
SnapshotKept(d, W) ==
    /\ saved[d] # Empty /\ saved'[d].meta = saved[d].meta
    /\ d \notin W /\ Avoids(saved[d].meta.pages, W)

\* A step that writes only W keeps what is read, if those who read from W read right after it.
LEMMA ReadsStep ==
    ASSUME TierInv, ReadsInv, giving_up'.target \subseteq giving_up.target,
           NEW W, \A y \in (PageId \cup Arena) \ W : device'[y] = device[y],
           \A r \in Active' :
               RequestKept(r, W) \/ RequestReads(requests'[r], device', giving_up'.target),
           \A d \in Arena : saved'[d] # Empty =>
               \/ SnapshotKept(d, W)
               \/ SnapshotReads(d, saved'[d].meta, device', giving_up'.target)
    PROVE  ReadsInv'
<1>1. ASSUME NEW r \in Active', RequestKept(r, W)
      PROVE  RequestReads(requests'[r], device', giving_up'.target)
  <2>1. /\ requests[r].table \in Seq(PageId)
    BY <1>1, PhaseFacts DEF Active, TierInv, RequestOK, RequestRecords, RequestKept
  <2>2. RequestReads(requests[r], device, giving_up.target)
    BY <1>1 DEF RequestKept, ReadsInv
  <2>3. ReadsBy(requests[r].table, requests[r].tokens, device')
    BY <1>1, <2>1, <2>2, ReadsKept DEF RequestKept, RequestReads
  <2>4. Avoids(requests[r].table, giving_up'.target)
    BY <2>2 DEF RequestReads, Avoids
  <2> QED BY <1>1, <2>3, <2>4 DEF RequestKept, RequestReads
<1>2. ASSUME NEW d \in Arena, SnapshotKept(d, W)
      PROVE  SnapshotReads(d, saved'[d].meta, device', giving_up'.target)
  <2> DEFINE m == saved[d].meta
  <2>1. m \in Meta /\ saved'[d].meta = m
    BY <1>2 DEF TierInv, SavedOK, SnapshotKept
  <2>2. m.pages \in Seq(PageId)
    BY <2>1, MetaFacts
  <2>3. SnapshotReads(d, m, device, giving_up.target)
    BY <1>2 DEF SnapshotKept, ReadsInv
  <2>4. ReadsBy(m.pages, m.tokens, device')
    BY <1>2, <2>2, <2>3, ReadsKept DEF SnapshotKept, SnapshotReads
  <2>5. device'[d] = device[d]
    BY <1>2 DEF SnapshotKept
  <2>6. Avoids(m.pages, giving_up'.target)
    BY <2>3 DEF SnapshotReads, Avoids
  <2> QED BY <2>1, <2>3, <2>4, <2>5, <2>6 DEF SnapshotReads
<1> QED BY <1>1, <1>2 DEF ReadsInv

\* Nobody reads from what was never written, and no table has a buffer.
LEMMA UnwrittenApart ==
    ASSUME TierInv, NEW W, \A y \in W \cap PageId : device[y] = Fresh
    PROVE  /\ \A r \in Active : Avoids(requests[r].table, W)
           /\ \A d \in Arena : saved[d] # Empty => Avoids(saved[d].meta.pages, W)
<1>1. ASSUME NEW r \in Active
      PROVE  Avoids(requests[r].table, W)
  <2>1. RequestOK(requests[r], device)
    BY <1>1, PhaseFacts DEF Active, TierInv
  <2>2. requests[r].table \in Seq(PageId) /\ TableOK(requests[r].table, requests[r].tokens, device)
    BY <2>1 DEF RequestOK, RequestRecords
  <2>3. \A i \in 1..Len(requests[r].table) : requests[r].table[i] \in PageId
    BY <2>2, SequenceFacts
  <2> QED BY <2>2, <2>3 DEF TableOK, Avoids
<1>2. ASSUME NEW d \in Arena, saved[d] # Empty
      PROVE  Avoids(saved[d].meta.pages, W)
  <2>1. /\ saved[d].meta \in Meta
        /\ \A i \in 1..Len(saved[d].meta.pages) : device[saved[d].meta.pages[i]] # Fresh
    BY <1>2 DEF TierInv, SavedOK
  <2>2. saved[d].meta.pages \in Seq(PageId)
    BY <2>1, MetaFacts
  <2>3. \A i \in 1..Len(saved[d].meta.pages) : saved[d].meta.pages[i] \in PageId
    BY <2>2, SequenceFacts
  <2> QED BY <2>1, <2>3 DEF Avoids
<1> QED BY <1>1, <1>2

\* What may become of a request when nothing it reads changes, and of a snapshot.
RequestGoes(r, x) ==
    \/ x = NoRequest
    \/ r \in Active /\ x.table = requests[r].table /\ x.tokens = requests[r].tokens
    \/ RequestReads(x, device', giving_up'.target)

SnapshotGoes(d, W) ==
    saved'[d] # Empty =>
        \/ saved[d] # Empty /\ saved'[d].meta = saved[d].meta /\ d \notin W
        \/ SnapshotReads(d, saved'[d].meta, device', giving_up'.target)

\* A step of request r that writes buffers and unwritten pages.
LEMMA ReadsGo ==
    ASSUME TierInv, ReadsInv, giving_up'.target \subseteq giving_up.target,
           NEW W, \A y \in W \cap PageId : device[y] = Fresh,
           \A y \in (PageId \cup Arena) \ W : device'[y] = device[y],
           NEW r \in Slot, NEW x, Goes(r, x), RequestGoes(r, x),
           \A d \in Arena : SnapshotGoes(d, W)
    PROVE  ReadsInv'
<1>1. /\ \A q \in Active : Avoids(requests[q].table, W)
      /\ \A d \in Arena : saved[d] # Empty => Avoids(saved[d].meta.pages, W)
  BY UnwrittenApart
<1>2. requests'[r] = x /\ \A q \in Slot \ {r} : requests'[q] = requests[q]
  BY SlotSets DEF TierInv
<1>3. ASSUME NEW q \in Active'
      PROVE  RequestKept(q, W) \/ RequestReads(requests'[q], device', giving_up'.target)
  <2>1. q \in Slot /\ requests'[q].phase # "free"
    BY <1>3 DEF Active
  <2>2. CASE q = r
    <3>1. x # NoRequest
      BY <1>2, <2>1, <2>2 DEF NoRequest
    <3> QED BY <1>1, <1>2, <2>2, <3>1 DEF RequestGoes, RequestKept
  <2>3. CASE q # r
    <3>1. q \in Active /\ requests'[q] = requests[q]
      BY <1>2, <2>1, <2>3 DEF Active
    <3> QED BY <1>1, <3>1 DEF RequestKept
  <2> QED BY <2>2, <2>3
<1>4. \A d \in Arena : saved'[d] # Empty =>
          \/ SnapshotKept(d, W)
          \/ SnapshotReads(d, saved'[d].meta, device', giving_up'.target)
  BY <1>1 DEF SnapshotGoes, SnapshotKept
<1> QED BY <1>3, <1>4, ReadsStep

\* A step of no request that writes buffers.
LEMMA ReadsStay ==
    ASSUME TierInv, ReadsInv, giving_up'.target \subseteq giving_up.target,
           NEW W, \A y \in W \cap PageId : device[y] = Fresh,
           \A y \in (PageId \cup Arena) \ W : device'[y] = device[y],
           requests' = requests, \A d \in Arena : SnapshotGoes(d, W)
    PROVE  ReadsInv'
<1>1. /\ \A q \in Active : Avoids(requests[q].table, W)
      /\ \A d \in Arena : saved[d] # Empty => Avoids(saved[d].meta.pages, W)
  BY UnwrittenApart
<1>2. Active' = Active
  BY DEF Active
<1>3. \A q \in Active' : RequestKept(q, W)
  BY <1>1, <1>2 DEF RequestKept
<1>4. \A d \in Arena : saved'[d] # Empty =>
          \/ SnapshotKept(d, W)
          \/ SnapshotReads(d, saved'[d].meta, device', giving_up'.target)
  BY <1>1 DEF SnapshotGoes, SnapshotKept
<1> QED BY <1>3, <1>4, ReadsStep

\* A request in its slot, by its fields.
LEMMA ActiveFacts ==
    ASSUME TierInv, NEW r \in Slot, requests[r].phase # "free"
    PROVE  /\ r \in Active /\ requests[r] # NoRequest /\ requests[r] \in RequestRecords
           /\ RequestOK(requests[r], device)
<1>1. r \in Active /\ requests[r] # NoRequest
  BY DEF Active, NoRequest
<1>2. RequestOK(requests[r], device)
  BY <1>1, PhaseFacts DEF TierInv
<1> QED BY <1>1, <1>2 DEF RequestOK

\* A step of request r that writes nothing.
LEMMA ReadsQuiet ==
    ASSUME TierInv, ReadsInv, NEW r \in Slot, NEW x, Goes(r, x), RequestGoes(r, x),
           UNCHANGED <<device, saved, giving_up>>
    PROVE  ReadsInv'
<1> DEFINE W == {}
<1>1. /\ giving_up'.target \subseteq giving_up.target
      /\ \A y \in W \cap PageId : device[y] = Fresh
      /\ \A y \in (PageId \cup Arena) \ W : device'[y] = device[y]
  OBVIOUS
<1>2. \A d \in Arena : SnapshotGoes(d, W)
  BY DEF SnapshotGoes
<1> HIDE DEF W
<1> QED BY <1>1, <1>2, ReadsGo

\* A request without rows reads nothing.
LEMMA AdmitReads ==
    ASSUME TierInv, ReadsInv, NEW r \in Slot, NEW p \in Prompts, Admit(r, p), giving_up' = giving_up
    PROVE  ReadsInv'
<1> DEFINE x == [phase |-> "restore", prompt |-> p, tokens |-> <<>>, table |-> <<>>,
                 hit |-> NoKey, kind |-> "prompt", queues |-> FALSE, buffer |-> NoSlot]
<1>1. Goes(r, x) /\ UNCHANGED <<device, saved>>
  BY DEF Admit, all_vars, engine_vars
<1>2. x.table = <<>> /\ Len(<<>>) = 0
  OBVIOUS
<1> HIDE DEF x
<1>3. RequestGoes(r, x)
  BY <1>2 DEF RequestGoes, RequestReads, ReadsBy, Avoids
<1> QED BY <1>1, <1>3, ReadsQuiet

\* Most calls change neither the rows of a request nor the device.
LEMMA PhaseReads ==
    ASSUME TierInv, ReadsInv, NEW r \in Slot, giving_up' = giving_up,
           \/ HitHost(r) \/ Miss(r) \/ AbandonRestore(r) \/ SkipRetain(r) \/ EndRequest(r)
           \/ \E queues \in BOOLEAN : Retire(r, queues)
    PROVE  ReadsInv'
<1> DEFINE rq == requests[r]
<1>1. rq.phase # "free" /\ UNCHANGED <<device, saved>>
  BY DEF HitHost, Miss, AbandonRestore, SkipRetain, EndRequest, Retire, LookupOnly,
         all_vars, engine_vars
<1>2. r \in Active /\ rq \in RequestRecords
  BY <1>1, ActiveFacts
<1>3. ASSUME NEW x, Goes(r, x), x = NoRequest \/ (x.table = rq.table /\ x.tokens = rq.tokens)
      PROVE  ReadsInv'
  BY <1>1, <1>2, <1>3, ReadsQuiet DEF RequestGoes
<1>4. CASE HitHost(r)
  <2>1. PICK e \in Best(rq.prompt, HostEntries) :
            Goes(r, [rq EXCEPT !.phase = "host", !.hit = e.at])
    BY <1>4 DEF HitHost
  <2> DEFINE x == [rq EXCEPT !.phase = "host", !.hit = e.at]
  <2>2. x.table = rq.table /\ x.tokens = rq.tokens
    BY <1>2 DEF RequestRecords
  <2>3. Goes(r, x)
    BY <2>1
  <2> HIDE DEF x
  <2> QED BY <1>3, <2>2, <2>3
<1>5. ASSUME NEW ph, Goes(r, [rq EXCEPT !.phase = ph])
      PROVE  ReadsInv'
  <2> DEFINE x == [rq EXCEPT !.phase = ph]
  <2>1. x.table = rq.table /\ x.tokens = rq.tokens
    BY <1>2 DEF RequestRecords
  <2>2. Goes(r, x)
    BY <1>5
  <2> HIDE DEF x
  <2> QED BY <1>3, <2>1, <2>2
<1>6. CASE Miss(r) \/ AbandonRestore(r)
  BY <1>5, <1>6 DEF Miss, AbandonRestore
<1>7. ASSUME Goes(r, NoRequest)
      PROVE  ReadsInv'
  <2>1. RequestGoes(r, NoRequest)
    BY DEF RequestGoes
  <2> QED BY <1>1, <1>7, <2>1, ReadsQuiet
<1>8. CASE SkipRetain(r)
  BY <1>5, <1>7, <1>8 DEF SkipRetain
<1>9. CASE EndRequest(r)
  BY <1>7, <1>9 DEF EndRequest
<1>10. CASE \E queues \in BOOLEAN : Retire(r, queues)
  <2>1. PICK queues \in BOOLEAN : Retire(r, queues)
    BY <1>10
  <2> DEFINE x == [rq EXCEPT !.phase = "room", !.kind = "turn", !.queues = queues]
  <2>2. x.table = rq.table /\ x.tokens = rq.tokens
    BY <1>2 DEF RequestRecords
  <2>3. Goes(r, x)
    BY <2>1 DEF Retire
  <2> HIDE DEF x
  <2> QED BY <1>3, <2>2, <2>3
<1> QED BY <1>4, <1>6, <1>8, <1>9, <1>10

-----------------------------------------------------------------------------
(* Rows of a prefix.                                                       *)

\* Page i of some tokens ends where the page does, or the tokens.
LEMMA PageEnd ==
    ASSUME NEW i \in Nat, NEW n \in Nat
    PROVE  LET e == Min({i * PAGE_TOKENS, n}) IN
           /\ e \in 0..n /\ e <= i * PAGE_TOKENS
           /\ i * PAGE_TOKENS <= n => e = i * PAGE_TOKENS
           /\ n <= i * PAGE_TOKENS => e = n
<1> DEFINE a == i * PAGE_TOKENS
           e == Min({a, n})
<1>1. a \in Nat
  <2>1. PAGE_TOKENS \in Nat
    BY CacheShape
  <2> QED BY <2>1
<1> HIDE DEF a
<1>2. {a, n} \in SUBSET Nat /\ {a, n} # {}
  BY <1>1
<1>3. e \in {a, n} /\ \A y \in {a, n} : e <= y
  BY <1>2, MinProperties
<1> HIDE DEF e
<1>4. e \in 0..n /\ e <= a /\ (a <= n => e = a) /\ (n <= a => e = n)
  BY <1>1, <1>3
<1> QED BY <1>4 DEF e, a

\* What begins with some tokens begins with fewer of them.
LEMMA PrefixLess ==
    ASSUME NEW S, NEW t \in Seq(S), NEW m \in 0..Len(t), NEW k \in 0..m, NEW bytes,
           IsPrefix(SubSeq(t, 1, m), bytes)
    PROVE  IsPrefix(SubSeq(t, 1, k), bytes)
<1>1. Len(SubSeq(t, 1, m)) = m /\ Len(SubSeq(t, 1, k)) = k
  OBVIOUS
<1>2. /\ m <= Len(bytes)
      /\ SubSeq(SubSeq(t, 1, m), 1, m) = SubSeq(bytes, 1, m)
  BY <1>1 DEF IsPrefix
<1>3. SubSeq(SubSeq(t, 1, m), 1, m) = SubSeq(t, 1, m)
  OBVIOUS
<1>4. SubSeq(SubSeq(t, 1, m), 1, k) = SubSeq(t, 1, k)
  OBVIOUS
<1>5. SubSeq(SubSeq(bytes, 1, m), 1, k) = SubSeq(bytes, 1, k)
  OBVIOUS
<1>6. SubSeq(SubSeq(t, 1, k), 1, k) = SubSeq(t, 1, k)
  OBVIOUS
<1>7. SubSeq(bytes, 1, k) = SubSeq(t, 1, k)
  BY <1>2, <1>3, <1>4, <1>5
<1>8. k <= Len(bytes)
  <2>1. k <= m /\ m <= Len(bytes) /\ k \in Nat /\ m \in Nat
    BY <1>2
  <2> QED BY ONLY <2>1
<1> QED BY <1>1, <1>6, <1>7, <1>8 DEF IsPrefix

\* A page that holds the rows of some tokens holds those of the first n.
LEMMA RowsLess ==
    ASSUME NEW S, NEW t \in Seq(S), NEW n \in 0..Len(t), NEW i \in Nat, NEW bytes,
           Holds(bytes, PageBytes([tokens |-> t], i))
    PROVE  Holds(bytes, PageBytes([tokens |-> SubSeq(t, 1, n)], i))
<1> DEFINE u == SubSeq(t, 1, n)
           a == Min({i * PAGE_TOKENS, Len(t)})
           b == Min({i * PAGE_TOKENS, n})
<1>1. Len(t) \in Nat /\ n \in Nat /\ Len(u) = n
  OBVIOUS
<1>2. /\ a \in 0..Len(t) /\ a <= i * PAGE_TOKENS
      /\ i * PAGE_TOKENS <= Len(t) => a = i * PAGE_TOKENS
      /\ Len(t) <= i * PAGE_TOKENS => a = Len(t)
  BY <1>1, PageEnd
<1>3. /\ b \in 0..n /\ b <= i * PAGE_TOKENS
  BY <1>1, PageEnd
<1>4. i * PAGE_TOKENS \in Nat
  BY CacheShape
<1>5. PageBytes([tokens |-> t], i) = SubSeq(t, 1, a)
  BY DEF PageBytes
<1>6. PageBytes([tokens |-> u], i) = SubSeq(u, 1, b)
  BY <1>1 DEF PageBytes
<1> HIDE DEF a, b
<1>7. b \in 0..a /\ b <= n
  BY <1>1, <1>2, <1>3, <1>4
<1>8. SubSeq(u, 1, b) = SubSeq(t, 1, b)
  BY <1>3, <1>7
<1>9. IsPrefix(SubSeq(t, 1, a), bytes) /\ bytes \notin {Fresh, Junk}
  BY <1>5 DEF Holds
<1>10. IsPrefix(SubSeq(t, 1, b), bytes)
  BY <1>2, <1>7, <1>9, PrefixLess
<1> HIDE DEF u
<1> QED BY <1>6, <1>8, <1>9, <1>10 DEF Holds, u

\* A request that takes pages of a retained snapshot reads its own rows there.
LEMMA AttachReads ==
    ASSUME TierInv, ReadsInv, NEW r \in Slot, AttachDevice(r), giving_up' = giving_up
    PROVE  ReadsInv'
<1> DEFINE rq == requests[r]
<1>1. /\ Calls(r) /\ rq.phase \in {"restore", "attach"} /\ UNCHANGED <<device, saved>>
  BY DEF AttachDevice, all_vars, engine_vars
<1>2. PICK e \in Best(rq.prompt, DeviceEntries) :
          Goes(r, [rq EXCEPT
              !.phase = IF e.tokens = rq.prompt THEN "decode" ELSE "prefill",
              !.tokens = SubSeq(rq.prompt, 1, Reused(rq.prompt, e.tokens)),
              !.table = SubSeq(saved[e.at].meta.pages, 1,
                               PagesFor(Reused(rq.prompt, e.tokens)))])
  BY DEF AttachDevice
<1>3. e \in DeviceEntries
  BY <1>2 DEF Best
<1> DEFINE m == saved[e.at].meta
           n == Reused(rq.prompt, m.tokens)
           x == [rq EXCEPT !.phase = IF m.tokens = rq.prompt THEN "decode" ELSE "prefill",
                           !.tokens = SubSeq(rq.prompt, 1, n),
                           !.table = SubSeq(m.pages, 1, PagesFor(n))]
<1>4. /\ e.at \in Arena /\ saved[e.at] # Empty /\ m \in Meta /\ e.tokens = m.tokens
  BY <1>3, DeviceEntryFacts
<1>5. Goes(r, x)
  BY <1>2, <1>4
<1>6. rq \in RequestRecords /\ rq.prompt \in Seq(Nat)
  <2>1. rq \in RequestRecords
    BY <1>1, ActiveFacts
  <2> QED BY <2>1, PromptFacts DEF RequestRecords
<1>7. /\ m.tokens \in Seq(Nat) /\ m.pages \in Seq(PageId) /\ Len(m.tokens) \in Nat
      /\ Len(m.pages) = PagesFor(Len(m.tokens))
  BY <1>4, MetaFacts
<1>8. x.tokens = SubSeq(rq.prompt, 1, n) /\ x.table = SubSeq(m.pages, 1, PagesFor(n))
  BY <1>6 DEF RequestRecords
<1> HIDE DEF x
<1>9. /\ n \in 0..Len(m.tokens)
      /\ SubSeq(rq.prompt, 1, n) = SubSeq(m.tokens, 1, n)
  <2>1. /\ n \in 0..Len(rq.prompt) /\ n <= Len(m.tokens)
        /\ SubSeq(rq.prompt, 1, n) = SubSeq(m.tokens, 1, n)
    <3> HIDE DEF m, rq
    <3> QED BY <1>6, <1>7, ReuseFacts
  <2> HIDE DEF n
  <2>2. Len(rq.prompt) \in Nat
    BY <1>6
  <2> QED BY <1>7, <2>1, <2>2
<1> HIDE DEF n
<1>10. PagesFor(n) \in 0..Len(m.pages)
  <2>1. n \in Nat /\ n <= Len(m.tokens)
    BY <1>7, <1>9
  <2>2. PagesFor(n) \in Nat /\ PagesFor(n) <= PagesFor(Len(m.tokens))
        /\ PagesFor(Len(m.tokens)) \in Nat
    BY <1>7, <2>1, PagesGrow
  <2> QED BY <1>7, <2>2
<1>11. /\ Len(x.table) = PagesFor(n)
       /\ \A i \in 1..PagesFor(n) : x.table[i] = m.pages[i]
  <2> HIDE DEF m
  <2> QED BY <1>7, <1>8, <1>10, CutFacts
<1>12. SnapshotReads(e.at, m, device, giving_up.target)
  BY <1>4 DEF ReadsInv
<1>13. \A i \in 1..PagesFor(n) : i \in 1..Len(m.pages) /\ i \in Nat
  BY <1>10
<1>14. ReadsBy(x.table, x.tokens, device)
  <2> SUFFICES ASSUME NEW i \in 1..PagesFor(n)
               PROVE  Holds(device[x.table[i]], PageBytes([tokens |-> x.tokens], i))
    BY <1>11 DEF ReadsBy
  <2>1. Holds(device[m.pages[i]], PageBytes([tokens |-> m.tokens], i)) /\ i \in Nat
    BY <1>12, <1>13 DEF SnapshotReads, ReadsBy
  <2>2. Holds(device[m.pages[i]], PageBytes([tokens |-> SubSeq(m.tokens, 1, n)], i))
    <3> HIDE DEF m
    <3> QED BY <1>7, <1>9, <2>1, RowsLess
  <2>3. x.table[i] = m.pages[i] /\ x.tokens = SubSeq(m.tokens, 1, n)
    BY <1>8, <1>9, <1>11
  <2> QED BY <2>2, <2>3
<1>15. Avoids(x.table, giving_up.target)
  BY <1>11, <1>12, <1>13 DEF SnapshotReads, Avoids
<1>16. RequestGoes(r, x)
  BY <1>1, <1>14, <1>15 DEF RequestGoes, RequestReads
<1> QED BY <1>1, <1>5, <1>16, ReadsQuiet

-----------------------------------------------------------------------------
(* Retaining and dropping leave the pages alone.                           *)

\* A snapshot is stored: its pages are those the request reads.
LEMMA StoreReads ==
    ASSUME TierInv, ReadsInv, NEW r \in Slot, requests[r].phase \in {"room", "queued"},
           NEW d \in Arena, Store(d, MetaOf(r)), giving_up.target = {}, giving_up' = giving_up,
           NEW x, Goes(r, x), x.table = requests[r].table, x.tokens = requests[r].tokens
    PROVE  ReadsInv'
<1> DEFINE m == MetaOf(r)
           W == {d}
<1>1. r \in Active /\ RequestOK(requests[r], device) /\ requests[r].tokens # <<>>
  <2>1. r \in Active /\ RequestOK(requests[r], device)
    BY ActiveFacts
  <2> QED BY <2>1 DEF RequestOK, PhaseOK
<1>2. /\ m \in Meta /\ \A i \in 1..Len(m.pages) : device[m.pages[i]] # Fresh
  BY <1>1, MetaOfFacts
<1>3. m.pages = requests[r].table /\ m.tokens = requests[r].tokens
  BY DEF MetaOf
<1> HIDE DEF m
<1>4. /\ saved[d] = Empty /\ device' = DeviceWith(m, d)
      /\ \E t \in {next_ticket, NoTicket} :
            saved' = [saved EXCEPT ![d] = [ticket |-> t, meta |-> m]]
  BY <1>2, StoreEffect DEF m
<1>5. /\ device'[d] = OwnBytes(m)
      /\ \A y \in (PageId \cup Arena) \ W : device'[y] = device[y]
  BY <1>2, <1>4, RetainedDevice DEF TierInv
<1>6. saved'[d].meta = m /\ \A e \in Arena \ {d} : saved'[e] = saved[e]
  BY <1>4 DEF TierInv, CacheInv, SavedMatch
<1>7. RequestReads(requests[r], device, giving_up.target)
  BY <1>1 DEF ReadsInv
<1>8. Avoids(m.pages, W)
  BY <1>1, <1>3, UnwrittenApart, CacheShape
<1>9. SnapshotReads(d, m, device', giving_up'.target)
  <2>1. ReadsBy(m.pages, m.tokens, device')
    <3>1. m.pages \in Seq(PageId) /\ ReadsBy(m.pages, m.tokens, device)
      BY <1>2, <1>3, <1>7, MetaFacts DEF RequestReads
    <3> HIDE DEF W
    <3> QED BY <1>5, <1>8, <3>1, ReadsKept
  <2> QED BY <1>3, <1>5, <1>7, <2>1 DEF SnapshotReads, RequestReads
<1>10. \A e \in Arena : SnapshotGoes(e, W)
  BY <1>6, <1>9 DEF SnapshotGoes
<1>11. RequestGoes(r, x)
  BY <1>1 DEF RequestGoes
<1>12. \A y \in W \cap PageId : device[y] = Fresh
  BY CacheShape
<1> HIDE DEF W
<1> QED BY <1>5, <1>10, <1>11, <1>12, ReadsGo

\* A free buffer is written for request r, or given back.
LEMMA BufferReads ==
    ASSUME TierInv, ReadsInv, NEW r \in Slot, NEW x, Goes(r, x), RequestGoes(r, x),
           NEW d \in Arena, saved[d] = Empty, NEW bytes, device' = [device EXCEPT ![d] = bytes],
           saved' = saved, giving_up' = giving_up
    PROVE  ReadsInv'
<1> DEFINE W == {d}
<1>1. /\ \A y \in W \cap PageId : device[y] = Fresh
      /\ \A y \in (PageId \cup Arena) \ W : device'[y] = device[y]
  BY CacheShape DEF TierInv
<1>2. \A e \in Arena : SnapshotGoes(e, W)
  BY DEF SnapshotGoes
<1>3. giving_up'.target \subseteq giving_up.target
  OBVIOUS
<1> HIDE DEF W
<1> QED BY <1>1, <1>2, <1>3, ReadsGo

\* The four ways in which a request goes on to retain its rows, or gives it up.
LEMMA RetainReads ==
    ASSUME TierInv, ReadsInv, NEW r \in Slot, giving_up' = giving_up,
           RetainNow(r) \/ PollRetain(r) \/ QueueRetain(r) \/ AbortRetain(r)
    PROVE  ReadsInv'
<1> DEFINE rq == requests[r]
<1>1. rq.phase \in {"room", "queued"}
  BY DEF RetainNow, QueueRetain, PollRetain, AbortRetain, HasBankRoom
<1>2. r \in Active /\ rq \in RequestRecords
  BY <1>1, ActiveFacts
<1>3. CASE RetainNow(r)
  <2>1. PICK d \in Arena :
            /\ Store(d, MetaOf(r))
            /\ Goes(r, [rq EXCEPT !.phase = "insert", !.buffer = d])
    BY <1>3 DEF RetainNow
  <2> DEFINE x == [rq EXCEPT !.phase = "insert", !.buffer = d]
  <2>2. x.table = rq.table /\ x.tokens = rq.tokens
    BY <1>2 DEF RequestRecords
  <2>3. giving_up.target = {}
    BY <1>3, CallFacts DEF RetainNow
  <2>4. Goes(r, x)
    BY <2>1
  <2> HIDE DEF x
  <2> QED BY <1>1, <2>1, <2>2, <2>3, <2>4, StoreReads
<1>4. CASE PollRetain(r)
  <2> DEFINE x == [rq EXCEPT !.phase = "insert"]
  <2>1. x.table = rq.table /\ x.tokens = rq.tokens
    BY <1>2 DEF RequestRecords
  <2>2. /\ rq.phase = "queued" /\ Store(rq.buffer, MetaOf(r)) /\ Goes(r, x) /\ Idle
    BY <1>4 DEF PollRetain
  <2>3. r \in QueuedSlots
    BY <2>2 DEF QueuedSlots
  <2>4. rq.buffer \in Arena
    BY <2>3, BufferFacts
  <2>5. giving_up.target = {}
    BY <2>2, IdleFacts
  <2> HIDE DEF x
  <2> QED BY <1>1, <2>1, <2>2, <2>4, <2>5, StoreReads
<1>5. CASE QueueRetain(r)
  <2>1. PICK d \in Arena :
            /\ Takeable(d) /\ device' = [device EXCEPT ![d] = OwnBytes(MetaOf(r))]
            /\ Goes(r, [rq EXCEPT !.phase = "queued", !.buffer = d])
    BY <1>5 DEF QueueRetain
  <2> DEFINE x == [rq EXCEPT !.phase = "queued", !.buffer = d]
  <2>2. x.table = rq.table /\ x.tokens = rq.tokens
    BY <1>2 DEF RequestRecords
  <2>3. saved[d] = Empty /\ saved' = saved
    BY <1>5, <2>1, TakeableFacts DEF QueueRetain
  <2>4. Goes(r, x)
    BY <2>1
  <2> HIDE DEF x
  <2>5. RequestGoes(r, x)
    BY <1>2, <2>2 DEF RequestGoes
  <2> QED BY <2>1, <2>3, <2>4, <2>5, BufferReads
<1>6. CASE AbortRetain(r)
  <2>1. /\ rq.phase = "queued" /\ device' = [device EXCEPT ![rq.buffer] = Junk]
        /\ Goes(r, NoRequest) /\ saved' = saved
    BY <1>6 DEF AbortRetain
  <2>2. r \in QueuedSlots
    BY <2>1 DEF QueuedSlots
  <2>3. rq.buffer \in Arena /\ saved[rq.buffer] = Empty
    BY <2>2, BufferFacts DEF TierInv, BuffersOK
  <2>4. RequestGoes(r, NoRequest)
    BY DEF RequestGoes
  <2> QED BY <2>1, <2>3, <2>4, BufferReads
<1> QED BY <1>3, <1>4, <1>5, <1>6

\* An insertion drops what it replaces.
LEMMA InsertReads ==
    ASSUME TierInv, ReadsInv, NEW r \in Slot, Insert(r), giving_up' = giving_up
    PROVE  ReadsInv'
<1> DEFINE rq == requests[r]
           W == SameKey(rq.kind, rq.tokens)
           x == IF rq.kind = "prompt" THEN [rq EXCEPT !.phase = "decode", !.buffer = NoSlot]
                ELSE NoRequest
<1>1. /\ rq.phase = "insert" /\ Goes(r, x)
      /\ saved' = [e \in Arena |-> IF e \in W THEN Empty ELSE saved[e]]
      /\ device' = [y \in DOMAIN device |-> IF y \in W THEN Junk ELSE device[y]]
  BY DEF Insert
<1>2. r \in Active /\ rq \in RequestRecords
  BY <1>1, ActiveFacts
<1>3. W \subseteq Arena
  BY <1>2, ListedFacts DEF SameKey, RequestRecords
<1>4. RequestGoes(r, x)
  BY <1>2 DEF RequestGoes, RequestRecords
<1> HIDE DEF W, x
<1>5. /\ \A y \in W \cap PageId : device[y] = Fresh
      /\ \A y \in (PageId \cup Arena) \ W : device'[y] = device[y]
  BY <1>1, <1>3, CacheShape DEF TierInv
<1>6. \A e \in Arena : SnapshotGoes(e, W)
  BY <1>1 DEF SnapshotGoes
<1>7. giving_up'.target \subseteq giving_up.target
  OBVIOUS
<1> QED BY <1>1, <1>4, <1>5, <1>6, <1>7, ReadsGo

\* A snapshot is dropped, and its buffer alone.
LEMMA DropReads ==
    ASSUME TierInv, ReadsInv, Dropping, giving_up' = giving_up
    PROVE  ReadsInv'
<1>1. PICK k \in Kind : \E d \in ToSet(banks[k]) : DropThroughHost(d)
  BY DEF Dropping
<1>2. PICK d \in ToSet(banks[k]) : DropThroughHost(d)
  BY <1>1
<1>3. Evict(d) /\ requests' = requests
  BY <1>2 DEF DropThroughHost, Dropping
<1>4. d \in Arena /\ saved[d] # Empty
  BY ListedFacts
<1>5. \A e \in Arena : saved'[e] = IF e = d THEN Empty ELSE saved[e]
  BY <1>3, <1>4, EvictSettles
<1>6. device' = [device EXCEPT ![d] = Junk]
  BY <1>3, <1>4, EvictEffect DEF Dropped
<1> DEFINE W == {d}
<1>7. /\ \A y \in W \cap PageId : device[y] = Fresh
      /\ \A y \in (PageId \cup Arena) \ W : device'[y] = device[y]
  BY <1>4, <1>6, CacheShape DEF TierInv
<1>8. \A e \in Arena : SnapshotGoes(e, W)
  BY <1>5 DEF SnapshotGoes
<1>9. giving_up'.target \subseteq giving_up.target
  OBVIOUS
<1> HIDE DEF W
<1> QED BY <1>3, <1>7, <1>8, <1>9, ReadsStay

-----------------------------------------------------------------------------
(* The streams, the pages that are reused, restores that are given up.     *)

\* A step that changes neither requests nor the device.
LEMMA UnseenReads ==
    ASSUME TierInv, ReadsInv, UNCHANGED <<device, saved, requests, giving_up>>
    PROVE  ReadsInv'
<1> DEFINE W == {}
<1>1. /\ giving_up'.target \subseteq giving_up.target
      /\ \A y \in W \cap PageId : device[y] = Fresh
      /\ \A y \in (PageId \cup Arena) \ W : device'[y] = device[y]
  OBVIOUS
<1>2. \A d \in Arena : SnapshotGoes(d, W)
  BY DEF SnapshotGoes
<1> HIDE DEF W
<1> QED BY <1>1, <1>2, ReadsStay

\* A page nobody reads is reused.
LEMMA ReuseReads ==
    ASSUME TierInv, ReadsInv, NEW id \in PageId, ReusePage(id), giving_up' = giving_up
    PROVE  ReadsInv'
<1> DEFINE W == {id}
<1>1. /\ \A r \in Active : id \notin ToSet(requests[r].table)
      /\ \A d \in Arena : saved[d] # Empty => id \notin ToSet(saved[d].meta.pages)
      /\ device' = [device EXCEPT ![id] = Junk] /\ saved' = saved /\ requests' = requests
  BY DEF ReusePage, FreePage, tier_vars
<1>2. \A y \in (PageId \cup Arena) \ W : device'[y] = device[y]
  BY <1>1 DEF TierInv
<1>3. ASSUME NEW r \in Active'
      PROVE  RequestKept(r, W)
  <2>1. r \in Slot /\ requests[r].phase # "free" /\ requests'[r] = requests[r]
    BY <1>1, <1>3 DEF Active
  <2>2. r \in Active /\ requests[r].table \in Seq(PageId)
    BY <2>1, ActiveFacts DEF RequestRecords
  <2>3. Avoids(requests[r].table, W)
    BY <1>1, <2>2, SequenceFacts DEF Avoids
  <2> QED BY <2>1, <2>2, <2>3 DEF RequestKept
<1>4. ASSUME NEW d \in Arena, saved'[d] # Empty
      PROVE  SnapshotKept(d, W)
  <2>1. saved[d] # Empty /\ saved'[d] = saved[d] /\ saved[d].meta \in Meta
    BY <1>1, <1>4 DEF TierInv, SavedOK
  <2>2. saved[d].meta.pages \in Seq(PageId)
    BY <2>1, MetaFacts
  <2>3. Avoids(saved[d].meta.pages, W)
    BY <1>1, <2>1, <2>2, SequenceFacts DEF Avoids
  <2> QED BY <2>1, <2>3, CacheShape DEF SnapshotKept
<1>5. giving_up'.target \subseteq giving_up.target
  OBVIOUS
<1> HIDE DEF W
<1> QED BY <1>2, <1>3, <1>4, <1>5, ReadsStep

\* Nobody reads the target of a restore that was given up.
LEMMA TargetReads ==
    ASSUME TierInv, ReadsInv, UploadNext \/ ReleaseTarget, UNCHANGED tier_vars
    PROVE  ReadsInv'
<1> DEFINE W == giving_up.target
<1>1. requests' = requests /\ saved' = saved
  BY DEF UploadNext, ReleaseTarget, tier_vars
<1>2. GivingUpOK /\ \A d \in W \cap Arena : saved[d] = Empty
  BY DEF TierInv, TargetsOK
<1>3. giving_up'.target \subseteq W
  <2>1. CASE UploadNext
    BY <1>2, <2>1 DEF UploadNext, GivingUpOK
  <2>2. CASE ReleaseTarget
    BY <2>2 DEF ReleaseTarget, NoTarget
  <2> QED BY <2>1, <2>2
<1>4. \A y \in (PageId \cup Arena) \ W : device'[y] = device[y]
  <2>1. CASE UploadNext
    <3> DEFINE u == giving_up.uploads
    <3>1. u # <<>> /\ device' = Uploaded(<<Head(u)>>)
      BY <2>1 DEF UploadNext
    <3>2. u \in Seq(UploadRecords) /\ \A n \in 1..Len(u) : u[n].to \in W
      BY <1>2 DEF GivingUpOK
    <3> HIDE DEF u, W
    <3>3. Head(u) \in UploadRecords /\ Head(u).to \in W
      BY <3>1, <3>2, HeadTailFacts
    <3> DEFINE c == <<Head(u)>>
    <3>4. c \in Seq(UploadRecords) /\ \A n \in 1..Len(c) : c[n] = Head(u)
      BY <3>3
    <3>5. device' = Uploaded(c)
      BY <3>1
    <3> HIDE DEF c
    <3>6. ASSUME NEW y \in (PageId \cup Arena) \ W
          PROVE  device'[y] = device[y]
      <4>1. \A n \in 1..Len(c) : c[n].to # y
        BY <3>3, <3>4
      <4> QED BY <3>4, <3>5, <4>1, UploadedFacts
    <3> QED BY <3>6
  <2>2. CASE ReleaseTarget
    BY <2>2 DEF ReleaseTarget, TierInv
  <2> QED BY <2>1, <2>2
<1>5. ASSUME NEW r \in Active'
      PROVE  RequestKept(r, W)
  <2>1. r \in Active /\ requests'[r] = requests[r]
    BY <1>1, <1>5 DEF Active
  <2> QED BY <2>1 DEF RequestKept, ReadsInv, RequestReads
<1>6. ASSUME NEW d \in Arena, saved'[d] # Empty
      PROVE  SnapshotKept(d, W)
  BY <1>1, <1>2, <1>6 DEF SnapshotKept, ReadsInv, SnapshotReads
<1> HIDE DEF W
<1> QED BY <1>3, <1>4, <1>5, <1>6, ReadsStep DEF W

\* A restore is given up: what its copies may still write was never used.
LEMMA GiveUpTarget ==
    ASSUME TierInv, NEW r \in Slot, GiveUpRestore(r)
    PROVE  /\ UNCHANGED <<device, saved>>
           /\ \A q \in Active' :
                 /\ q \in Active /\ Avoids(requests[q].table, giving_up'.target)
                 /\ requests'[q].table = requests[q].table
                 /\ requests'[q].tokens = requests[q].tokens
           /\ \A d \in Arena :
                 saved[d] # Empty => Avoids(saved[d].meta.pages, giving_up'.target)
<1> DEFINE rq == requests[r]
           k == rq.hit
           n == Len(store.snapshots[k].pages)
           ids == SubSeq(Unused, 1, n)
           x == [rq EXCEPT !.phase = "attach"]
           W == giving_up'.target
<1>1. /\ rq.phase = "host" /\ k \in Resident(store) /\ Len(Unused) >= n /\ Goes(r, x)
      /\ UNCHANGED <<device, saved>>
  BY DEF GiveUpRestore, RestoreTimesOut, engine_vars
<1>2. PICK d \in Arena : W = ToSet(ids) \cup {d}
  BY DEF GiveUpRestore, RestoreTimesOut
<1>3. r \in Active /\ rq \in RequestRecords
  BY <1>1, ActiveFacts
<1>4. x.table = rq.table /\ x.tokens = rq.tokens
  BY <1>3 DEF RequestRecords
<1> HIDE DEF x
<1>5. n \in 0..Len(Unused)
  <2>1. store.snapshots[k].pages \in Seq(Slab)
    BY <1>1, ResidentFacts DEF SnapshotRecords
  <2>2. n \in Nat /\ Len(Unused) \in Nat
    BY <2>1, UnusedFacts, SequenceFacts
  <2> HIDE DEF n
  <2> QED BY <1>1, <2>2
<1>6. /\ ids \in Seq(PageId) /\ Len(ids) = n
      /\ \A i \in 1..n : device[ids[i]] = Fresh
  <2> HIDE DEF n
  <2> QED BY <1>5, FirstUnused
<1> HIDE DEF ids, n
<1>7. ToSet(ids) = {ids[i] : i \in 1..n}
  BY <1>6, SequenceFacts
<1>8. \A y \in W \cap PageId : device[y] = Fresh
  BY <1>2, <1>6, <1>7, CacheShape
<1> HIDE DEF W
<1>9. /\ \A q \in Active : Avoids(requests[q].table, W)
      /\ \A e \in Arena : saved[e] # Empty => Avoids(saved[e].meta.pages, W)
  BY <1>8, UnwrittenApart
<1>10. ASSUME NEW q \in Active'
       PROVE  /\ q \in Active /\ requests'[q].table = requests[q].table
              /\ requests'[q].tokens = requests[q].tokens
  <2>1. q \in Slot /\ requests'[q].phase # "free"
    BY <1>10 DEF Active
  <2> QED BY <1>1, <1>3, <1>4, <2>1, SlotSets DEF TierInv, Active
<1> QED BY <1>1, <1>9, <1>10 DEF W

\* So everybody reads as before.
LEMMA GiveUpReads ==
    ASSUME TierInv, ReadsInv, NEW r \in Slot, GiveUpRestore(r)
    PROVE  ReadsInv'
<1>1. ASSUME NEW q \in Active'
      PROVE  RequestReads(requests'[q], device', giving_up'.target)
  BY <1>1, GiveUpTarget DEF ReadsInv, RequestReads
<1>2. ASSUME NEW d \in Arena, saved'[d] # Empty
      PROVE  SnapshotReads(d, saved'[d].meta, device', giving_up'.target)
  BY <1>2, GiveUpTarget DEF ReadsInv, SnapshotReads
<1> QED BY <1>1, <1>2 DEF ReadsInv

-----------------------------------------------------------------------------
(* Rows that are computed.                                                 *)

\* A page that is full keeps its rows when more are computed.
LEMMA FullRows ==
    ASSUME NEW S, NEW t \in Seq(S), NEW n \in 0..Len(t), NEW i \in Nat, i * PAGE_TOKENS <= n
    PROVE  PageBytes([tokens |-> SubSeq(t, 1, n)], i) = PageBytes([tokens |-> t], i)
<1> DEFINE u == SubSeq(t, 1, n)
           p == i * PAGE_TOKENS
<1>1. Len(t) \in Nat /\ n \in Nat /\ n <= Len(t) /\ Len(u) = n
  OBVIOUS
<1>2. p \in Nat /\ p <= n /\ p <= Len(t)
  <2>1. p \in Nat
    BY CacheShape
  <2> HIDE DEF p
  <2> QED BY <1>1, <2>1 DEF p
<1>3. Min({p, n}) = p
  BY <1>1, <1>2, PageEnd
<1>4. Min({p, Len(t)}) = p
  BY <1>1, <1>2, PageEnd
<1>5. PageBytes([tokens |-> t], i) = SubSeq(t, 1, Min({p, Len(t)}))
  BY DEF PageBytes
<1>6. PageBytes([tokens |-> u], i) = SubSeq(u, 1, Min({p, Len(u)}))
  BY DEF PageBytes
<1> HIDE DEF p
<1>7. SubSeq(u, 1, p) = SubSeq(t, 1, p)
  BY <1>1, <1>2
<1> HIDE DEF u
<1> QED BY <1>1, <1>3, <1>4, <1>5, <1>6, <1>7 DEF u

\* A computed page holds its rows.
LEMMA RowsHold ==
    ASSUME NEW t \in Seq(Vocabulary), NEW i \in Nat
    PROVE  Holds(PageBytes([tokens |-> t], i), PageBytes([tokens |-> t], i))
<1> DEFINE e == Min({i * PAGE_TOKENS, Len(t)})
           s == SubSeq(t, 1, e)
<1>1. Len(t) \in Nat /\ t \in Seq(Nat)
  <2>1. Vocabulary \subseteq Nat
    BY TierShape
  <2>2. Len(t) \in Nat /\ t \in [1..Len(t) -> Vocabulary]
    OBVIOUS
  <2>3. t \in [1..Len(t) -> Nat]
    BY ONLY <2>1, <2>2
  <2> QED BY <2>2, <2>3
<1>2. e \in 0..Len(t)
  BY <1>1, PageEnd
<1>3. PageBytes([tokens |-> t], i) = s
  BY DEF PageBytes
<1> HIDE DEF e
<1>4. s \in Seq(Nat)
  BY <1>1, <1>2, CutFacts
<1> HIDE DEF s
<1>5. s \notin {Fresh, Junk} /\ Len(s) \in Nat
  BY <1>4, CacheShape
<1>6. IsPrefix(s, s)
  BY <1>5 DEF IsPrefix
<1> QED BY <1>3, <1>5, <1>6 DEF Holds

\* The places that are written when request r goes on with tokens.
Written(r, tokens) == (Len(requests[r].tokens) \div PAGE_TOKENS) + 1 .. PagesFor(Len(tokens))

\* The pages: the fresh ones, and a partly filled page that nobody shares.
LEMMA WrittenPages ==
    ASSUME TierInv, NEW r \in Slot, RequestOK(requests[r], device),
           NEW tokens \in Seq(Vocabulary), Len(requests[r].tokens) <= Len(tokens),
           PagesSuffice(r, tokens)
    PROVE  LET table == Appended(r, tokens).table
               old == requests[r].table
               a == Len(requests[r].tokens)
           IN  \A i \in 1..Len(table) :
                   \/ /\ i \in Written(r, tokens) /\ device[table[i]] = Fresh
                   \/ /\ i \in Written(r, tokens) /\ i = Len(old) /\ table[i] = Last(old)
                      /\ a % PAGE_TOKENS # 0 /\ ~CopiesTail(r)
                   \/ i <= a \div PAGE_TOKENS /\ i \in 1..Len(old) /\ table[i] = old[i]
<1> DEFINE rq == requests[r]
           old == rq.table
           a == Len(rq.tokens)
           b == Len(tokens)
           kept == IF CopiesTail(r) THEN Front(old) ELSE old
           m == PagesFor(b) - Len(kept)
           new == SubSeq(Unused, 1, m)
           table == kept \o new
           j == IF CopiesTail(r) THEN 1 ELSE 0
<1>1. /\ old \in Seq(PageId) /\ rq.tokens \in Seq(Vocabulary)
      /\ Len(old) = PagesFor(a)
  BY DEF RequestOK, RequestRecords, TableOK
<1>2. a \in Nat /\ b \in Nat /\ a <= b /\ Len(old) \in Nat
  BY <1>1, SequenceFacts
<1>3. /\ PagesFor(a) \in Nat /\ PagesFor(b) \in Nat /\ PagesFor(a) <= PagesFor(b)
      /\ a \div PAGE_TOKENS \in Nat
      /\ a % PAGE_TOKENS = 0 => PagesFor(a) = a \div PAGE_TOKENS
      /\ a % PAGE_TOKENS # 0 => PagesFor(a) = a \div PAGE_TOKENS + 1
  BY <1>2, PagesGrow, PagesOfTokens, TokenParts
<1>4. CopiesTail(r) => a % PAGE_TOKENS # 0
  BY DEF CopiesTail
<1>5. j \in {0, 1} /\ j <= Len(old)
  BY <1>1, <1>2, <1>3, <1>4
<1>6. /\ kept \in Seq(PageId) /\ Len(kept) = Len(old) - j
      /\ \A i \in 1..Len(kept) : kept[i] = old[i]
  <2>1. CASE CopiesTail(r)
    <3>1. Len(old) - 1 \in 0..Len(old)
      BY <1>2, <1>5, <2>1
    <3>2. kept = SubSeq(old, 1, Len(old) - 1)
      BY <2>1 DEF Front
    <3> HIDE DEF kept, old
    <3> QED BY <1>1, <2>1, <3>1, <3>2, CutFacts
  <2>2. CASE ~CopiesTail(r)
    BY <1>1, <1>2, <2>2
  <2> QED BY <2>1, <2>2
<1>7. m \in 0..Len(Unused)
  <2>1. Len(Unused) >= PagesFor(b) - Len(old) + j /\ Len(Unused) \in Nat
    BY UnusedFacts DEF PagesSuffice
  <2> HIDE DEF kept, j, b, old
  <2>2. m = PagesFor(b) - (Len(old) - j)
    BY <1>6
  <2> HIDE DEF m
  <2> QED BY <1>1, <1>2, <1>3, <1>5, <2>1, <2>2
<1>8. /\ new \in Seq(PageId) /\ Len(new) = m
      /\ \A i \in 1..m : device[new[i]] = Fresh
  <2> HIDE DEF m
  <2> QED BY <1>7, FirstUnused
<1>9. /\ Len(table) = Len(kept) + Len(new)
      /\ \A i \in 1..Len(kept) : table[i] = kept[i]
      /\ \A i \in 1..Len(new) : table[Len(kept) + i] = new[i]
  <2> HIDE DEF kept, new, m, j, old
  <2>1. kept \in Seq(PageId) /\ new \in Seq(PageId)
    BY <1>6, <1>8
  <2> QED BY <2>1, ConcatFacts
<1>10. Len(kept) \in Nat /\ Len(table) = PagesFor(b)
  <2>1. Len(kept) \in Nat
    BY <1>6, SequenceFacts
  <2> HIDE DEF kept, new, table
  <2> QED BY <1>3, <1>8, <1>9, <2>1
<1>11. Appended(r, tokens).table = table
  BY DEF Appended
<1>12. Written(r, tokens) = (a \div PAGE_TOKENS) + 1 .. PagesFor(b)
  BY DEF Written
<1>13. Last(old) = old[Len(old)]
  BY DEF Last
<1>14. j = 0 => ~CopiesTail(r)
  OBVIOUS
<1> HIDE DEF table, kept, new, j
<1>15. ASSUME NEW i \in 1..Len(table)
       PROVE  \/ /\ i \in Written(r, tokens) /\ device[table[i]] = Fresh
              \/ /\ i \in Written(r, tokens) /\ i = Len(old) /\ table[i] = Last(old)
                 /\ a % PAGE_TOKENS # 0 /\ ~CopiesTail(r)
              \/ i <= a \div PAGE_TOKENS /\ i \in 1..Len(old) /\ table[i] = old[i]
  <2> DEFINE q == a \div PAGE_TOKENS
             c == Len(kept)
             z == Len(old)
  <2>1. /\ q \in Nat /\ c \in Nat /\ z \in Nat /\ i \in 1..PagesFor(b) /\ PagesFor(b) \in Nat
        /\ c = z - j /\ j \in {0, 1}
        /\ a % PAGE_TOKENS = 0 => z = q
        /\ a % PAGE_TOKENS # 0 => z = q + 1
        /\ j = 1 => a % PAGE_TOKENS # 0
    BY <1>1, <1>2, <1>3, <1>4, <1>5, <1>6, <1>10 DEF j
  <2>2. CASE i > c
    <3>1. i - c \in 1..Len(new) /\ i = c + (i - c)
      <4>1. Len(new) \in Nat /\ PagesFor(b) = c + Len(new)
        <5>1. Len(new) = m /\ m \in 0..Len(Unused) /\ Len(Unused) \in Nat
          BY <1>7, <1>8, UnusedFacts
        <5>2. PagesFor(b) = c + Len(new)
          BY <1>9, <1>10
        <5> HIDE DEF m
        <5> QED BY <5>1, <5>2
      <4> HIDE DEF q, c, z, m
      <4> QED BY <2>1, <2>2, <4>1
    <3>2. table[i] = new[i - c]
      BY <1>9, <3>1
    <3>3. device[table[i]] = Fresh
      BY <1>8, <3>1, <3>2
    <3>4. i \in Written(r, tokens)
      <4> HIDE DEF q, c, z
      <4>1. i >= q + 1
        BY <2>1, <2>2
      <4> QED BY <1>12, <2>1, <4>1 DEF q
    <3> QED BY <3>3, <3>4
  <2>3. CASE i <= c
    <3>1. i \in 1..c
      BY <2>1, <2>3
    <3>2. table[i] = old[i] /\ i \in 1..z
      <4>1. table[i] = kept[i] /\ kept[i] = old[i]
        BY <1>6, <1>9, <3>1
      <4> HIDE DEF q, c, z
      <4>2. i \in 1..z
        BY <2>1, <3>1
      <4> QED BY <4>1, <4>2
    <3>3. CASE i <= q
      BY <3>2, <3>3
    <3>4. CASE ~(i <= q)
      <4> HIDE DEF q, c, z
      <4>1. i = z /\ a % PAGE_TOKENS # 0 /\ j = 0 /\ i = q + 1
        BY <2>1, <3>1, <3>2, <3>4
      <4>2. i \in Written(r, tokens)
        BY <1>12, <2>1, <4>1 DEF q
      <4> QED BY <1>13, <1>14, <3>2, <4>1, <4>2 DEF z
    <3> QED BY <3>3, <3>4
  <2> QED BY <2>1, <2>2, <2>3
<1> HIDE DEF old, a
<1> QED BY <1>11, <1>15 DEF old, a

\* The pages before the last whole one hold no more than the rows.
LEMMA WholePages ==
    ASSUME NEW a \in Nat, NEW i \in Nat, i <= a \div PAGE_TOKENS
    PROVE  i * PAGE_TOKENS <= a
<1> DEFINE q == a \div PAGE_TOKENS
<1>1. q \in Nat /\ a % PAGE_TOKENS \in Nat /\ a = q * PAGE_TOKENS + (a % PAGE_TOKENS)
  <2>1. a % PAGE_TOKENS \in 0..PAGE_TOKENS - 1 /\ PAGE_TOKENS \in Nat
    BY TokenParts, CacheShape
  <2>2. a % PAGE_TOKENS \in Nat
    BY <2>1
  <2> QED BY <2>2, TokenParts
<1>2. PAGE_TOKENS \in Nat
  BY CacheShape
<1> HIDE DEF q
<1>3. CASE i = q
  <2>1. q * PAGE_TOKENS \in Nat
    BY <1>1, <1>2
  <2> QED BY <1>1, <1>3, <2>1
<1>4. CASE i < q
  <2>1. i * PAGE_TOKENS + PAGE_TOKENS <= q * PAGE_TOKENS
    BY <1>1, <1>4, PagesApart
  <2>2. q * PAGE_TOKENS \in Nat /\ i * PAGE_TOKENS \in Nat
    BY <1>1, <1>2
  <2> QED BY <1>1, <1>2, <2>1, <2>2
<1> QED BY <1>1, <1>3, <1>4 DEF q

\* A request that goes on with more tokens writes its own pages alone, and reads its rows.
LEMMA ComputedReads ==
    ASSUME TierInv, ReadsInv, NEW r \in Slot, RequestOK(requests[r], device),
           requests[r].phase # "free", giving_up.target = {}, giving_up' = giving_up,
           saved' = saved,
           NEW tokens \in Seq(Vocabulary), Len(requests[r].tokens) <= Len(tokens),
           Len(tokens) <= MAX_TOKENS,
           requests[r].tokens = SubSeq(tokens, 1, Len(requests[r].tokens)),
           PagesSuffice(r, tokens), device' = Appended(r, tokens).device,
           NEW x, Goes(r, x), x.table = Appended(r, tokens).table, x.tokens = tokens
    PROVE  ReadsInv'
<1> DEFINE rq == requests[r]
           old == rq.table
           a == Len(rq.tokens)
           b == Len(tokens)
           table == Appended(r, tokens).table
           written == Written(r, tokens)
           W == {table[i] : i \in written}
           F == {y \in PageId : device[y] = Fresh}
<1>1. /\ table \in Seq(PageId) /\ Len(table) = PagesFor(b) /\ Injective(table)
      /\ \A i \in 1..Len(table) : table[i] \in PageId
  <2>1. table \in Seq(PageId) /\ Len(table) = PagesFor(b) /\ Injective(table)
    BY AppendedTable
  <2> HIDE DEF table
  <2> QED BY <2>1, SequenceFacts
<1>2. \A i \in 1..Len(table) :
          \/ i \in written /\ device[table[i]] = Fresh
          \/ i \in written /\ table[i] = Last(old) /\ ~Shared(r, Last(old)) /\ i = Len(old)
          \/ i <= a \div PAGE_TOKENS /\ i \in 1..Len(old) /\ table[i] = old[i]
  BY WrittenPages DEF CopiesTail
<1>3. /\ a \in Nat /\ b \in Nat /\ a \div PAGE_TOKENS \in Nat /\ PagesFor(b) \in Nat
      /\ \A i \in written : i \in 1..Len(table) /\ i > a \div PAGE_TOKENS
  <2>1. a \in Nat /\ b \in Nat
    BY DEF RequestOK, RequestRecords
  <2>2. a \div PAGE_TOKENS \in Nat /\ PagesFor(b) \in Nat
    BY <2>1, TokenParts, PagesOfTokens
  <2>3. written = (a \div PAGE_TOKENS) + 1 .. PagesFor(b)
    BY DEF Written
  <2> HIDE DEF written, table, a, b
  <2> QED BY <1>1, <2>1, <2>2, <2>3
<1>4. device' = [y \in PageId \cup Arena |->
          IF \E i \in written : table[i] = y
          THEN PageBytes([tokens |-> tokens], CHOOSE i \in written : table[i] = y)
          ELSE device[y]]
  BY DEF Appended, Written
<1> HIDE DEF table, written, a
<1>5. \A y \in (PageId \cup Arena) \ W : device'[y] = device[y]
  BY <1>4
<1>6. ASSUME NEW i \in written
      PROVE  device'[table[i]] = PageBytes([tokens |-> tokens], i)
  <2>1. table[i] \in PageId
    BY <1>1, <1>3
  <2>2. \E j \in written : table[j] = table[i]
    OBVIOUS
  <2> DEFINE c == CHOOSE j \in written : table[j] = table[i]
  <2>3. c \in written /\ table[c] = table[i]
    BY <2>2
  <2>4. c = i
    <3> HIDE DEF c
    <3> QED BY <1>1, <1>3, <2>3 DEF Injective
  <2>5. device'[table[i]] = PageBytes([tokens |-> tokens], c)
    BY <1>4, <2>1, <2>2
  <2> HIDE DEF c
  <2> QED BY <2>4, <2>5
<1>7. ReadsBy(table, tokens, device')
  <2> SUFFICES ASSUME NEW i \in 1..Len(table)
               PROVE  Holds(device'[table[i]], PageBytes([tokens |-> tokens], i))
    BY DEF ReadsBy
  <2>1. i \in Nat
    BY <1>1, <1>3
  <2>2. CASE i \in written
    BY <1>6, <2>1, <2>2, RowsHold
  <2>3. CASE i \notin written
    <3>1. i <= a \div PAGE_TOKENS /\ i \in 1..Len(old) /\ table[i] = old[i]
      BY <1>2, <2>3
    <3>2. table[i] \notin W
      <4>1. \A j \in written : table[j] # table[i]
        BY <1>1, <1>3, <2>3 DEF Injective
      <4> QED BY <4>1
    <3>3. device'[table[i]] = device[old[i]]
      BY <1>1, <1>5, <3>1, <3>2
    <3>4. Holds(device[old[i]], PageBytes([tokens |-> rq.tokens], i))
      <4>1. r \in Active
        BY DEF Active
      <4> QED BY <3>1, <4>1 DEF ReadsInv, RequestReads, ReadsBy
    <3>5. i * PAGE_TOKENS <= a
      BY <1>3, <2>1, <3>1, WholePages
    <3>6. PageBytes([tokens |-> SubSeq(tokens, 1, a)], i) = PageBytes([tokens |-> tokens], i)
      <4>1. a \in 0..Len(tokens)
        BY <1>3 DEF a
      <4> QED BY <2>1, <3>5, <4>1, FullRows
    <3>7. rq.tokens = SubSeq(tokens, 1, a)
      BY DEF a
    <3> QED BY <3>3, <3>4, <3>6, <3>7
  <2> QED BY <2>2, <2>3
<1>8. \A y \in W : y \in F \/ (y = Last(old) /\ ~Shared(r, Last(old)))
  <2> TAKE y \in W
  <2>1. PICK i \in written : y = table[i]
    OBVIOUS
  <2>2. i \in 1..Len(table) /\ ~(i <= a \div PAGE_TOKENS) /\ table[i] \in PageId
    BY <1>1, <1>3
  <2> QED BY <1>2, <2>1, <2>2
<1>9. /\ \A q \in Active : Avoids(requests[q].table, F)
      /\ \A d \in Arena : saved[d] # Empty => Avoids(saved[d].meta.pages, F)
  <2>1. \A y \in F \cap PageId : device[y] = Fresh
    OBVIOUS
  <2> HIDE DEF F
  <2> QED BY <2>1, UnwrittenApart
<1>10. ASSUME NEW t \in Seq(PageId), Avoids(t, F), ~Shared(r, Last(old)) => Last(old) \notin ToSet(t)
       PROVE  Avoids(t, W)
  <2>1. \A i \in 1..Len(t) : t[i] \in ToSet(t)
    BY SequenceFacts DEF ToSet
  <2> HIDE DEF W, F
  <2> QED BY <1>8, <1>10, <2>1 DEF Avoids
<1>11. ASSUME NEW q \in Active', q # r
       PROVE  RequestKept(q, W)
  <2>1. q \in Active /\ requests'[q] = requests[q]
    <3>1. q \in Slot
      BY DEF Active
    <3>2. requests'[q] = requests[q]
      BY <1>11, <3>1, SlotSets DEF TierInv
    <3> QED BY <3>1, <3>2 DEF Active
  <2>2. requests[q].table \in Seq(PageId)
    BY <2>1, PhaseFacts DEF Active, TierInv, RequestOK, RequestRecords
  <2>3. ~Shared(r, Last(old)) => Last(old) \notin ToSet(requests[q].table)
    BY <1>11, <2>1 DEF Shared
  <2>4. Avoids(requests[q].table, W)
    BY <1>9, <1>10, <2>1, <2>2, <2>3
  <2> QED BY <2>1, <2>4 DEF RequestKept
<1>12. requests'[r] = x
  BY SlotSets DEF TierInv
<1>13. RequestReads(requests'[r], device', giving_up'.target)
  <2>1. giving_up'.target = {}
    OBVIOUS
  <2>2. x.table = table /\ x.tokens = tokens
    BY DEF table
  <2>3. RequestReads(x, device', {})
    BY <1>7, <2>2 DEF RequestReads, Avoids
  <2> QED BY <1>12, <2>1, <2>3
<1>14. ASSUME NEW d \in Arena, saved'[d] # Empty
       PROVE  SnapshotKept(d, W)
  <2>1. saved[d] # Empty /\ saved[d].meta \in Meta
    BY <1>14 DEF TierInv, SavedOK
  <2>2. saved[d].meta.pages \in Seq(PageId)
    BY <2>1, MetaFacts
  <2>3. ~Shared(r, Last(old)) => Last(old) \notin ToSet(saved[d].meta.pages)
    BY <2>1 DEF Shared
  <2>4. Avoids(saved[d].meta.pages, W)
    BY <1>9, <1>10, <2>1, <2>2, <2>3
  <2>5. d \notin W
    BY <1>1, <1>3, CacheShape
  <2> QED BY <2>1, <2>4, <2>5 DEF SnapshotKept
<1>15. \A q \in Active' :
           RequestKept(q, W) \/ RequestReads(requests'[q], device', giving_up'.target)
  BY <1>11, <1>13
<1>16. giving_up'.target \subseteq giving_up.target
  OBVIOUS
<1> HIDE DEF W
<1> QED BY <1>5, <1>14, <1>15, <1>16, ReadsStep

\* The rows a prompt shares are those it begins with.
LEMMA PrefillReads ==
    ASSUME TierInv, ReadsInv, NEW r \in Slot, Prefill(r), giving_up' = giving_up
    PROVE  ReadsInv'
<1> DEFINE rq == requests[r]
           p == rq.prompt
           x == [rq EXCEPT !.phase = "room", !.tokens = p, !.table = Appended(r, p).table]
<1>1. /\ Calls(r) /\ rq.phase = "prefill" /\ PagesSuffice(r, p)
      /\ device' = Appended(r, p).device /\ Goes(r, x) /\ saved' = saved
  BY DEF Prefill
<1>2. giving_up.target = {} /\ RequestOK(rq, device)
  BY <1>1, CallFacts
<1>3. rq \in RequestRecords /\ PhaseOK(rq)
  BY <1>2 DEF RequestOK
<1>4. p \in Seq(Vocabulary) /\ Len(p) \in 1..MAX_TOKENS
  BY <1>3, PromptFacts DEF RequestRecords
<1>5. /\ Len(rq.tokens) <= Len(p) /\ Len(p) <= MAX_TOKENS
      /\ rq.tokens = SubSeq(p, 1, Len(rq.tokens))
  BY <1>1, <1>3, <1>4, TierShape DEF PhaseOK
<1>6. x.tokens = p /\ x.table = Appended(r, p).table
  BY <1>3 DEF RequestRecords
<1> HIDE DEF x
<1> QED BY <1>1, <1>2, <1>4, <1>5, <1>6, ComputedReads

\* A round of decoding appends one row.
LEMMA DecodeReads ==
    ASSUME TierInv, ReadsInv, NEW r \in Slot, NEW t \in Vocabulary, Decode(r, t),
           giving_up' = giving_up
    PROVE  ReadsInv'
<1> DEFINE rq == requests[r]
           tokens == Append(rq.tokens, t)
           x == [rq EXCEPT !.tokens = tokens, !.table = Appended(r, tokens).table]
<1>1. /\ Idle /\ rq.phase = "decode" /\ Len(rq.tokens) < MAX_TOKENS
      /\ PagesSuffice(r, tokens)
      /\ device' = Appended(r, tokens).device /\ Goes(r, x) /\ saved' = saved
  BY DEF Decode
<1>2. giving_up.target = {}
  BY <1>1, IdleFacts
<1>3. RequestOK(rq, device) /\ rq \in RequestRecords
  BY <1>1, ActiveFacts
<1>4. rq.tokens \in Seq(Vocabulary) /\ Len(rq.tokens) \in Nat
  BY <1>3 DEF RequestRecords
<1>5. /\ tokens \in Seq(Vocabulary) /\ Len(tokens) = Len(rq.tokens) + 1
      /\ rq.tokens = SubSeq(tokens, 1, Len(rq.tokens))
  BY <1>4
<1>6. x.tokens = tokens /\ x.table = Appended(r, tokens).table
  BY <1>3 DEF RequestRecords
<1> HIDE DEF tokens, x
<1>7. Len(rq.tokens) <= Len(tokens) /\ Len(tokens) <= MAX_TOKENS
  BY <1>1, <1>4, <1>5, TierShape
<1> QED BY <1>1, <1>2, <1>3, <1>5, <1>6, <1>7, ComputedReads

-----------------------------------------------------------------------------
(* Rows that come back from the host.                                      *)

\* What copies write last was read from the slab of one of them.
LEMMA UploadedLast ==
    ASSUME NEW copies \in Seq(UploadRecords), NEW x \in PageId \cup Arena,
           \E n \in 1..Len(copies) : copies[n].to = x
    PROVE  \E n \in 1..Len(copies) :
               copies[n].to = x /\ Uploaded(copies)[x] = memory[copies[n].from]
<1>1. DOMAIN copies = 1..Len(copies) /\ Len(copies) \in Nat
  BY SequenceFacts
<1> DEFINE W == Writes(copies, x)
<1>2. Uploaded(copies)[x] = IF W = {} THEN device[x] ELSE memory[copies[Max(W)].from]
  BY DEF Uploaded
<1>3. /\ W \in SUBSET Nat /\ W # {} /\ \A y \in W : y <= Len(copies)
      /\ \A n : n \in W <=> n \in 1..Len(copies) /\ copies[n].to = x
  BY <1>1 DEF Writes
<1> HIDE DEF W
<1>4. Max(W) \in W
  BY <1>1, <1>3, MaxProperties
<1> QED BY <1>2, <1>3, <1>4

\* The bytes a restore of snapshot s puts into pages ids and buffer d.
LEMMA RestoredBytes ==
    ASSUME NEW s, s.pages \in Seq(Slab), s.own \subseteq Slab, s.own # {}, NEW d \in Arena,
           NEW ids \in Seq(PageId), Len(ids) = Len(s.pages), Injective(ids)
    PROVE  /\ \A i \in 1..Len(ids) : Uploaded(Uploads(s, d, ids))[ids[i]] = memory[s.pages[i]]
           /\ \E b \in s.own : Uploaded(Uploads(s, d, ids))[d] = memory[b]
           /\ \A y \in (PageId \cup Arena) \ (ToSet(ids) \cup {d}) :
                  Uploaded(Uploads(s, d, ids))[y] = device[y]
<1> DEFINE u == Uploads(s, d, ids)
<1>1. /\ DOMAIN ids = 1..Len(ids) /\ DOMAIN s.pages = 1..Len(s.pages)
      /\ \A i \in 1..Len(ids) : ids[i] \in PageId /\ s.pages[i] \in Slab
      /\ \A i \in 1..Len(ids) : ids[i] \in ToSet(ids)
  BY SequenceFacts DEF ToSet
<1>2. /\ u \in Seq(UploadRecords)
      /\ ToSet(u) = {PageUpload(s, ids, i) : i \in DOMAIN ids} \cup {PartUpload(b, d) : b \in s.own}
  BY <1>1, UploadsFacts
<1> HIDE DEF u
<1>3. ToSet(u) = {u[n] : n \in 1..Len(u)}
  BY <1>2, SequenceFacts
<1>4. ASSUME NEW n \in 1..Len(u)
      PROVE  \/ \E j \in 1..Len(ids) : u[n].from = s.pages[j] /\ u[n].to = ids[j]
             \/ u[n].from \in s.own /\ u[n].to = d
  <2>1. u[n] \in ToSet(u)
    BY <1>3
  <2> QED BY <1>1, <1>2, <2>1 DEF PageUpload, PartUpload
<1>5. d \notin PageId
  BY CacheShape
<1>6. ASSUME NEW i \in 1..Len(ids)
      PROVE  Uploaded(u)[ids[i]] = memory[s.pages[i]]
  <2>1. PageUpload(s, ids, i) \in ToSet(u)
    BY <1>1, <1>2
  <2>2. \E n \in 1..Len(u) : u[n].to = ids[i]
    BY <1>3, <2>1 DEF PageUpload
  <2>3. PICK n \in 1..Len(u) : u[n].to = ids[i] /\ Uploaded(u)[ids[i]] = memory[u[n].from]
    BY <1>1, <1>2, <2>2, UploadedLast
  <2>4. PICK j \in 1..Len(ids) : u[n].from = s.pages[j] /\ u[n].to = ids[j]
    BY <1>1, <1>4, <1>5, <2>3
  <2>5. j = i
    BY <1>1, <2>3, <2>4 DEF Injective
  <2> QED BY <2>3, <2>4, <2>5
<1>7. \E b \in s.own : Uploaded(u)[d] = memory[b]
  <2>1. PICK b \in s.own : TRUE
    OBVIOUS
  <2>2. PartUpload(b, d) \in ToSet(u)
    BY <1>2
  <2>3. \E n \in 1..Len(u) : u[n].to = d
    BY <1>3, <2>2 DEF PartUpload
  <2>4. PICK n \in 1..Len(u) : u[n].to = d /\ Uploaded(u)[d] = memory[u[n].from]
    BY <1>2, <2>3, UploadedLast
  <2>5. u[n].from \in s.own
    BY <1>1, <1>4, <1>5, <2>4
  <2> QED BY <2>4, <2>5
<1>8. ASSUME NEW y \in (PageId \cup Arena) \ (ToSet(ids) \cup {d})
      PROVE  Uploaded(u)[y] = device[y]
  <2>1. \A n \in 1..Len(u) : u[n].to # y
    BY <1>1, <1>4
  <2> QED BY <1>2, <2>1, UploadedFacts
<1> QED BY <1>6, <1>7, <1>8 DEF u

\* A resident snapshot has a slab for what fills an arena buffer.
LEMMA ResidentParts ==
    ASSUME TierInv, NEW k \in Resident(store)
    PROVE  store.snapshots[k].own # {}
<1>1. PlansExact(store, plans)
  BY CacheStoreInv DEF TierInv, StoreInv
<1>2. Cardinality(store.snapshots[k].own) = store.snapshots[k].meta.parts
  BY <1>1 DEF PlansExact
<1>3. store.snapshots[k].meta.parts \in Nat \ {0}
  BY ResidentFacts, HasParts
<1> QED BY <1>2, <1>3, FS_EmptySet

\* A page's rows depend on the tokens alone.
LEMMA RowsOfTokens ==
    ASSUME NEW m, NEW t, t = m.tokens, NEW i
    PROVE  PageBytes([tokens |-> t], i) = PageBytes(m, i)
BY DEF PageBytes

\* What the slabs of host snapshot k hold is what it was stored with.
HostRight(k) ==
    LET s == store.snapshots[k] IN
    /\ \A i \in DOMAIN s.pages : Holds(memory[s.pages[i]], PageBytes(s.meta, i))
    /\ \A b \in s.own : memory[b] = OwnBytes(s.meta)

\* A request brings back a host snapshot whose slabs hold something else.
RestoresStale == \E r \in Slot : RestoreFromHost(r) /\ ~HostRight(requests[r].hit)

\* A snapshot that comes back from the host holds the rows it was stored with, if
\* the host has kept them.
LEMMA RestoreReads ==
    ASSUME TierInv, ReadsInv, NEW r \in Slot, RestoreFromHost(r), HostRight(requests[r].hit),
           giving_up' = giving_up
    PROVE  ReadsInv'
<1> DEFINE k == requests[r].hit
           s == store.snapshots[k]
           ids == SubSeq(Unused, 1, Len(s.pages))
           m == [s.meta EXCEPT !.pages = ids]
           x == [requests[r] EXCEPT !.phase = "attach"]
<1>1. /\ Calls(r) /\ requests[r].phase = "host" /\ k \in Resident(store)
      /\ Len(Unused) >= Len(s.pages) /\ Goes(r, x)
  BY DEF RestoreFromHost
<1>2. PICK d \in Arena : Takeable(d) /\ Restore(k, d, ids)
  BY DEF RestoreFromHost
<1>3. giving_up.target = {} /\ RequestOK(requests[r], device) /\ r \in Active
  BY <1>1, CallFacts DEF Active
<1>4. /\ m \in Meta /\ device' = Uploaded(Uploads(s, d, ids))
      /\ saved' = [saved EXCEPT ![d] = [ticket |-> NoTicket, meta |-> m]]
  BY <1>2 DEF Restore, RestoresTo
<1>5. /\ s \in SnapshotRecords /\ s.pages \in Seq(Slab) /\ s.own \subseteq Slab /\ s.meta \in Meta
      /\ s.own # {}
  BY <1>1, ResidentFacts, ResidentParts DEF SnapshotRecords
<1>6. /\ ids \in Seq(PageId) /\ Len(ids) = Len(s.pages) /\ Injective(ids)
      /\ \A i \in 1..Len(ids) : device[ids[i]] = Fresh
  <2>1. Len(s.pages) \in Nat
    BY ONLY <1>5, SequenceFacts
  <2>2. Len(Unused) \in Nat
    BY ONLY UnusedFacts
  <2>3. Len(Unused) >= Len(s.pages)
    BY ONLY <1>1
  <2> HIDE DEF s
  <2>4. Len(s.pages) \in 0..Len(Unused)
    BY ONLY <2>1, <2>2, <2>3
  <2> QED BY <2>4, FirstUnused
<1>7. m.pages = ids /\ m.tokens = s.meta.tokens
  <2>1. s.meta = [kind |-> s.meta.kind, tokens |-> s.meta.tokens, pages |-> s.meta.pages,
                  parts |-> s.meta.parts]
    BY <1>5, MetaShape
  <2> HIDE DEF ids, s
  <2> QED BY ONLY <2>1
<1>8. x.table = requests[r].table /\ x.tokens = requests[r].tokens
  BY <1>3 DEF RequestOK, RequestRecords
<1>9. /\ \A i \in DOMAIN s.pages : Holds(memory[s.pages[i]], PageBytes(s.meta, i))
      /\ \A b \in s.own : memory[b] = OwnBytes(s.meta)
  BY DEF HostRight
<1>10. DOMAIN s.pages = 1..Len(s.pages) /\ DOMAIN ids = 1..Len(ids)
  <2> HIDE DEF ids, s
  <2> QED BY <1>5, <1>6, SequenceFacts
<1>11. saved[d] = Empty
  BY <1>2, TakeableFacts
<1>12. \A e \in Arena : saved'[e] = IF e = d THEN [ticket |-> NoTicket, meta |-> m] ELSE saved[e]
  BY <1>4 DEF TierInv, CacheInv, SavedMatch
<1> DEFINE W == ToSet(ids) \cup {d}
<1> HIDE DEF x, m, ids, s, k
<1>13. /\ \A i \in 1..Len(ids) : device'[ids[i]] = memory[s.pages[i]]
       /\ \E b \in s.own : device'[d] = memory[b]
       /\ \A y \in (PageId \cup Arena) \ W : device'[y] = device[y]
  BY <1>4, <1>5, <1>6, RestoredBytes
<1>14. device'[d] = OwnBytes(m)
  BY <1>7, <1>9, <1>13 DEF OwnBytes
<1>15. ReadsBy(m.pages, m.tokens, device')
  <2> SUFFICES ASSUME NEW i \in 1..Len(ids)
               PROVE  Holds(device'[ids[i]], PageBytes([tokens |-> m.tokens], i))
    BY <1>7 DEF ReadsBy
  <2>1. PageBytes([tokens |-> m.tokens], i) = PageBytes(s.meta, i)
    BY <1>7, RowsOfTokens
  <2> QED BY <1>6, <1>9, <1>10, <1>13, <2>1
<1>16. SnapshotReads(d, m, device', giving_up'.target)
  BY <1>3, <1>14, <1>15 DEF SnapshotReads, Avoids
<1>17. \A y \in W \cap PageId : device[y] = Fresh
  <2> TAKE y \in W \cap PageId
  <2>1. y # d
    BY CacheShape
  <2>2. PICK i \in 1..Len(ids) : y = ids[i]
    BY <1>10, <2>1 DEF ToSet
  <2> QED BY <1>6, <2>2
<1>18. \A e \in Arena : SnapshotGoes(e, W)
  <2> TAKE e \in Arena
  <2>1. CASE e = d
    <3>1. saved'[e].meta = m
      BY <1>12, <2>1
    <3> QED BY <1>16, <2>1, <3>1 DEF SnapshotGoes
  <2>2. CASE e # d
    <3>1. e \notin ToSet(ids)
      <4>1. \A i \in 1..Len(ids) : ids[i] \in PageId
        BY <1>6, SequenceFacts
      <4> QED BY <1>10, <4>1, CacheShape DEF ToSet
    <3> QED BY <1>12, <2>2, <3>1 DEF SnapshotGoes
  <2> QED BY <2>1, <2>2
<1>19. RequestGoes(r, x)
  BY <1>3, <1>8 DEF RequestGoes
<1>20. giving_up'.target \subseteq giving_up.target
  OBVIOUS
<1> HIDE DEF W
<1> QED BY <1>1, <1>13, <1>17, <1>18, <1>19, <1>20, ReadsGo

-----------------------------------------------------------------------------
(* The target of a restore that was given up.                              *)

\* A restore is given up only while no bank is over its limit, and nobody reads from
\* what its copies may still write.
TargetApart ==
    /\ giving_up.target # {} => Over = {}
    /\ TargetsAvoided

\* A target that is written, or released, stays apart.
LEMMA TargetShrinks ==
    ASSUME TargetApart, giving_up'.target \subseteq giving_up.target,
           UNCHANGED <<banks, requests, saved>>
    PROVE  TargetApart'
<1>1. Active' = Active /\ Over' = Over
  BY DEF Active, Over
<1> QED BY <1>1 DEF TargetApart, TargetsAvoided, Avoids

\* A snapshot is dropped to make room, or after an insertion, with no restore given up.
LEMMA DropsUntargeted ==
    ASSUME TierInv, TargetApart, MakeRoom \/ EvictOver
    PROVE  giving_up.target = {}
<1>1. CASE MakeRoom
  BY <1>1, TierShape DEF MakeRoom, TierInv, TargetsOK
<1>2. CASE EvictOver
  BY <1>2 DEF EvictOver, TargetApart
<1> QED BY <1>1, <1>2

\* The target of a restore that was given up stays apart.
LEMMA NextTargets ==
    ASSUME TierInv, TargetApart, [TierNext]_vars
    PROVE  TargetApart'
<1>1. CASE UNCHANGED vars
  BY <1>1, TargetShrinks DEF vars, all_vars, tier_vars, engine_vars
<1>2. ASSUME NEW r \in Slot, GiveUpRestore(r)
      PROVE  TargetApart'
  <2>1. TargetsAvoided'
    BY <1>2, GiveUpTarget DEF TargetsAvoided
  <2>2. Over' = {}
    BY <1>2 DEF GiveUpRestore, Calls, Over
  <2> QED BY <2>1, <2>2 DEF TargetApart
<1>3. CASE (UploadNext \/ ReleaseTarget) /\ UNCHANGED tier_vars
  <2>1. giving_up'.target \subseteq giving_up.target
    BY <1>3 DEF UploadNext, ReleaseTarget, NoTarget, TierInv, TargetsOK, GivingUpOK
  <2>2. saved' = saved
    BY <1>3 DEF UploadNext, ReleaseTarget
  <2> QED BY <1>3, <2>1, <2>2, TargetShrinks DEF tier_vars
<1>4. CASE giving_up' = giving_up /\ giving_up.target = {}
  BY <1>4 DEF TargetApart, TargetsAvoided, Avoids
<1>5. ASSUME NEW r \in Slot, giving_up' = giving_up,
             \/ \E p \in Prompts : Admit(r, p)
             \/ AttachDevice(r) \/ HitHost(r) \/ Miss(r)
             \/ RestoreFromHost(r) \/ AbandonRestore(r) \/ Prefill(r)
             \/ MakeBankRoom(r) \/ RetainNow(r) \/ SkipRetain(r) \/ QueueRetain(r)
             \/ PollRetain(r) \/ AbortRetain(r) \/ Insert(r)
             \/ \E t \in Vocabulary : Decode(r, t)
             \/ \E queues \in BOOLEAN : Retire(r, queues)
             \/ EndRequest(r)
      PROVE  TargetApart'
  <2>1. Calls(r) \/ Idle
    BY <1>5 DEF Admit, AttachDevice, HitHost, Miss, RestoreFromHost, AbandonRestore, Prefill,
                MakeBankRoom, RetainNow, SkipRetain, QueueRetain, PollRetain, AbortRetain,
                Insert, Decode, Retire, EndRequest
  <2>2. giving_up.target = {}
    BY <2>1, CallFacts, IdleFacts
  <2> QED BY <1>4, <1>5, <2>2
<1>6. ASSUME giving_up' = giving_up, MakeRoom \/ EvictOver
      PROVE  TargetApart'
  BY <1>4, <1>6, DropsUntargeted
<1>7. ASSUME giving_up' = giving_up,
             \/ \E id \in PageId : ReusePage(id)
             \/ ObserveCopies \/ RunStream
      PROVE  TargetApart'
  <2>1. UNCHANGED tier_vars /\ saved' = saved
    BY <1>7 DEF ReusePage, FreePage, ObserveCopies, TickAny, Tick, RunStream, CopyNext,
                engine_vars
  <2> QED BY <1>7, <2>1, TargetShrinks DEF tier_vars
<1> QED BY <1>1, <1>2, <1>3, <1>5, <1>6, <1>7 DEF TierNext

-----------------------------------------------------------------------------
(* What is read is right as long as the host keeps what it was given.       *)

\* Before the first request nothing is read.
LEMMA InitReads == TierInit => ReadsInv
<1> SUFFICES ASSUME TierInit PROVE ReadsInv
  OBVIOUS
<1>1. Active = {}
  BY DEF TierInit, Active, NoRequest
<1>2. \A d \in Arena : saved[d] = Empty
  BY DEF TierInit, CacheInit
<1> QED BY <1>1, <1>2 DEF ReadsInv

\* Every other step of the two tiers leaves what is read right.
LEMMA NextReads ==
    ASSUME TierInv, ReadsInv, ~RestoresStale, [TierNext]_vars
    PROVE  ReadsInv'
<1>1. CASE UNCHANGED vars
  BY <1>1, UnseenReads DEF vars, tier_vars, all_vars, engine_vars
<1>2. CASE \E r \in Slot : GiveUpRestore(r)
  BY <1>2, GiveUpReads
<1>3. CASE (UploadNext \/ ReleaseTarget) /\ UNCHANGED tier_vars
  BY <1>3, TargetReads
<1>4. ASSUME NEW r \in Slot, giving_up' = giving_up,
             \/ \E p \in Prompts : Admit(r, p)
             \/ AttachDevice(r) \/ HitHost(r) \/ Miss(r)
             \/ RestoreFromHost(r) \/ AbandonRestore(r) \/ Prefill(r)
             \/ MakeBankRoom(r) \/ RetainNow(r) \/ SkipRetain(r) \/ QueueRetain(r)
             \/ PollRetain(r) \/ AbortRetain(r) \/ Insert(r)
             \/ \E t \in Vocabulary : Decode(r, t)
             \/ \E queues \in BOOLEAN : Retire(r, queues)
             \/ EndRequest(r)
      PROVE  ReadsInv'
  <2>1. CASE \E p \in Prompts : Admit(r, p)
    BY <1>4, <2>1, AdmitReads
  <2>2. CASE \/ HitHost(r) \/ Miss(r) \/ AbandonRestore(r) \/ SkipRetain(r) \/ EndRequest(r)
             \/ \E queues \in BOOLEAN : Retire(r, queues)
    BY <1>4, <2>2, PhaseReads
  <2>3. CASE AttachDevice(r) \/ RestoreFromHost(r) \/ Prefill(r)
    <3>1. RestoreFromHost(r) => HostRight(requests[r].hit)
      BY DEF RestoresStale
    <3> QED BY <1>4, <2>3, <3>1, AttachReads, RestoreReads, PrefillReads
  <2>4. CASE MakeBankRoom(r)
    BY <1>4, <2>4, MakeBankRoomDrops, DropReads
  <2>5. CASE RetainNow(r) \/ QueueRetain(r) \/ PollRetain(r) \/ AbortRetain(r)
    BY <1>4, <2>5, RetainReads
  <2>6. CASE Insert(r)
    BY <1>4, <2>6, InsertReads
  <2>7. CASE \E t \in Vocabulary : Decode(r, t)
    BY <1>4, <2>7, DecodeReads
  <2> QED BY <1>4, <2>1, <2>2, <2>3, <2>4, <2>5, <2>6, <2>7
<1>5. ASSUME giving_up' = giving_up,
             \/ MakeRoom \/ EvictOver
             \/ \E id \in PageId : ReusePage(id)
             \/ ObserveCopies \/ RunStream
      PROVE  ReadsInv'
  <2>1. CASE MakeRoom \/ EvictOver
    BY <1>5, <2>1, MakeRoomDrops, EvictOverDrops, DropReads
  <2>2. CASE \E id \in PageId : ReusePage(id)
    BY <1>5, <2>2, ReuseReads
  <2>3. CASE ObserveCopies
    <3>1. requests' = requests /\ TickAny
      BY <2>3 DEF ObserveCopies, tier_vars
    <3>2. PICK errors : Tick(errors)
      BY <3>1 DEF TickAny
    <3>3. UNCHANGED <<device, saved>>
      BY <3>2 DEF Tick, engine_vars
    <3> QED BY <1>5, <3>1, <3>3, UnseenReads
  <2>4. CASE RunStream
    <3>1. UNCHANGED <<device, saved, requests>>
      BY <2>4 DEF RunStream, CopyNext, tier_vars, engine_vars
    <3> QED BY <1>5, <3>1, UnseenReads
  <2> QED BY <1>5, <2>1, <2>2, <2>3, <2>4
<1> QED BY <1>1, <1>2, <1>3, <1>4, <1>5 DEF TierNext

\* The target of a restore that was given up is apart throughout.
LEMMA TargetInvariant == TierSpec => []TargetApart
<1>1. TierInit => TargetApart
  BY DEF TierInit, CacheInit, NoTarget, TargetApart, TargetsAvoided, Avoids
<1>2. TierInv /\ TargetApart /\ [TierNext]_vars => TargetApart'
  BY NextTargets
<1> QED BY <1>1, <1>2, TierInvariant, PTL DEF TierSpec

\* Every request and every retained device snapshot reads its own rows from the first
\* state on, for any number of lanes and rows to a page, until a step brings back from
\* the host a snapshot whose slabs no longer hold what it was stored with: sharing,
\* copying on write, appending in place, retaining, replacing, dropping, reusing, giving
\* a restore up and restoring what is right all keep it so (source_cache.rs:326-372,
\* prefix.rs).
THEOREM ReadsFollowHost ==
    TierSpec => TierReadsRight /\ [][TierReadsRight => TierReadsRight' \/ RestoresStale]_vars
<1>1. TierInit => TierReadsRight
  BY InitReads, InitTierInv, ReadsRight
<1>2. TierInv /\ TargetApart /\ TierReadsRight => ReadsInv
  BY ReadsRight DEF TargetApart
<1>3. TierInv /\ ReadsInv => TierReadsRight
  BY ReadsRight
<1>4. TierInv /\ [TierNext]_vars => [ReadsInv => ReadsInv' \/ RestoresStale]_vars
  BY NextReads
<1> QED BY <1>1, <1>2, <1>3, <1>4, TierInvariant, TargetInvariant, PTL DEF TierSpec

\* Where one slab is all there is, nothing is resident: a snapshot has a page and a
\* part, in slabs of their own.
LEMMA NothingResident ==
    ASSUME TierInv, \A b, c \in Slab : b = c, \A m \in Meta : m.pages # <<>>
    PROVE  Resident(store) = {}
<1> SUFFICES ASSUME NEW k \in Resident(store) PROVE FALSE
  OBVIOUS
<1> DEFINE s == store.snapshots[k]
<1>1. StoreInv(store, plans)
  BY CacheStoreInv DEF TierInv
<1>2. /\ s \in SnapshotRecords /\ s.pages \in Seq(Slab) /\ s.own \subseteq Slab /\ s.own # {}
      /\ s.meta \in Meta /\ k \in Key /\ plans[k] = Absent
  BY ResidentFacts, ResidentParts DEF SnapshotRecords
<1>3. DOMAIN s.pages = DOMAIN s.meta.pages
  BY <1>1 DEF StoreInv, PlansExact
<1>4. 1 \in DOMAIN s.pages /\ s.pages[1] \in Slab
  <2>1. s.meta.pages \in Seq(PageId) /\ s.meta.pages # <<>>
    BY <1>2, MetaFacts
  <2> HIDE DEF s
  <2>2. 1 \in DOMAIN s.meta.pages
    BY ONLY <2>1
  <2> QED BY ONLY <1>2, <1>3, <2>2
<1>5. PICK b \in s.own : TRUE
  BY <1>2
<1>6. s.pages[1] = b
  BY <1>2, <1>4
<1>7. HolderOf(store, plans, k) = s /\ k \in Holding(store, plans)
  BY <1>2 DEF HolderOf, HasPlan, Holding
<1> HIDE DEF s
<1>8. <<k, b>> \in PartsIn(store, plans)
  <2>1. <<k, b>> \in {k} \X HolderOf(store, plans, k).own
    BY <1>7
  <2> QED BY <1>7, <2>1 DEF PartsIn
<1>9. <<k, 1, b>> \in ClaimsIn(store, plans)
  <2>1. <<k, 1, b>> \in ClaimsOf(k, HolderOf(store, plans, k).pages)
    BY <1>4, <1>6, <1>7 DEF ClaimsOf
  <2> QED BY <1>7, <2>1 DEF ClaimsIn
<1>10. Balanced(store.refs, store.free, ClaimsIn(store, plans), PartsIn(store, plans))
  BY <1>1 DEF StoreInv
<1>11. On(ClaimsIn(store, plans), <<k, b>>[2]) = {}
  BY <1>8, <1>10 DEF Balanced
<1>12. <<k, b>>[2] = b /\ <<k, 1, b>>[3] = b
  OBVIOUS
<1>13. <<k, 1, b>> \in On(ClaimsIn(store, plans), b)
  BY <1>9, <1>12 DEF On
<1> QED BY <1>11, <1>12, <1>13

\* With a host cache too small for any snapshot, as in prefix_tier_device, or with none,
\* nothing is assumed: whatever the number of lanes and of rows to a page, every request
\* and every retained snapshot reads its own rows.
THEOREM ReadsWithoutHost ==
    ASSUME \A b, c \in Slab : b = c, \A m \in Meta : m.pages # <<>>
    PROVE  TierSpec => []TierReadsRight
<1>1. TierInv => ~RestoresStale
  BY NothingResident DEF RestoresStale, RestoreFromHost
<1>2. TierInv /\ ReadsInv /\ [TierNext]_vars => ReadsInv'
  BY <1>1, NextReads
<1>3. TierInv /\ ReadsInv => TierReadsRight
  BY ReadsRight
<1> QED BY <1>2, <1>3, InitReads, TierInvariant, PTL DEF TierSpec

-----------------------------------------------------------------------------
(* What the host holds.                                                     *)

\* A request appends in place to a partly filled page that the host has a slab for.
ExtendsKnownTail ==
    \E r \in Slot :
        /\ Prefill(r) \/ \E t \in Vocabulary : Decode(r, t)
        /\ Len(requests[r].tokens) % PAGE_TOKENS # 0 /\ ~CopiesTail(r)
        /\ store.map[Last(requests[r].table)] # NoSlab

\* The cache's own invariant of the bytes.
LEMMA HostBytes ==
    ASSUME TierInv, BytesOK
    PROVE  BytesInv
  BY DEF TierInv, TargetsOK, BytesInv

\* A step that moves nothing that the bytes are in.
LEMMA SameBytes ==
    ASSUME BytesOK,
           UNCHANGED <<store, plans, pending, saved, stream, memory, device, giving_up>>
    PROVE  BytesOK'
  BY DEF BytesOK

\* What the rows of request r are written to.
WrittenTo(r, tokens) == {Appended(r, tokens).table[i] : i \in Written(r, tokens)}

\* A request that goes on writes pages that were fresh and a partly filled one that
\* nobody shares; no retained snapshot has a page of either kind.
LEMMA WrittenApart ==
    ASSUME TierInv, NEW r \in Slot, RequestOK(requests[r], device),
           NEW tokens \in Seq(Vocabulary), Len(requests[r].tokens) <= Len(tokens),
           Len(tokens) <= MAX_TOKENS, PagesSuffice(r, tokens)
    PROVE  LET W == WrittenTo(r, tokens)
               last == Last(requests[r].table)
           IN  /\ W \subseteq PageId
               /\ DOMAIN Appended(r, tokens).device = PageId \cup Arena
               /\ \A y \in (PageId \cup Arena) \ W : Appended(r, tokens).device[y] = device[y]
               /\ \A y \in W :
                      \/ device[y] = Fresh
                      \/ /\ y = last /\ ~CopiesTail(r)
                         /\ Len(requests[r].tokens) % PAGE_TOKENS # 0
               /\ \A d \in Arena : saved[d] # Empty => Avoids(saved[d].meta.pages, W)
<1> DEFINE rq == requests[r]
           old == rq.table
           a == Len(rq.tokens)
           b == Len(tokens)
           table == Appended(r, tokens).table
           written == Written(r, tokens)
           W == WrittenTo(r, tokens)
           F == {y \in PageId : device[y] = Fresh}
<1>1. /\ table \in Seq(PageId) /\ Len(table) = PagesFor(b)
      /\ \A i \in 1..Len(table) : table[i] \in PageId
  <2>1. table \in Seq(PageId) /\ Len(table) = PagesFor(b)
    BY AppendedTable
  <2> HIDE DEF table
  <2> QED BY <2>1, SequenceFacts
<1>2. \A i \in 1..Len(table) :
          \/ i \in written /\ device[table[i]] = Fresh
          \/ i \in written /\ i = Len(old) /\ table[i] = Last(old)
             /\ (a % PAGE_TOKENS) # 0 /\ ~CopiesTail(r)
          \/ i <= (a \div PAGE_TOKENS) /\ i \in 1..Len(old) /\ table[i] = old[i]
  BY WrittenPages
<1>3. /\ a \div PAGE_TOKENS \in Nat
      /\ \A i \in written : i \in 1..Len(table) /\ ~(i <= (a \div PAGE_TOKENS))
  <2>1. a \in Nat /\ b \in Nat
    BY DEF RequestOK, RequestRecords
  <2>2. a \div PAGE_TOKENS \in Nat /\ PagesFor(b) \in Nat
    BY <2>1, TokenParts, PagesOfTokens
  <2>3. written = (a \div PAGE_TOKENS) + 1 .. PagesFor(b)
    BY DEF Written
  <2> HIDE DEF written, table, a, b
  <2> QED BY <1>1, <2>1, <2>2, <2>3
<1>4. Appended(r, tokens).device = [y \in PageId \cup Arena |->
          IF \E i \in written : table[i] = y
          THEN PageBytes([tokens |-> tokens], CHOOSE i \in written : table[i] = y)
          ELSE device[y]]
  BY DEF Appended, Written
<1>5. \A y : y \in W <=> \E i \in written : table[i] = y
  BY DEF WrittenTo
<1> DEFINE dev2 == Appended(r, tokens).device
<1> HIDE DEF table, written, a, W, dev2
<1>6. /\ DOMAIN dev2 = PageId \cup Arena
      /\ \A y \in (PageId \cup Arena) \ W : dev2[y] = device[y]
  BY <1>4, <1>5 DEF dev2
<1>7. \A y \in W :
          /\ y \in PageId
          /\ y \in F \/ (y = Last(old) /\ ~CopiesTail(r) /\ (a % PAGE_TOKENS) # 0)
  <2> TAKE y \in W
  <2>1. PICK i \in written : y = table[i]
    BY <1>5
  <2>2. i \in 1..Len(table) /\ ~(i <= (a \div PAGE_TOKENS)) /\ table[i] \in PageId
    BY <1>1, <1>3
  <2> QED BY <1>2, <2>1, <2>2
<1>8. ASSUME NEW d \in Arena, saved[d] # Empty
      PROVE  Avoids(saved[d].meta.pages, W)
  <2>1. saved[d].meta \in Meta
    BY <1>8 DEF TierInv, SavedOK
  <2>2. saved[d].meta.pages \in Seq(PageId)
    BY <2>1, MetaFacts
  <2>3. ~CopiesTail(r) /\ (a % PAGE_TOKENS) # 0 => Last(old) \notin ToSet(saved[d].meta.pages)
    BY <1>8 DEF CopiesTail, Shared, a
  <2>4. Avoids(saved[d].meta.pages, F)
    <3>1. \A y \in F \cap PageId : device[y] = Fresh
      OBVIOUS
    <3> HIDE DEF F
    <3> QED BY <1>8, <3>1, UnwrittenApart
  <2>5. \A i \in 1..Len(saved[d].meta.pages) :
            saved[d].meta.pages[i] \in ToSet(saved[d].meta.pages)
    BY <2>2, SequenceFacts DEF ToSet
  <2> HIDE DEF F
  <2> QED BY <1>7, <2>3, <2>4, <2>5 DEF Avoids
<1> QED BY <1>6, <1>7, <1>8 DEF W, dev2, a

\* Rows that are computed leave the sources of stores in flight alone, and the pages
\* that host pages stand for unless they are appended to in place.
LEMMA ComputedBytes ==
    ASSUME TierInv, BytesOK, NEW r \in Slot, RequestOK(requests[r], device),
           NEW tokens \in Seq(Vocabulary), Len(requests[r].tokens) <= Len(tokens),
           Len(tokens) <= MAX_TOKENS, PagesSuffice(r, tokens),
           \/ Len(requests[r].tokens) % PAGE_TOKENS = 0
           \/ CopiesTail(r)
           \/ store.map[Last(requests[r].table)] = NoSlab,
           device' = Appended(r, tokens).device,
           UNCHANGED <<store, plans, pending, saved, stream, memory, giving_up>>
    PROVE  BytesOK'
<1> DEFINE all == ToSet(pending)
           tgt == giving_up.target
           W == WrittenTo(r, tokens)
           last == Last(requests[r].table)
<1>1. /\ W \subseteq PageId /\ DOMAIN device' = PageId \cup Arena
      /\ \A y \in (PageId \cup Arena) \ W : device'[y] = device[y]
      /\ \A y \in W : device[y] = Fresh \/ store.map[y] = NoSlab
      /\ \A d \in Arena : saved[d] # Empty => Avoids(saved[d].meta.pages, W)
  BY WrittenApart
<1>2. /\ Planning(store, plans, all) /\ stream \in Seq(CopyRecords)
      /\ BytesRight(store, plans, all, saved, stream, memory, device, tgt)
  BY HostBytes, CurrentPlanning DEF BytesInv, BytesOK
<1> HIDE DEF W, last
<1> DEFINE dev2 == device'
<1>3. ASSUME NEW id \in PageId, store.map[id] # NoSlab
      PROVE  id \notin tgt /\ dev2[id] \in {device[id], Junk}
  <2>1. id \notin tgt /\ device[id] # Fresh
    BY <1>2, <1>3 DEF BytesRight, MapRight
  <2> QED BY <1>1, <1>3, <2>1
<1>4. ASSUME NEW x \in all, NEW d \in Arena, x.kind # "failed",
             SourceRight(x, d, saved, device, tgt)
      PROVE  SourceKept(x, d, saved, device, dev2, tgt)
  <2>1. /\ saved[d].ticket = x.ticket /\ saved[d].meta = x.payload
        /\ \A e \in Arena : saved[e].ticket = x.ticket => e = d
        /\ d \notin tgt
        /\ \A i \in DOMAIN x.payload.pages : x.payload.pages[i] \notin tgt
    BY <1>4 DEF SourceRight
  <2>2. saved[d] # Empty
    <3>1. x.ticket \in Ticket
      BY <1>2 DEF Planning, EntryRecords
    <3> QED BY <2>1, <3>1, StoreShape DEF Empty, NoTicket, Ticket, Key
  <2>3. saved[d].meta \in Meta
    BY <2>2 DEF TierInv, SavedOK
  <2>4. x.payload.pages \in Seq(PageId)
    BY <2>1, <2>3, MetaFacts
  <2>5. /\ DOMAIN x.payload.pages = 1..Len(x.payload.pages)
        /\ \A i \in 1..Len(x.payload.pages) : x.payload.pages[i] \in PageId
    BY <2>4, SequenceFacts
  <2>6. \A i \in DOMAIN x.payload.pages : dev2[x.payload.pages[i]] = device[x.payload.pages[i]]
    BY <1>1, <2>1, <2>2, <2>5 DEF Avoids
  <2>7. dev2[d] = device[d]
    BY <1>1, CacheShape
  <2> QED BY <2>1, <2>6, <2>7 DEF SourceKept
<1> HIDE DEF all, tgt, dev2
<1>5. BytesRight(store, plans, all, saved, stream, memory, dev2, tgt)
  BY <1>2, <1>3, <1>4, BytesDevice
<1> QED BY <1>1, <1>2, <1>5 DEF BytesOK, dev2, all, tgt

\* The pages of a request are those a snapshot of it may be taken from.
LEMMA ReadyToRetain ==
    ASSUME TierInv, ReadsInv, NEW r \in Slot, requests[r].phase \in {"room", "queued"}
    PROVE  MetaOf(r) \in Meta /\ PagesReady(MetaOf(r))
<1> DEFINE m == MetaOf(r)
<1>1. r \in Active /\ RequestOK(requests[r], device) /\ requests[r].tokens # <<>>
  <2>1. r \in Active /\ RequestOK(requests[r], device)
    BY ActiveFacts
  <2> QED BY <2>1 DEF RequestOK, PhaseOK
<1>2. m \in Meta
  BY <1>1, MetaOfFacts
<1>3. m.pages = requests[r].table /\ m.tokens = requests[r].tokens
  BY DEF MetaOf
<1> HIDE DEF m
<1>4. DOMAIN m.pages = 1..Len(m.pages)
  <2>1. m.pages \in Seq(PageId)
    BY <1>2, MetaFacts
  <2> QED BY <2>1, SequenceFacts
<1>5. PagesReady(m)
  <2> SUFFICES ASSUME NEW i \in 1..Len(m.pages)
               PROVE  Allocated(m.pages[i]) /\ IsPrefix(PageBytes(m, i), device[m.pages[i]])
    BY <1>4 DEF PagesReady
  <2>1. Holds(device[m.pages[i]], PageBytes([tokens |-> m.tokens], i))
    BY <1>1, <1>3 DEF ReadsInv, RequestReads, ReadsBy
  <2>2. PageBytes([tokens |-> m.tokens], i) = PageBytes(m, i)
    BY RowsOfTokens
  <2> QED BY <2>1, <2>2 DEF Holds, Allocated
<1> QED BY <1>2, <1>5 DEF m

\* A free buffer is written, or given back, while nothing else changes.
LEMMA BufferBytes ==
    ASSUME TierInv, BytesOK, NEW d \in Arena, saved[d] = Empty, NEW bytes,
           device' = [device EXCEPT ![d] = bytes],
           UNCHANGED <<store, plans, pending, saved, stream, memory, giving_up>>
    PROVE  BytesOK'
<1> DEFINE all == ToSet(pending)
           tgt == giving_up.target
           dev2 == device'
<1>1. /\ Planning(store, plans, all) /\ stream \in Seq(CopyRecords)
      /\ BytesRight(store, plans, all, saved, stream, memory, device, tgt)
      /\ all \subseteq EntryRecords
  BY HostBytes, CurrentPlanning DEF BytesInv, BytesOK, Planning
<1>2. DOMAIN dev2 = PageId \cup Arena /\ \A y \in (PageId \cup Arena) \ {d} : dev2[y] = device[y]
  BY DEF TierInv
<1>3. \A x \in all : saved[d].ticket # x.ticket
  <2>1. \A x \in all : x.ticket \in Ticket
    BY <1>1 DEF EntryRecords
  <2> QED BY <2>1, StoreShape DEF Empty, NoTicket, Ticket, Key
<1>4. EngineStep(all, saved, device, tgt, {d}, saved, dev2, tgt)
  BY <1>2, <1>3 DEF EngineStep
<1> HIDE DEF all, tgt, dev2
<1>5. BytesRight(store, plans, all, saved, stream, memory, dev2, tgt)
  BY <1>1, <1>4, EngineBytes
<1> QED BY <1>1, <1>2, <1>5 DEF BytesOK, dev2, all, tgt

\* The four ways in which a request goes on to retain its rows, or gives it up.
LEMMA RetainsBytes ==
    ASSUME TierInv, ReadsInv, BytesOK, NEW r \in Slot, giving_up' = giving_up,
           RetainNow(r) \/ PollRetain(r) \/ QueueRetain(r) \/ AbortRetain(r)
    PROVE  BytesOK'
<1> DEFINE rq == requests[r]
<1>1. /\ rq.phase \in {"room", "queued"} /\ giving_up.target = {} /\ BytesInv
      /\ rq.phase = "queued" => r \in QueuedSlots
  <2>1. Calls(r) \/ Idle
    BY DEF RetainNow, QueueRetain, PollRetain, AbortRetain
  <2>2. giving_up.target = {}
    BY <2>1, CallFacts, IdleFacts
  <2> QED BY <2>2, HostBytes
          DEF RetainNow, QueueRetain, PollRetain, AbortRetain, HasBankRoom, QueuedSlots
<1>2. MetaOf(r) \in Meta /\ PagesReady(MetaOf(r))
  BY <1>1, ReadyToRetain
<1> DEFINE m == MetaOf(r)
<1> HIDE DEF m
<1>3. \A d \in Arena : Store(d, m) => BytesOK'
  BY <1>1, <1>2, StoreDeferredBytes, StoreIssuedBytes DEF Store, m
<1>4. CASE RetainNow(r)
  BY <1>3, <1>4 DEF RetainNow, m
<1>5. CASE PollRetain(r)
  <2>1. r \in QueuedSlots /\ Store(rq.buffer, m)
    BY <1>1, <1>5 DEF PollRetain, m
  <2>2. rq.buffer \in Arena
    BY <2>1, BufferFacts
  <2> QED BY <1>3, <2>1, <2>2
<1>6. CASE QueueRetain(r)
  <2>1. PICK d \in Arena : Takeable(d) /\ device' = [device EXCEPT ![d] = OwnBytes(MetaOf(r))]
    BY <1>6 DEF QueueRetain
  <2>2. UNCHANGED <<store, plans, pending, saved, stream, memory>>
    BY <1>6 DEF QueueRetain, cache_vars
  <2>3. saved[d] = Empty
    BY <2>1, TakeableFacts
  <2> QED BY <2>1, <2>2, <2>3, BufferBytes
<1>7. CASE AbortRetain(r)
  <2>1. /\ device' = [device EXCEPT ![rq.buffer] = Junk] /\ r \in QueuedSlots
        /\ UNCHANGED <<store, plans, pending, saved, stream, memory>>
    BY <1>1, <1>7 DEF AbortRetain, cache_vars
  <2>2. rq.buffer \in Arena /\ saved[rq.buffer] = Empty
    BY <2>1, BufferFacts DEF TierInv, BuffersOK
  <2> QED BY <2>1, <2>2, BufferBytes
<1> QED BY <1>4, <1>5, <1>6, <1>7

\* A retained snapshot that leaves its bank through the host cache.
LEMMA DropsBytes ==
    ASSUME TierInv, BytesOK, Dropping, giving_up.target = {}, giving_up' = giving_up
    PROVE  BytesOK'
<1>1. PICK k \in Kind : \E d \in ToSet(banks[k]) : DropThroughHost(d)
  BY DEF Dropping
<1>2. PICK d \in ToSet(banks[k]) : Evict(d)
  BY <1>1 DEF DropThroughHost
<1>3. d \in Arena /\ BytesInv
  BY ListedFacts, HostBytes
<1> QED BY <1>2, <1>3, EvictCleanBytes, EvictIssuedBytes, EvictDeferredBytes, EvictFailedBytes
        DEF Evict

\* An insertion that replaces no snapshot whose store is in flight takes no bytes away.
LEMMA InsertBytes ==
    ASSUME TierInv, BytesOK, NEW r \in Slot, Insert(r), DropsSettled, giving_up' = giving_up
    PROVE  BytesOK'
<1> DEFINE rq == requests[r]
           same == SameKey(rq.kind, rq.tokens)
<1>1. /\ rq.phase = "insert"
      /\ saved' = [e \in Arena |-> IF e \in same THEN Empty ELSE saved[e]]
      /\ device' = [y \in DOMAIN device |-> IF y \in same THEN Junk ELSE device[y]]
      /\ UNCHANGED <<store, plans, pending, stream, memory>>
  BY DEF Insert, cache_vars
<1>2. same \subseteq Arena /\ \A d \in same : saved[d] # Empty
  <2>1. rq.kind \in Kind
    BY <1>1, ActiveFacts DEF RequestRecords
  <2> HIDE DEF rq
  <2> QED BY <2>1, ListedFacts DEF SameKey
<1> HIDE DEF same
<1> DEFINE all == ToSet(pending)
           tgt == giving_up.target
           dev2 == device'
           sav2 == saved'
<1>3. /\ Planning(store, plans, all) /\ stream \in Seq(CopyRecords)
      /\ BytesRight(store, plans, all, saved, stream, memory, device, tgt)
      /\ all \subseteq EntryRecords
  BY HostBytes, CurrentPlanning DEF BytesInv, BytesOK, Planning
<1>4. /\ DOMAIN dev2 = PageId \cup Arena
      /\ \A y \in (PageId \cup Arena) \ same : dev2[y] = device[y]
      /\ \A e \in Arena \ same : sav2[e] = saved[e]
      /\ \A d \in same : sav2[d] = Empty
  BY <1>1, <1>2 DEF TierInv
<1>5. ASSUME NEW d \in same, NEW x \in all
      PROVE  sav2[d].ticket # x.ticket /\ saved[d].ticket # x.ticket
  <2>1. x.ticket \in Ticket
    BY <1>3 DEF EntryRecords
  <2>2. Empty.ticket # x.ticket
    BY <2>1, StoreShape DEF Empty, NoTicket, Ticket, Key
  <2>3. \A i \in DOMAIN pending : pending[i].ticket # saved[d].ticket
    BY <1>1, <1>2, <1>4 DEF DropsSettled
  <2>4. \E i \in DOMAIN pending : pending[i] = x
    BY DEF ToSet
  <2> QED BY <1>4, <2>2, <2>3, <2>4
<1>6. EngineStep(all, saved, device, tgt, same, sav2, dev2, tgt)
  BY <1>2, <1>4, <1>5 DEF EngineStep
<1> HIDE DEF all, tgt, dev2, sav2
<1>7. BytesRight(store, plans, all, sav2, stream, memory, dev2, tgt)
  BY <1>3, <1>6, EngineBytes
<1> QED BY <1>1, <1>3, <1>4, <1>7 DEF BytesOK, dev2, sav2, all, tgt

\* A snapshot that comes back from the host, or fails to.
LEMMA RestoresBytes ==
    ASSUME TierInv, BytesOK, NEW r \in Slot,
           \/ RestoreFromHost(r) /\ giving_up' = giving_up
           \/ GiveUpRestore(r)
    PROVE  BytesOK'
<1> DEFINE k == requests[r].hit
           s == store.snapshots[k]
           ids == SubSeq(Unused, 1, Len(s.pages))
           m == [s.meta EXCEPT !.pages = ids]
<1>1. Calls(r) /\ k \in Resident(store)
  BY DEF RestoreFromHost, GiveUpRestore
<1>2. BytesInv /\ giving_up = NoTarget /\ giving_up.target = {}
  BY <1>1, CallFacts, HostBytes
<1>3. PICK d \in Arena :
          \/ Restore(k, d, ids) /\ giving_up' = giving_up
          \/ RestoreTimesOut(k, d, ids)
  BY DEF RestoreFromHost, GiveUpRestore
<1>4. m \in Meta
  BY <1>3 DEF Restore, RestoreTimesOut, RestoresTo
<1>5. m.pages = ids
  <2>1. s.meta \in Meta
    BY <1>1, ResidentFacts DEF SnapshotRecords
  <2>2. s.meta = [kind |-> s.meta.kind, tokens |-> s.meta.tokens, pages |-> s.meta.pages,
                  parts |-> s.meta.parts]
    BY <2>1, MetaShape
  <2> HIDE DEF ids, s
  <2> QED BY ONLY <2>2
<1> HIDE DEF k, s, ids, m
<1> QED BY <1>1, <1>2, <1>3, <1>4, <1>5, RestoreBytes, RestoreTimesOutBytes

\* A request computes its prompt, or one more row, and extends no tail the host knows.
LEMMA ComputesBytes ==
    ASSUME TierInv, BytesOK, ~ExtendsKnownTail, NEW r \in Slot, giving_up' = giving_up,
           Prefill(r) \/ \E t \in Vocabulary : Decode(r, t)
    PROVE  BytesOK'
<1> DEFINE rq == requests[r]
<1>1. r \in Active /\ rq.phase \in {"prefill", "decode"} /\ RequestOK(rq, device)
      /\ rq \in RequestRecords /\ PhaseOK(rq)
  <2>1. rq.phase \in {"prefill", "decode"}
    BY DEF Prefill, Decode
  <2> QED BY <2>1, ActiveFacts DEF RequestOK
<1>2. \/ Len(rq.tokens) % PAGE_TOKENS = 0
      \/ CopiesTail(r)
      \/ store.map[Last(rq.table)] = NoSlab
  BY DEF ExtendsKnownTail
<1>3. \E tokens \in Seq(Vocabulary) :
          /\ Len(rq.tokens) <= Len(tokens) /\ Len(tokens) <= MAX_TOKENS
          /\ PagesSuffice(r, tokens) /\ device' = Appended(r, tokens).device
  <2>1. CASE Prefill(r)
    <3>1. rq.phase = "prefill" /\ PagesSuffice(r, rq.prompt)
          /\ device' = Appended(r, rq.prompt).device
      BY <2>1 DEF Prefill
    <3>2. rq.prompt \in Seq(Vocabulary) /\ Len(rq.prompt) \in 1..MAX_TOKENS
      BY <1>1, PromptFacts DEF RequestRecords
    <3>3. Len(rq.tokens) <= Len(rq.prompt) /\ Len(rq.prompt) <= MAX_TOKENS
      BY <1>1, <3>1, <3>2, TierShape DEF PhaseOK
    <3> QED BY <3>1, <3>2, <3>3
  <2>2. CASE \E t \in Vocabulary : Decode(r, t)
    <3>1. PICK t \in Vocabulary : Decode(r, t)
      BY <2>2
    <3> DEFINE tokens == Append(rq.tokens, t)
    <3>2. /\ Len(rq.tokens) < MAX_TOKENS /\ PagesSuffice(r, tokens)
          /\ device' = Appended(r, tokens).device
      BY <3>1 DEF Decode
    <3>3. rq.tokens \in Seq(Vocabulary) /\ Len(rq.tokens) \in Nat
      BY <1>1 DEF RequestRecords
    <3>4. tokens \in Seq(Vocabulary) /\ Len(tokens) = Len(rq.tokens) + 1
      BY <3>3
    <3> HIDE DEF tokens
    <3>5. Len(rq.tokens) <= Len(tokens) /\ Len(tokens) <= MAX_TOKENS
      BY <3>2, <3>3, <3>4, TierShape
    <3> QED BY <3>2, <3>4, <3>5
  <2> QED BY <2>1, <2>2
<1>4. UNCHANGED <<store, plans, pending, saved, stream, memory, giving_up>>
  BY DEF Prefill, Decode, cache_vars
<1> QED BY <1>1, <1>2, <1>3, <1>4, ComputedBytes

\* The steps of the calls that leave the bytes alone.
LEMMA QuietBytes ==
    ASSUME TierInv, BytesOK, NEW r \in Slot, giving_up' = giving_up,
           \/ \E p \in Prompts : Admit(r, p)
           \/ AttachDevice(r) \/ HitHost(r) \/ Miss(r) \/ AbandonRestore(r)
           \/ SkipRetain(r) \/ EndRequest(r)
           \/ \E queues \in BOOLEAN : Retire(r, queues)
    PROVE  BytesOK'
<1>1. CASE HitHost(r)
  <2>1. PICK e \in Best(requests[r].prompt, HostEntries) : LookupOnly(e.at)
    BY <1>1 DEF HitHost
  <2>2. e.at \in Resident(store)
    BY DEF Best, HostEntries
  <2> QED BY <2>1, <2>2, HostBytes, LookupBytes
<1>2. CASE ~HitHost(r)
  <2>1. UNCHANGED all_vars
    BY <1>2 DEF Admit, AttachDevice, Miss, AbandonRestore, SkipRetain, EndRequest, Retire
  <2> QED BY <2>1, SameBytes DEF all_vars, cache_vars, engine_vars
<1> QED BY <1>1, <1>2

\* Every step of the two tiers but these keeps the bytes of the host.
LEMMA NextBytes ==
    ASSUME TierInv, TargetApart, ReadsInv, BytesOK, [TierNext]_vars,
           ~ExtendsKnownTail, DropsSettled
    PROVE  BytesOK'
<1>1. BytesInv
  BY HostBytes
<1>2. CASE UNCHANGED vars
  BY <1>1, <1>2, SameBytes DEF vars, all_vars, cache_vars, engine_vars
<1>3. CASE \E r \in Slot : GiveUpRestore(r)
  BY <1>1, <1>3, RestoresBytes
<1>4. CASE (UploadNext \/ ReleaseTarget) /\ UNCHANGED tier_vars
  BY <1>1, <1>4, UploadNextBytes, ReleaseTargetBytes
<1>5. ASSUME NEW r \in Slot, giving_up' = giving_up,
             \/ \E p \in Prompts : Admit(r, p)
             \/ AttachDevice(r) \/ HitHost(r) \/ Miss(r)
             \/ RestoreFromHost(r) \/ AbandonRestore(r) \/ Prefill(r)
             \/ MakeBankRoom(r) \/ RetainNow(r) \/ SkipRetain(r) \/ QueueRetain(r)
             \/ PollRetain(r) \/ AbortRetain(r) \/ Insert(r)
             \/ \E t \in Vocabulary : Decode(r, t)
             \/ \E queues \in BOOLEAN : Retire(r, queues)
             \/ EndRequest(r)
      PROVE  BytesOK'
  <2>1. CASE \/ \E p \in Prompts : Admit(r, p)
             \/ AttachDevice(r) \/ HitHost(r) \/ Miss(r) \/ AbandonRestore(r)
             \/ SkipRetain(r) \/ EndRequest(r)
             \/ \E queues \in BOOLEAN : Retire(r, queues)
    BY <1>1, <1>5, <2>1, QuietBytes
  <2>2. CASE RestoreFromHost(r)
    BY <1>1, <1>5, <2>2, RestoresBytes
  <2>3. CASE Prefill(r) \/ \E t \in Vocabulary : Decode(r, t)
    BY <1>1, <1>5, <2>3, ComputesBytes
  <2>4. CASE RetainNow(r) \/ PollRetain(r) \/ QueueRetain(r) \/ AbortRetain(r)
    BY <1>1, <1>5, <2>4, RetainsBytes
  <2>5. CASE MakeBankRoom(r)
    <3>1. giving_up.target = {}
      BY <2>5, CallFacts DEF MakeBankRoom
    <3> QED BY <1>1, <1>5, <2>5, <3>1, MakeBankRoomDrops, DropsBytes
  <2>6. CASE Insert(r)
    BY <1>1, <1>5, <2>6, InsertBytes
  <2> QED BY <1>5, <2>1, <2>2, <2>3, <2>4, <2>5, <2>6
<1>6. ASSUME giving_up' = giving_up, MakeRoom \/ EvictOver
      PROVE  BytesOK'
  <2>1. giving_up.target = {} /\ Dropping
    BY <1>1, <1>6, DropsUntargeted, MakeRoomDrops, EvictOverDrops
  <2> QED BY <1>1, <1>6, <2>1, DropsBytes
<1>7. ASSUME giving_up' = giving_up,
             \/ \E id \in PageId : ReusePage(id)
             \/ ObserveCopies \/ RunStream
      PROVE  BytesOK'
  BY <1>1, <1>7, FreePageBytes, TickAnyBytes, CopyNextBytes
     DEF ReusePage, ObserveCopies, RunStream
<1> QED BY <1>2, <1>3, <1>4, <1>5, <1>6, <1>7 DEF TierNext

\* What requests, snapshots and the host hold is right from the first state on, for any
\* number of lanes and rows to a page, until one of two kinds of steps: a request
\* appends in place to a partly filled page that the host has a slab for, which keeps
\* the page's generation, so that later stores share the stale slab (finding 1,
\* prefix_tier_tail); or a lane inserts what it queued over the other lane's snapshot of
\* the same tokens while that is being stored, and its buffer is reused under the copy
\* (finding 2, prefix_tier_lanes).  Every other step of the scheduler, the device banks,
\* the host cache and the streams leaves every reader's rows right and the bytes of
\* every slab in use those of its snapshot, now or once the queued copies have executed,
\* and in such a state the resident host snapshots hold what they were stored with
\* (snapshot.rs:3-5, cache.rs, prefix.rs, source_cache.rs:326-372).
THEOREM TiersHoldRight ==
    TierSpec =>
        /\ TierReadsRight /\ BytesOK
        /\ [](BytesOK => ResidentBytesRight)
        /\ [][TierReadsRight /\ BytesOK =>
                 \/ TierReadsRight' /\ BytesOK'
                 \/ ExtendsKnownTail \/ ReplacesInFlight]_vars
<1>1. TierInit => TierReadsRight /\ BytesOK
  BY InitReads, InitTierInv, ReadsRight, InitBytesInv DEF TierInit, BytesInv
<1>2. TierInv /\ BytesOK => ResidentBytesRight
  BY HostBytes, BytesResident
<1>3. TierInv => (ReadsInv => TierReadsRight)
  BY ReadsRight
<1>4. TierInv /\ TargetApart /\ [TierNext]_vars /\ [DropsSettled \/ ReplacesInFlight]_vars =>
          [TierReadsRight /\ BytesOK =>
              \/ ReadsInv' /\ BytesOK'
              \/ ExtendsKnownTail \/ ReplacesInFlight]_vars
  <2> SUFFICES ASSUME TierInv, TargetApart, [TierNext]_vars, DropsSettled,
                      TierReadsRight, BytesOK, ~ExtendsKnownTail
               PROVE  ReadsInv' /\ BytesOK'
    OBVIOUS
  <2>1. ReadsInv /\ ResidentBytesRight
    BY <1>2, ReadsRight DEF TargetApart
  <2>2. ~RestoresStale
    BY <2>1 DEF RestoresStale, RestoreFromHost, ResidentBytesRight, HostRight
  <2> QED BY <2>1, <2>2, NextReads, NextBytes
<1> QED BY <1>1, <1>2, <1>3, <1>4, TierInvariant, TargetInvariant, DropsThroughHost, PTL
        DEF TierSpec

===============================================================================
