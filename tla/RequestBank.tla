---------------------------- MODULE RequestBank ----------------------------
(* The request bank: v41_backbone_cache.rs with ced.rs, publication.rs and     *)
(* prefix.rs, under v41_requests.rs, which adds the token history.             *)
(*                                                                             *)
(* A request leases one slot in every cache: the windows of the encoder        *)
(* layers, the windows of the decoder layers and the compressed sources.  Each *)
(* cache counts its own rows and versions; the bank counts the request's.  A   *)
(* batch of rows is planned, produced cache by cache by the waves of a lane,   *)
(* queued for writing, and committed.  Chunks of a long prompt overlap: while  *)
(* a chunk is outstanding the next is reserved behind it, and their rows are   *)
(* published to a cache at a time before the request's frontier moves.         *)
(*                                                                             *)
(* The daemon's calls run one at a time on its thread.  What interleaves is    *)
(* the lanes' progress, queued writes that have not finished, failures, and    *)
(* the scheduler that releases and admits.                                     *)
EXTENDS Naturals, Sequences, FiniteSets, FiniteSetsExt

CONSTANTS
    Slot,        \* request slots
    Lane,        \* producer sets, one batch at a time each
    Kinds,       \* the caches in layer order: "encoder", "source" or "decoder"
    None,
    MAX_TOKENS,  \* the model's context, 1048576 in the code
    REPLAY,      \* rows of the window a replay restores, 128 in the code
    GROUP,       \* rows of a compressed group, 2 in the code
    CAPACITY,    \* outstanding chunks per request, 16 in the code
    Chunks,      \* bound: the sizes of the chunks planned in each stage
    MaxLeases,   \* bound: admissions
    Rows         \* bound: the rows of a request in each slot

Stage == {"Full", "Encoder", "EncoderReplay", "Replay"}

\* (The model has forty windows and four sources: the bank is never without a
\* cache that an encoder prefill writes.)
ASSUME BankConstants ==
    /\ IsFiniteSet(Slot) /\ IsFiniteSet(Lane)
    /\ \E i \in DOMAIN Kinds : Kinds[i] = "encoder"
    /\ MAX_TOKENS \in Nat \ {0} /\ REPLAY \in Nat \ {0} /\ GROUP \in Nat \ {0}
    /\ CAPACITY \in Nat \ {0} /\ MaxLeases \in Nat
    /\ Chunks \in [Stage -> SUBSET (1..MAX_TOKENS)] /\ Rows \in [Slot -> 0..MAX_TOKENS]
    /\ Kinds \in Seq({"encoder", "source", "decoder"})

Cache == DOMAIN Kinds
OfKind(kinds) == {c \in Cache : Kinds[c] \in kinds}

Token == 0..MAX_TOKENS
Lease == Nat                                \* 0: not leased
BatchId == 1..(Cardinality(Lane) + CAPACITY * Cardinality(Slot))

VARIABLES
    generations,  \* the last lease of each slot
    requests,     \* what the bank knows of each slot's request
    histories,    \* what Requests knows of it: the rows hashed so far
    caches,       \* per cache and slot: lease, rows, version, queued write
    batches,      \* the batch each lane works on
    waves,        \* per lane and cache: the rows produced for the batch
    copies        \* the snapshot copy each lane has queued

bank_vars == <<generations, requests, histories, caches, batches, waves, copies>>

-----------------------------------------------------------------------------
(* Phases (ced.rs).                                                            *)

Full == [stage |-> "Full", prefix |-> 0, target |-> 0, end |-> 0]
Encoder(target) == [stage |-> "Encoder", prefix |-> 0, target |-> target, end |-> 0]
EncoderReplay(prefix, target, end) ==
    [stage |-> "EncoderReplay", prefix |-> prefix, target |-> target, end |-> end]
Replay(target, end) == [stage |-> "Replay", prefix |-> 0, target |-> target, end |-> end]

\* The caches a stage writes.
Writes(stage) ==
    CASE stage = "Full" -> Cache
      [] stage = "Encoder" -> OfKind({"encoder", "source"})
      [] stage = "EncoderReplay" -> OfKind({"encoder"})
      [] stage = "Replay" -> OfKind({"decoder"})

\* Where the next rows of a request go, and how far its history has come.
Position(r) == IF r.phase.stage \in {"Replay", "EncoderReplay"} THEN r.phase.end ELSE r.end
HistoryEnd(r) == IF r.phase.stage = "EncoderReplay" THEN r.phase.end ELSE r.end

\* The rows a cache holds when nothing is published ahead of the request.
PhaseEnd(r, c) ==
    CASE Kinds[c] = "source" -> r.end
      [] Kinds[c] = "encoder" -> HistoryEnd(r)
      [] Kinds[c] = "decoder" ->
            CASE r.phase.stage = "Full" -> r.end
              [] r.phase.stage = "Replay" -> r.phase.end
              [] OTHER -> 0

\* The last row a phase may reach.
Extent(phase) ==
    CASE phase.stage = "Full" -> MAX_TOKENS
      [] phase.stage = "EncoderReplay" -> phase.prefix
      [] OTHER -> phase.target

\* The request after its rows have been committed up to next.
Advanced(r, next) ==
    CASE r.phase.stage = "EncoderReplay" ->
            [r EXCEPT !.phase = IF next = r.phase.prefix THEN Encoder(r.phase.target)
                                ELSE EncoderReplay(r.phase.prefix, r.phase.target, next)]
      [] r.phase.stage = "Replay" ->
            [r EXCEPT !.phase = IF next = r.phase.target THEN Full
                                ELSE Replay(r.phase.target, next)]
      [] OTHER -> [r EXCEPT !.end = next]

-----------------------------------------------------------------------------
(* What the bank keeps of each. *)

PhaseType ==
    {Full} \cup [stage : {"Encoder"}, prefix : {0}, target : Token \ {0}, end : {0}]
           \cup [stage : {"EncoderReplay"}, prefix : Token, target : Token, end : Token]
           \cup [stage : {"Replay"}, prefix : {0}, target : Token, end : Token]
EntryType ==
    [batch : BatchId, start : Token, end : Token, reserved : BOOLEAN,
     bits : SUBSET Writes("Encoder")]
RequestType ==
    [version : Nat, end : Token, phase : PhaseType, publication : Seq(EntryType)]
HistoryType == [lease : Lease, at : Token, prepared : Token \cup {None}]
CacheType == [lease : Lease, end : Token, version : Nat, writing : BOOLEAN]
PartType == [lease : Lease, version : Nat, position : Token, tokens : Token \ {0}]
CopyType == [slot : Slot, lease : Lease, end : Token]
\* A batch or a wave for the slots S.
BatchType(S) == [id : BatchId, stage : Stage, reserved : BOOLEAN, of : [S -> PartType]]
WaveType(S) == [accepted : [S -> Token] \cup {None}, of : [S -> PartType]]

\* None is none of them.
ASSUME BankNone ==
    /\ None \notin Token /\ None \notin RequestType /\ None \notin HistoryType
    /\ None \notin CopyType
    /\ \A S \in SUBSET Slot :
        None \notin BatchType(S) /\ None \notin WaveType(S) /\ None \notin [S -> Token]

-----------------------------------------------------------------------------
(* Requests and their caches.                                                  *)

Bare == [lease |-> 0, end |-> 0, version |-> 0, writing |-> FALSE]
Begun(n, end, version) == [lease |-> n, end |-> end, version |-> version, writing |-> FALSE]
NewRequest == [version |-> 0, end |-> 0, phase |-> Full, publication |-> <<>>]

\* request_identity: the lease names the request the slot holds.
Live(s, n) == requests[s] # None /\ generations[s] = n

\* request: a queued snapshot copy keeps everybody else away.
Usable(s, n) ==
    /\ Live(s, n)
    /\ \A l \in Lane : copies[l] # None => ~(copies[l].slot = s /\ copies[l].lease = n)

\* The rows a cache must hold: those of the last chunk published to it.
Expected(r, c) ==
    LET to == {i \in DOMAIN r.publication : c \in r.publication[i].bits}
    IN  IF to = {} THEN PhaseEnd(r, c) ELSE r.publication[Max(to)].end

\* committed_end succeeds: every cache is leased and where the bank thinks it is.
Committed(s, n) ==
    /\ Usable(s, n)
    /\ \A c \in Cache : /\ caches[c][s].lease = n
                        /\ caches[c][s].end = Expected(requests[s], c)

\* Where the next reserved chunk starts.
PreparedEnd(r) ==
    IF r.publication = <<>> THEN r.end ELSE r.publication[Len(r.publication)].end

Entry(id, p, reserved) ==
    [batch |-> id, start |-> p.position, end |-> p.position + p.tokens,
     reserved |-> reserved, bits |-> {}]

Holds(l, s) == batches[l] # None /\ s \in DOMAIN batches[l].of /\ batches[l].of[s].lease = generations[s]

UsedIds ==
    {batches[l].id : l \in {k \in Lane : batches[k] # None}} \cup
    UNION {{requests[s].publication[i].batch : i \in DOMAIN requests[s].publication} :
              s \in {t \in Slot : requests[t] # None}}
FreshId == Min(BatchId \ UsedIds)

-----------------------------------------------------------------------------
(* Batches.                                                                    *)

\* validate_batch and Requests::validate: the batch still fits its requests.
Valid(b) ==
    \A s \in DOMAIN b.of :
        LET p == b.of[s]
            r == requests[s]
        IN  /\ Committed(s, p.lease)
            /\ r.phase.stage = b.stage
            /\ IF b.reserved
               THEN \E i \in DOMAIN r.publication :
                       /\ r.publication[i].reserved
                       /\ r.publication[i].batch = b.id
                       /\ r.publication[i].start = p.position
                       /\ r.publication[i].end = p.position + p.tokens
               ELSE /\ r.publication # <<>> =>
                          ~r.publication[1].reserved /\ r.publication[1].batch = b.id
                    /\ r.version = p.version
                    /\ Position(r) = p.position
            /\ histories[s] # None
            /\ histories[s].lease = p.lease
            /\ histories[s].at = HistoryEnd(r)

\* publication_masks: what has been published of a batch; all participants agree.
BitsFor(b, s) ==
    UNION {requests[s].publication[i].bits :
              i \in {j \in DOMAIN requests[s].publication :
                        requests[s].publication[j].batch = b.id}}
Published(b) == UNION {BitsFor(b, s) : s \in DOMAIN b.of}
\* The caches that the batch has yet to write.
Todo(b) == Writes(b.stage) \ Published(b)
Agreed(b) == \A s \in DOMAIN b.of : BitsFor(b, s) = Published(b)

Part(s, position, tokens) ==
    [lease |-> generations[s], version |-> requests[s].version,
     position |-> position, tokens |-> tokens]

\* One lane works on a request, or several on reserved chunks of it.
Unshared(l, w) == \A s \in DOMAIN w, k \in Lane \ {l} : ~Holds(k, s)
OnlyChunks(w) == \A s \in DOMAIN w, k \in Lane : Holds(k, s) => batches[k].reserved

\* plan, plan_replay (with Requests::prepare and prepare_replay).
Prepare(l, w) ==
    /\ batches[l] = None /\ Unshared(l, w)
    /\ \A s \in DOMAIN w : requests[s] # None
    /\ \E stage \in {requests[s].phase.stage : s \in DOMAIN w} :
        /\ \A s \in DOMAIN w :
            /\ Committed(s, generations[s])
            /\ requests[s].phase.stage = stage
            /\ requests[s].publication = <<>>
            /\ Position(requests[s]) + w[s] <= Extent(requests[s].phase)
            /\ histories[s] # None
            /\ histories[s].lease = generations[s]
            /\ stage # "Replay" => histories[s].prepared = None
            /\ histories[s].at = HistoryEnd(requests[s])
        /\ batches' = [batches EXCEPT ![l] =
              [id |-> FreshId, stage |-> stage, reserved |-> FALSE,
               of |-> [s \in DOMAIN w |-> Part(s, Position(requests[s]), w[s])]]]
    /\ UNCHANGED <<generations, requests, histories, caches, waves, copies>>

HasRoomOrFull(r) == Len(r.publication) <= CAPACITY
HasRoom(r) == Len(r.publication) < CAPACITY

\* reserve_encoder: a chunk behind the ones outstanding.
ReserveEncoder(l, w) ==
    /\ batches[l] = None /\ OnlyChunks(w)
    /\ \A s \in DOMAIN w :
        /\ Committed(s, generations[s])
        /\ requests[s].phase.stage = "Encoder"
        /\ HasRoom(requests[s])
        /\ \A i \in DOMAIN requests[s].publication : requests[s].publication[i].reserved
        /\ PreparedEnd(requests[s]) + w[s] <= Extent(requests[s].phase)
        /\ histories[s] # None
        /\ histories[s].lease = generations[s]
        /\ histories[s].at = requests[s].end
        /\ histories[s].prepared \in {None, PreparedEnd(requests[s])}
        /\ histories[s].prepared = None => histories[s].at = PreparedEnd(requests[s])
    /\ LET of == [s \in DOMAIN w |-> Part(s, PreparedEnd(requests[s]), w[s])]
       IN  /\ batches' = [batches EXCEPT ![l] =
                 [id |-> FreshId, stage |-> "Encoder", reserved |-> TRUE, of |-> of]]
           /\ requests' = [s \in Slot |->
                 IF s \in DOMAIN w
                 THEN [requests[s] EXCEPT !.publication = Append(@, Entry(FreshId, of[s], TRUE))]
                 ELSE requests[s]]
           /\ histories' = [s \in Slot |->
                 IF s \in DOMAIN w
                 THEN [histories[s] EXCEPT !.prepared = of[s].position + of[s].tokens]
                 ELSE histories[s]]
    /\ UNCHANGED <<generations, caches, waves, copies>>

-----------------------------------------------------------------------------
(* Waves (v41_window.rs, v41_window/commit.rs; the sources keep the same rules). *)

\* The rows of a part follow the cache's; its version may have to be right too.
PartFits(c, s, p) ==
    caches[c][s].lease = p.lease /\ caches[c][s].end = p.position
BindingFits(c, of) ==
    \A s \in DOMAIN of : PartFits(c, s, of[s]) /\ caches[c][s].version = of[s].version

Pending(l, c) == waves[l][c] # None /\ waves[l][c].accepted # None
Ready(l, c) ==
    /\ waves[l][c] # None /\ waves[l][c].accepted = None
    /\ BindingFits(c, waves[l][c].of)
    /\ \A s \in DOMAIN waves[l][c].of : ~caches[c][s].writing

\* WindowWave::validate_batch: ready, or queued with the binding unchanged.
Offers(l, c) == Ready(l, c) \/ (Pending(l, c) /\ BindingFits(c, waves[l][c].of))

\* Queue the accepted rows of a wave.
Queued(cs, c, of) == [cs EXCEPT ![c] = [s \in Slot |->
    IF s \in DOMAIN of THEN [cs[c][s] EXCEPT !.writing = TRUE] ELSE cs[c][s]]]

WrittenInFull(cs, C, of, accepted) == [c \in Cache |-> [s \in Slot |->
    IF c \in C /\ s \in DOMAIN of
    THEN [cs[c][s] EXCEPT !.end = of[s].position + of[s].tokens, !.version = @ + 1,
                          !.writing = FALSE]
    ELSE cs[c][s]]]

\* The writes to the caches C are done: rows and versions move on.
Written(cs, C, of, accepted) == [c \in Cache |-> [s \in Slot |->
    IF c \in C /\ s \in DOMAIN of
    THEN [cs[c][s] EXCEPT !.end = of[s].position + accepted[s], !.version = @ + 1,
                          !.writing = FALSE]
    ELSE cs[c][s]]]

Tokens(of) == [s \in DOMAIN of |-> of[s].tokens]
NoWaves == [c \in Cache |-> None]

\* A lane produces its caches in layer order: the next one it has to.
NextToProduce(l) ==
    IF batches[l] = None \/ ~Valid(batches[l]) THEN {}
    ELSE {c \in Todo(batches[l]) :
            /\ waves[l][c] = None
            /\ \A d \in Todo(batches[l]) : d < c => waves[l][d] # None
            /\ \A s \in DOMAIN batches[l].of :
                  PartFits(c, s, batches[l].of[s]) /\ ~caches[c][s].writing}

\* produce_window, produce_source: execute_query binds the rows to the cache's version.
Produce(l, c) ==
    /\ waves' = [waves EXCEPT ![l][c] =
          [accepted |-> None,
           of |-> [s \in DOMAIN batches[l].of |->
                     [batches[l].of[s] EXCEPT !.version = caches[c][s].version]]]]
    /\ UNCHANGED <<generations, requests, histories, caches, batches, copies>>

\* validate_publication, and what its window and source forms add.
Publishable(l) ==
    IF batches[l] = None \/ (\A c \in Cache : waves[l][c] = None) THEN {}
    ELSE IF batches[l].stage = "Encoder" /\ Valid(batches[l]) /\ Agreed(batches[l])
    THEN {c \in Todo(batches[l]) : Offers(l, c)} ELSE {}

\* enqueue_encoder_window, enqueue_encoder_source.
EnqueueEncoder(l, c) ==
    /\ Ready(l, c)
    /\ caches' = Queued(caches, c, waves[l][c].of)
    /\ waves' = [waves EXCEPT ![l][c].accepted = Tokens(waves[l][c].of)]
    /\ UNCHANGED <<generations, requests, histories, batches, copies>>

MarkedLast(pub, b, p, c) ==
    LET pushed == IF pub = <<>> THEN <<Entry(b.id, p, FALSE)>> ELSE pub
    IN  [pushed EXCEPT ![Len(pushed)].bits = @ \cup {c}]

\* finish_publication marks the batch's entry, making one for an unreserved batch.
Marked(pub, b, p, c) ==
    LET pushed == IF pub = <<>> THEN <<Entry(b.id, p, FALSE)>> ELSE pub
    IN  [i \in DOMAIN pushed |->
            IF pushed[i].batch = b.id
            THEN [pushed[i] EXCEPT !.bits = @ \cup {c}] ELSE pushed[i]]

\* publish_encoder_window, publish_encoder_source: directly, or what was queued.
PublishEncoder(l, c) ==
    /\ LET b == batches[l]
       IN  /\ caches' = Written(caches, {c}, b.of, Tokens(b.of))
           /\ requests' = [s \in Slot |->
                 IF s \in DOMAIN b.of
                 THEN [requests[s] EXCEPT !.publication = Marked(@, b, b.of[s], c)]
                 ELSE requests[s]]
    /\ waves' = [waves EXCEPT ![l][c] = None]
    /\ UNCHANGED <<generations, histories, batches, copies>>

-----------------------------------------------------------------------------
(* Releasing.                                                                  *)

ReleasableWhileWriting(s, n, cs) == Usable(s, n)

\* ensure_releasable, in caches cs.
Releasable(s, n, cs) ==
    /\ Usable(s, n)
    /\ \A c \in Cache : cs[c][s].lease = n => ~cs[c][s].writing

\* BackboneCache::release of the slots S.
Cleared(cs, S) == [c \in Cache |-> [s \in Slot |-> IF s \in S THEN Bare ELSE cs[c][s]]]
Without(f, S) == [s \in Slot |-> IF s \in S THEN None ELSE f[s]]

\* The slots that Requests::release lets go of, when asked for the leases of a
\* batch: all but the ones that something still writes to or copies from.
LetGo(of, cs) ==
    {s \in DOMAIN of :
        /\ histories[s] # None /\ histories[s].lease = of[s].lease
        /\ Live(s, of[s].lease) => Releasable(s, of[s].lease, cs)}

Dropped(of, cs) ==
    LET gone == LetGo(of, cs)
        live == {s \in gone : Live(s, of[s].lease)}
    IN  /\ histories' = Without(histories, gone)
        /\ requests' = Without(requests, live)
        /\ caches' = Cleared(cs, live)

\* The guard of a lane: abort_cache_commit drains the writes it has queued to the
\* caches C, which revokes them, then revoke_batch releases what can be.
Leave(l, C) ==
    LET of == batches[l].of
    IN  /\ Dropped(of, [c \in Cache |-> [s \in Slot |->
              IF c \in C /\ s \in DOMAIN of THEN Bare ELSE caches[c][s]]])
        /\ batches' = [batches EXCEPT ![l] = None]
        /\ waves' = [waves EXCEPT ![l] = NoWaves]
        /\ UNCHANGED <<generations, copies>>

\* A batch is cancelled, or one of its calls fails.  (A commit that fails may have
\* written some caches already; it drains the others and releases every
\* participant itself, which comes to the same.)
GiveUp(l) ==
    /\ batches[l] # None
    /\ Leave(l, {c \in Cache : Pending(l, c)})

\* A direct publication fails with its own write under way.  finish_publication
\* releases all participants or none, and the guard goes on from there before
\* anything else runs.
PublishFails(l, c) ==
    /\ Ready(l, c)
    /\ Leave(l, {c} \cup {d \in Cache : Pending(l, d)})

\* Requests::release, which the scheduler calls for any request it retires.
Release(s) ==
    /\ histories[s] # None
    /\ LET of == [t \in {s} |-> histories[s]]
       IN  LetGo(of, caches) = {s} /\ Dropped(of, caches)
    /\ UNCHANGED <<generations, batches, waves, copies>>

-----------------------------------------------------------------------------
(* Commit.                                                                     *)

InAnyOrder(b) == TRUE

\* Chunks complete in the order they were reserved: their rows follow the
\* request's, in the bank and in its history.
InOrder(b) ==
    \A s \in DOMAIN b.of :
        /\ b.stage # "Replay" => histories[s].at = b.of[s].position
        /\ b.reserved => /\ requests[s].publication[1].batch = b.id
                         /\ requests[s].end = b.of[s].position

\* validate_acceptance, validate_commit: the acceptances a batch may commit with.
\* (The lanes commit a batch only when it accepts a row of some request.)
Accepts(l) ==
    IF batches[l] = None \/ ~Valid(batches[l]) THEN {}
    ELSE LET b == batches[l]
         IN  IF /\ Agreed(b) /\ InOrder(b)
                /\ b.reserved => Todo(b) = {}
                /\ \A c \in Todo(b) : Offers(l, c)
             THEN {a \in [DOMAIN b.of -> Token] :
                      /\ \A s \in DOMAIN b.of : a[s] <= b.of[s].tokens
                      /\ \E s \in DOMAIN b.of : a[s] > 0
                      /\ Published(b) # {} => a = Tokens(b.of)}
             ELSE {}

\* enqueue_cache_commit queues every cache.  (Where one fails the call returns
\* with the ones before it queued, and the lane gives up in the same breath.)
EnqueueCommit(l, accepted) ==
    /\ LET C == Todo(batches[l])
       IN  /\ C # {}
           /\ \A c \in C : Ready(l, c)
           /\ caches' = [c \in Cache |-> IF c \in C THEN Queued(caches, c, batches[l].of)[c]
                                         ELSE caches[c]]
           /\ waves' = [waves EXCEPT ![l] = [c \in Cache |->
                 IF c \in C THEN [waves[l][c] EXCEPT !.accepted = accepted] ELSE waves[l][c]]]
    /\ UNCHANGED <<generations, requests, histories, batches, copies>>

Finished(r, p, accepted) ==
    LET a == Advanced(r, p.position + accepted)
    IN  [a EXCEPT !.version = @ + 1,
                  !.publication = IF @ = <<>> THEN @ ELSE Tail(@)]

HashedInReplay(h, b, n) == [h EXCEPT !.at = @ + n]

\* A decoder replay has no history work.
Hashed(h, b, n) == IF b.stage = "Replay" THEN h ELSE [h EXCEPT !.at = @ + n]

\* Requests::commit over BackboneCache::commit.
Commit(l, accepted) ==
    /\ LET b == batches[l]
       IN  /\ \A c \in Todo(b) : Pending(l, c) => waves[l][c].accepted = accepted
           /\ caches' = Written(caches, Todo(b), b.of, accepted)
           /\ requests' = [s \in Slot |->
                 IF s \in DOMAIN b.of THEN Finished(requests[s], b.of[s], accepted[s])
                 ELSE requests[s]]
           /\ histories' = [s \in Slot |->
                 IF s \in DOMAIN b.of THEN Hashed(histories[s], b, accepted[s])
                 ELSE histories[s]]
    /\ batches' = [batches EXCEPT ![l] = None]
    /\ waves' = [waves EXCEPT ![l] = NoWaves]
    /\ UNCHANGED <<generations, copies>>

-----------------------------------------------------------------------------
(* Admission, phases and prefixes.                                             *)

\* begin_request.  (If it fails in a cache the bank is poisoned, refuses every
\* further call and has to be built again: nothing of it is left to model.)
Admit(s) ==
    /\ requests[s] = None /\ histories[s] = None
    /\ SumFunction(generations) < MaxLeases
    /\ generations' = [generations EXCEPT ![s] = @ + 1]
    /\ requests' = [requests EXCEPT ![s] = NewRequest]
    /\ histories' = [histories EXCEPT ![s] =
          [lease |-> generations'[s], at |-> 0, prepared |-> None]]
    /\ caches' = [c \in Cache |-> [caches[c] EXCEPT ![s] = Begun(generations'[s], 0, 0)]]
    /\ UNCHANGED <<batches, waves, copies>>

BeginEncoder(s, target) ==
    /\ requests[s] # None
    /\ requests[s].end = 0 /\ requests[s].version = 0 /\ requests[s].phase = Full
    /\ Committed(s, generations[s])
    /\ requests' = [requests EXCEPT ![s].phase = Encoder(target), ![s].version = 1]
    /\ UNCHANGED <<generations, histories, caches, batches, waves, copies>>

Back(end) == IF end > REPLAY THEN end - REPLAY ELSE 0

\* Requests::begin_decoder_replay.
MayReplay(s) ==
    /\ Committed(s, generations[s])
    /\ histories[s] # None /\ histories[s].lease = generations[s]
    /\ histories[s].at = requests[s].end
    /\ requests[s].phase.stage = "Encoder"
    /\ requests[s].phase.target = requests[s].end

BeginDecoderReplay(s) ==
    /\ MayReplay(s)
    /\ \A c \in OfKind({"decoder"}) : caches[c][s] = Begun(generations[s], 0, 0)
    /\ LET start == Back(requests[s].end)
       IN  /\ requests' = [requests EXCEPT ![s].phase = Replay(@.target, start),
                                           ![s].version = @ + 1]
           /\ caches' = [c \in Cache |->
                 IF Kinds[c] = "decoder"
                 THEN [caches[c] EXCEPT ![s] = Begun(generations[s], start, 1)] ELSE caches[c]]
    /\ histories' = [histories EXCEPT ![s].prepared = None]
    /\ UNCHANGED <<generations, batches, waves, copies>>

\* A window fails to start: the bank's half of the request is released.
DecoderReplayFails(s) ==
    /\ MayReplay(s)
    /\ Releasable(s, generations[s], caches)
    /\ requests' = Without(requests, {s})
    /\ caches' = Cleared(caches, {s})
    /\ UNCHANGED <<generations, histories, batches, waves, copies>>

\* A fresh admission that nobody has planned for yet.
Fresh(s) ==
    /\ requests[s] = NewRequest
    /\ Usable(s, generations[s])
    /\ histories[s] # None /\ histories[s].lease = generations[s]
    /\ histories[s].at = 0 /\ histories[s].prepared = None
    /\ \A c \in Cache : caches[c][s] = Begun(generations[s], 0, 0)
    /\ \A l \in Lane : ~Holds(l, s)

\* The request takes a prefix of end rows; its caches hold what rows says.  A
\* failure releases the fresh request, as Release does.
Restored(s, end, at, phase, rows) ==
    /\ Fresh(s)
    /\ requests' = [requests EXCEPT ![s].end = end, ![s].phase = phase, ![s].version = 1]
    /\ caches' = [c \in Cache |-> [caches[c] EXCEPT ![s] =
          IF Kinds[c] \in DOMAIN rows THEN Begun(generations[s], rows[Kinds[c]], 1) ELSE @]]
    /\ histories' = [histories EXCEPT ![s].at = at]
    /\ UNCHANGED <<generations, batches, waves, copies>>

RestorePrefix(s, end) ==
    Restored(s, end, end, Full, [k \in {"encoder", "source", "decoder"} |-> end])

RestoreEncoderContinuation(s, end, target) ==
    /\ target >= end + REPLAY
    /\ Restored(s, end, end, Encoder(target), [k \in {"encoder", "source"} |-> end])

RestoreEncoderPrefix(s, end, target) ==
    /\ end % GROUP = 0 /\ end <= target
    /\ Restored(s, end, Back(end), EncoderReplay(end, target, Back(end)),
                [k \in {"encoder", "source"} |-> IF k = "encoder" THEN Back(end) ELSE end])

\* queue_prefix copies a complete request; finish_prefix and abort_prefix end it.
QueuePrefix(l, s) ==
    /\ copies[l] = None
    /\ Committed(s, generations[s])
    /\ histories[s] # None /\ histories[s].lease = generations[s]
    /\ histories[s].prepared = None /\ histories[s].at = requests[s].end
    /\ requests[s].end > 0
    /\ requests[s].phase = Full /\ requests[s].publication = <<>>
    /\ \A c \in Cache : ~caches[c][s].writing
    /\ copies' = [copies EXCEPT ![l] =
          [slot |-> s, lease |-> generations[s], end |-> requests[s].end]]
    /\ UNCHANGED <<generations, requests, histories, caches, batches, waves>>

EndPrefix(l) ==
    /\ copies[l] # None
    /\ copies' = [copies EXCEPT ![l] = None]
    /\ UNCHANGED <<generations, requests, histories, caches, batches, waves>>

-----------------------------------------------------------------------------

BankInit ==
    /\ generations = [s \in Slot |-> 0]
    /\ requests = [s \in Slot |-> None]
    /\ histories = [s \in Slot |-> None]
    /\ caches = [c \in Cache |-> [s \in Slot |-> Bare]]
    /\ batches = [l \in Lane |-> None]
    /\ waves = [l \in Lane |-> NoWaves]
    /\ copies = [l \in Lane |-> None]

Work == UNION {[S -> UNION {Chunks[g] : g \in Stage}] : S \in (SUBSET Slot) \ {{}}}
InBounds(w) ==
    \A s \in DOMAIN w : requests[s] # None =>
        /\ w[s] \in Chunks[requests[s].phase.stage]
        /\ Position(requests[s]) + w[s] <= Rows[s]

LaneNext(l) ==
    \/ batches[l] = None /\ \E w \in Work :
            InBounds(w) /\ (Prepare(l, w) \/ ReserveEncoder(l, w))
    \/ \E c \in NextToProduce(l) : Produce(l, c)
    \/ \E c \in Publishable(l) :
            EnqueueEncoder(l, c) \/ PublishEncoder(l, c) \/ PublishFails(l, c)
    \/ \E a \in Accepts(l) : EnqueueCommit(l, a) \/ Commit(l, a)
    \/ GiveUp(l)
    \/ EndPrefix(l)
    \/ \E s \in Slot : QueuePrefix(l, s)

SlotNext(s) ==
    \/ Admit(s) \/ Release(s)
    \/ BeginDecoderReplay(s) \/ DecoderReplayFails(s)
    \/ \E target \in 1..Rows[s] : BeginEncoder(s, target)
    \/ \E end \in 1..Rows[s] :
        \/ RestorePrefix(s, end)
        \/ \E target \in end..Rows[s] :
              RestoreEncoderContinuation(s, end, target) \/ RestoreEncoderPrefix(s, end, target)

BankNext == (\E l \in Lane : LaneNext(l)) \/ (\E s \in Slot : SlotNext(s))

BankSpec == BankInit /\ [][BankNext]_bank_vars

-----------------------------------------------------------------------------

(* Every variable has its type, and a request never has more chunks            *)
(* outstanding than CAPACITY (plan_stage).                                     *)
BankTypeOK ==
    /\ generations \in [Slot -> Lease]
    /\ requests \in [Slot -> RequestType \cup {None}]
    /\ \A s \in Slot : requests[s] # None => Len(requests[s].publication) <= CAPACITY
    /\ histories \in [Slot -> HistoryType \cup {None}]
    /\ caches \in [Cache -> [Slot -> CacheType]]
    /\ DOMAIN batches = Lane /\ DOMAIN waves = Lane
    /\ \A l \in Lane :
        /\ batches[l] # None => \E S \in SUBSET Slot : batches[l] \in BatchType(S)
        /\ DOMAIN waves[l] = Cache
        /\ \A c \in Cache :
              waves[l][c] # None => \E S \in SUBSET Slot : waves[l][c] \in WaveType(S)
    /\ copies \in [Lane -> CopyType \cup {None}]

(* The forty windows and four sources of a request are where its phase and its *)
(* publications say they are: committed_end can fail only because a failure    *)
(* has revoked a cache's lease.  A slot without a request leases nothing, and  *)
(* a cache is never leased to anyone but the slot's request.                   *)
FrontiersAgree ==
    \A s \in Slot, c \in Cache :
        caches[c][s].lease # 0 =>
            /\ requests[s] # None
            /\ caches[c][s].lease = generations[s]
            /\ caches[c][s].end = Expected(requests[s], c)

(* The chunks outstanding follow each other and the request's frontier without *)
(* a gap and stay within the prompt; a chunk is never ahead of the one before  *)
(* it in any cache; only an encoder prefill has any, and an unreserved one     *)
(* stands alone (publication.rs).                                              *)
ChunksFollowEachOther ==
    \A s \in Slot : requests[s] # None =>
        LET r == requests[s]
            pub == r.publication
        IN  /\ pub # <<>> => r.phase.stage = "Encoder" /\ pub[1].start = r.end
            /\ \A i \in DOMAIN pub :
                /\ pub[i].start < pub[i].end /\ pub[i].end <= r.phase.target
                /\ ~pub[i].reserved => Len(pub) = 1
                /\ i > 1 => /\ pub[i].start = pub[i - 1].end
                            /\ pub[i].bits \subseteq pub[i - 1].bits

(* The hashed token history of a request is where its caches are, through      *)
(* replays and overlapping chunks, and the history prepared ahead is where the *)
(* last reserved chunk ends (v41_requests.rs checks both before every step).   *)
HistoriesAgree ==
    \A s \in Slot :
        histories[s] # None /\ Live(s, histories[s].lease) =>
            LET h == histories[s]
                r == requests[s]
            IN  /\ h.at = HistoryEnd(r)
                /\ h.prepared # None => r.phase.stage = "Encoder" /\ h.prepared = PreparedEnd(r)
                /\ h.prepared = None => \A i \in DOMAIN r.publication : ~r.publication[i].reserved

(* A queued write belongs to exactly one wave, and goes to the lease and the   *)
(* rows it was produced for: no slot is released or given to another request   *)
(* while something still writes to it (ensure_not_writing).                    *)
QueuedWritesAreOwned ==
    \A c \in Cache, s \in Slot :
        LET writers == {l \in Lane : Pending(l, c) /\ s \in DOMAIN waves[l][c].of}
        IN  /\ caches[c][s].writing <=> writers # {}
            /\ Cardinality(writers) <= 1
            /\ \A l \in writers :
                LET p == waves[l][c].of[s]
                IN  /\ requests[s] # None /\ generations[s] = p.lease
                    /\ PartFits(c, s, p) /\ caches[c][s].version = p.version

(* As long as a request lives, none of its caches and neither of its           *)
(* frontiers goes back; and when a request with chunks outstanding advances, it *)
(* is by the oldest of them, all of whose rows are in every encoder cache.      *)
AdvancesByWholeChunks ==
    [][\A s \in Slot :
        requests[s] # None /\ requests'[s] # None /\ generations'[s] = generations[s] =>
            /\ requests'[s].end >= requests[s].end
            /\ histories[s] # None /\ histories'[s] # None => histories'[s].at >= histories[s].at
            /\ \A c \in Cache : caches'[c][s].lease # 0 => caches'[c][s].end >= caches[c][s].end
            /\ requests'[s].end # requests[s].end /\ requests[s].publication # <<>> =>
                LET head == requests[s].publication[1]
                IN  /\ requests'[s].end = head.end
                    /\ requests'[s].publication = Tail(requests[s].publication)
                    /\ \A c \in Writes("Encoder") : caches'[c][s].end >= head.end
      ]_<<generations, requests, histories, caches>>
=============================================================================
