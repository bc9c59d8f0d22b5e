-------------------------- MODULE RequestBankProofs --------------------------
(***************************************************************************)
(* Proofs about the request bank.                                          *)
(*                                                                         *)
(* What the properties of RequestBank say of a request, its caches, its    *)
(* history and its queued writes is not inductive: a step of a lane is     *)
(* right because of what the lane's batch and waves are.  The invariant    *)
(* BankInv says that: an outstanding chunk belongs to one batch, which     *)
(* published it; an unreserved batch was planned for the request as it is  *)
(* or for a version of it that is past; a wave carries its batch's rows to *)
(* a cache that the batch has not published.                               *)
(***************************************************************************)
EXTENDS RequestBank, LibraryLemmas

-----------------------------------------------------------------------------
(* The invariant. *)

\* A request is sound in itself: its outstanding chunks follow each other and its
\* frontier, each is of a batch of its own, and its phase fits its frontier.
Chunked(r) ==
    LET pub == r.publication
    IN  /\ pub # <<>> => r.phase.stage = "Encoder" /\ pub[1].start = r.end
        /\ \A i \in 1..Len(pub) :
            /\ pub[i].start < pub[i].end /\ pub[i].end <= r.phase.target
            /\ ~pub[i].reserved => Len(pub) = 1 /\ pub[i].bits # {}
            /\ i > 1 => pub[i].start = pub[i - 1].end /\ pub[i].bits \subseteq pub[i - 1].bits
Apart(pub) == \A i, j \in 1..Len(pub) : pub[i].batch = pub[j].batch => i = j
PhaseFits(r) ==
    /\ r.phase.stage = "EncoderReplay" => r.phase.prefix = r.end /\ r.phase.target > 0
    /\ r.phase.stage = "Replay" => r.phase.target = r.end
Sound(r) ==
    /\ r \in RequestType /\ Len(r.publication) <= CAPACITY
    /\ Chunked(r) /\ Apart(r.publication) /\ PhaseFits(r)

RequestsInv ==
    /\ generations \in [Slot -> Nat] /\ requests \in [Slot -> RequestType \cup {None}]
    /\ \A s \in Slot : requests[s] # None => Sound(requests[s])

\* A cache that is leased is where the request is.
Follows(x, r, g, c) ==
    x.lease # 0 => r # None /\ x.lease = g /\ x.end = Expected(r, c)
CachesInv ==
    /\ caches \in [Cache -> [Slot -> CacheType]]
    /\ \A c \in Cache, s \in Slot : Follows(caches[c][s], requests[s], generations[s], c)

\* A history follows its request.
Agrees(h, r) ==
    /\ h.at = HistoryEnd(r)
    /\ h.prepared # None => r.phase.stage = "Encoder" /\ h.prepared = PreparedEnd(r)
    /\ h.prepared = None => \A i \in 1..Len(r.publication) : ~r.publication[i].reserved
HistoriesInv ==
    /\ histories \in [Slot -> HistoryType \cup {None}]
    /\ \A s \in Slot :
        histories[s] # None /\ requests[s] # None /\ generations[s] = histories[s].lease
            => Agrees(histories[s], requests[s])

\* What a batch knows of a request that still has the lease it was planned for:
\* the chunks it has published are its own, and an unreserved batch was planned
\* for the request as it is, or for a version that is past.
Owns(b, p, r) == \A i \in 1..Len(r.publication) :
    LET e == r.publication[i]
    IN  e.batch = b.id => /\ e.start = p.position /\ e.end = p.position + p.tokens
                          /\ e.reserved = b.reserved
Planned(b, p, r) == ~b.reserved =>
    /\ p.version <= r.version
    /\ p.version = r.version =>
        /\ r.phase.stage = b.stage /\ Position(r) = p.position
        /\ p.position + p.tokens <= Extent(r.phase)
Alone(b, h) == ~b.reserved /\ b.stage # "Replay" /\ h # None => h.prepared = None
Fits(b, p, r, h, g) ==
    /\ p.lease <= g
    /\ r # None /\ g = p.lease => Owns(b, p, r) /\ Planned(b, p, r) /\ Alone(b, h)

Batch(l) == batches[l] # None
BatchesInv ==
    /\ DOMAIN batches = Lane
    /\ \A l \in Lane : Batch(l) =>
        /\ \E S \in SUBSET Slot : batches[l] \in BatchType(S)
        /\ batches[l].reserved => batches[l].stage = "Encoder"
        /\ \A s \in DOMAIN batches[l].of :
              Fits(batches[l], batches[l].of[s], requests[s], histories[s], generations[s])
    /\ \A l, k \in Lane : Batch(l) /\ Batch(k) /\ batches[l].id = batches[k].id => l = k

\* A wave carries the rows of its lane's batch to a cache that the batch has not
\* published yet.
Carries(w, b) ==
    /\ DOMAIN w.of = DOMAIN b.of
    /\ \A s \in DOMAIN b.of :
        /\ w.of[s].lease = b.of[s].lease /\ w.of[s].position = b.of[s].position
        /\ w.of[s].tokens = b.of[s].tokens
Unpublished(b, c, r) ==
    \A i \in 1..Len(r.publication) :
        r.publication[i].batch = b.id => c \notin r.publication[i].bits
WavesInv ==
    /\ DOMAIN waves = Lane
    /\ \A l \in Lane :
        /\ DOMAIN waves[l] = Cache
        /\ \A c \in Cache : waves[l][c] # None =>
            /\ \E S \in SUBSET Slot : waves[l][c] \in WaveType(S)
            /\ Batch(l) /\ Carries(waves[l][c], batches[l]) /\ c \in Writes(batches[l].stage)
            /\ \A s \in DOMAIN batches[l].of :
                  requests[s] # None /\ generations[s] = batches[l].of[s].lease
                    => Unpublished(batches[l], c, requests[s])

\* A queued write belongs to one wave.
Writer(l, c, s) == Pending(l, c) /\ s \in DOMAIN waves[l][c].of
Right(p, x, r, g) ==
    r # None /\ g = p.lease /\ x.lease = p.lease /\ x.end = p.position /\ x.version = p.version
WritesInv ==
    /\ \A c \in Cache, s \in Slot : caches[c][s].writing => \E l \in Lane : Writer(l, c, s)
    /\ \A l \in Lane, c \in Cache, s \in Slot : Writer(l, c, s) =>
        /\ caches[c][s].writing
        /\ Right(waves[l][c].of[s], caches[c][s], requests[s], generations[s])
    /\ \A l, k \in Lane, c \in Cache, s \in Slot : Writer(l, c, s) /\ Writer(k, c, s) => l = k

BankInv ==
    /\ RequestsInv /\ CachesInv /\ HistoriesInv /\ BatchesInv /\ WavesInv /\ WritesInv
    /\ copies \in [Lane -> CopyType \cup {None}]

-----------------------------------------------------------------------------
(* Requests. *)

\* Which caches a batch of each stage writes.
LEMMA KindFacts ==
    /\ Cache = 1..Len(Kinds) /\ Len(Kinds) \in Nat
    /\ \A c \in Cache : Kinds[c] \in {"encoder", "source", "decoder"}
    /\ Writes("Full") = Cache
    /\ Writes("Encoder") = {c \in Cache : Kinds[c] \in {"encoder", "source"}}
    /\ Writes("EncoderReplay") = {c \in Cache : Kinds[c] = "encoder"}
    /\ Writes("Replay") = {c \in Cache : Kinds[c] = "decoder"}
    /\ Writes("Encoder") # {}
<1>1. /\ Kinds \in Seq({"encoder", "source", "decoder"})
      /\ \E i \in DOMAIN Kinds : Kinds[i] = "encoder"
  BY BankConstants
<1>2. /\ Cache = 1..Len(Kinds) /\ Len(Kinds) \in Nat
      /\ \A c \in Cache : Kinds[c] \in {"encoder", "source", "decoder"}
  BY <1>1 DEF Cache
<1>3. /\ Writes("Full") = Cache
      /\ Writes("Encoder") = {c \in Cache : Kinds[c] \in {"encoder", "source"}}
      /\ Writes("EncoderReplay") = {c \in Cache : Kinds[c] \in {"encoder"}}
      /\ Writes("Replay") = {c \in Cache : Kinds[c] \in {"decoder"}}
  BY DEF Writes, OfKind
<1>4. Writes("Encoder") # {}
  BY <1>1, <1>3 DEF Cache
<1> QED BY <1>2, <1>3, <1>4

\* A cache has room for at least one token.
LEMMA CapacityPositive == CAPACITY \in Nat /\ CAPACITY >= 1
  BY BankConstants

\* A function on 1..n is a sequence of length n.
LEMMA FunctionSeq ==
    ASSUME NEW S, NEW n \in Nat, NEW f \in [1..n -> S]
    PROVE  f \in Seq(S) /\ Len(f) = n
  OBVIOUS

\* A chunk reaches another cache.
LEMMA EntryMarked ==
    ASSUME NEW e \in EntryType, NEW c \in Writes("Encoder")
    PROVE  LET f == [e EXCEPT !.bits = @ \cup {c}] IN
           /\ f \in EntryType /\ f.batch = e.batch /\ f.start = e.start /\ f.end = e.end
           /\ f.reserved = e.reserved /\ f.bits = e.bits \cup {c}
  BY DEF EntryType

\* The fields of a publication entry.
LEMMA EntryFields ==
    ASSUME NEW e \in EntryType
    PROVE  /\ e.batch \in BatchId /\ e.start \in Nat /\ e.end \in Nat /\ e.reserved \in BOOLEAN
           /\ e.start \in Token /\ e.end \in Token
           /\ e.bits \in SUBSET Writes("Encoder")
  BY BankConstants DEF EntryType, Token

\* What a request that is in order looks like.
LEMMA RequestFields ==
    ASSUME NEW r \in RequestType
    PROVE  /\ r.version \in Nat /\ r.end \in Nat /\ r.end \in Token /\ r.phase \in PhaseType
           /\ r.publication \in Seq(EntryType)
           /\ Len(r.publication) \in Nat /\ DOMAIN r.publication = 1..Len(r.publication)
           /\ \A i \in 1..Len(r.publication) : r.publication[i] \in EntryType
           /\ r.publication = <<>> <=> Len(r.publication) = 0
<1> DEFINE E == EntryType
<1>1. /\ r.version \in Nat /\ r.end \in Nat /\ r.end \in Token /\ r.phase \in PhaseType
      /\ r.publication \in Seq(E)
  BY BankConstants DEF RequestType, Token
<1> HIDE DEF E
<1>2. /\ Len(r.publication) \in Nat /\ DOMAIN r.publication = 1..Len(r.publication)
      /\ \A i \in 1..Len(r.publication) : r.publication[i] \in E
      /\ r.publication = <<>> <=> Len(r.publication) = 0
  BY <1>1, EmptySeq
<1> QED BY <1>1, <1>2 DEF E

\* The fields of a phase, and what each stage says of them.
LEMMA PhaseFields ==
    ASSUME NEW p \in PhaseType
    PROVE  /\ p.stage \in Stage
           /\ p.prefix \in Nat /\ p.target \in Nat /\ p.end \in Nat
           /\ p.prefix \in Token /\ p.target \in Token /\ p.end \in Token
           /\ p.stage = "Full" => p = Full
           /\ p.stage = "Encoder" => p = Encoder(p.target) /\ p.target > 0
           /\ p.stage = "EncoderReplay" => p = EncoderReplay(p.prefix, p.target, p.end)
           /\ p.stage = "Replay" => p = Replay(p.target, p.end)
  BY BankConstants DEF PhaseType, Full, Encoder, EncoderReplay, Replay, Token, Stage

\* The phases the calls begin are phases.
LEMMA PhasesTyped ==
    ASSUME NEW p \in Token, NEW t \in Token, NEW e \in Token
    PROVE  /\ Full \in PhaseType /\ EncoderReplay(p, t, e) \in PhaseType
           /\ Replay(t, e) \in PhaseType
           /\ t > 0 => Encoder(t) \in PhaseType
  BY DEF PhaseType, Full, Encoder, EncoderReplay, Replay, Token

\* The rows expected of a cache that no outstanding chunk has reached, and of one
\* that some have: those of the last of them.
LEMMA ExpectedNone ==
    ASSUME NEW r \in RequestType, NEW c,
           \A i \in 1..Len(r.publication) : c \notin r.publication[i].bits
    PROVE  Expected(r, c) = PhaseEnd(r, c)
  BY RequestFields DEF Expected

\* A cache's expected end is the end of the last entry it has published.
LEMMA ExpectedLast ==
    ASSUME NEW r \in RequestType, NEW c, NEW i \in 1..Len(r.publication),
           c \in r.publication[i].bits,
           \A j \in 1..Len(r.publication) : c \in r.publication[j].bits => j <= i
    PROVE  Expected(r, c) = r.publication[i].end
<1> DEFINE to == {j \in DOMAIN r.publication : c \in r.publication[j].bits}
<1>1. /\ DOMAIN r.publication = 1..Len(r.publication) /\ Len(r.publication) \in Nat
      /\ to \in SUBSET Nat /\ i \in to /\ i \in Nat /\ \A j \in to : j <= i
  BY RequestFields
<1>2. Expected(r, c) = r.publication[Max(to)].end
  BY <1>1 DEF Expected
<1> HIDE DEF to
<1>3. Max(to) \in to /\ Max(to) >= i
  BY <1>1, MaxProperties
<1>4. Max(to) \in Nat /\ Max(to) <= i
  BY <1>1, <1>3
<1>5. Max(to) = i
  BY <1>1, <1>3, <1>4
<1> QED BY <1>2, <1>5

\* One of the two is the case.
Reached(r, c, i) ==
    /\ i \in 1..Len(r.publication) /\ c \in r.publication[i].bits
    /\ \A j \in 1..Len(r.publication) : c \in r.publication[j].bits => j <= i

\* A cache is expected at the end of an entry it has published, or at the phase's own end.
LEMMA ExpectedCases ==
    ASSUME NEW r \in RequestType, NEW c
    PROVE  \/ /\ \A i \in 1..Len(r.publication) : c \notin r.publication[i].bits
              /\ Expected(r, c) = PhaseEnd(r, c)
           \/ \E i \in 1..Len(r.publication) :
                Reached(r, c, i) /\ Expected(r, c) = r.publication[i].end
<1> DEFINE to == {j \in 1..Len(r.publication) : c \in r.publication[j].bits}
<1>0. Len(r.publication) \in Nat
  BY RequestFields
<1>1. CASE to = {}
  <2>1. \A i \in 1..Len(r.publication) : c \notin r.publication[i].bits
    BY <1>1
  <2> QED BY <2>1, ExpectedNone
<1>2. CASE to # {}
  <2>1. to \in SUBSET Nat /\ \A j \in to : j <= Len(r.publication)
    BY <1>0
  <2> DEFINE i == Max(to)
  <2>2. i \in to /\ \A j \in to : i >= j
    <3> HIDE DEF to
    <3> QED BY <1>0, <1>2, <2>1, MaxProperties
  <2> HIDE DEF i
  <2>3. Reached(r, c, i)
    BY <2>2, <1>0 DEF Reached
  <2>4. Expected(r, c) = r.publication[i].end
    BY <2>3, ExpectedLast DEF Reached
  <2> QED BY <2>3, <2>4 DEF Reached
<1> QED BY <1>1, <1>2

\* A request with other chunks outstanding is otherwise the same.
Same(r, q) == q.version = r.version /\ q.end = r.end /\ q.phase = r.phase

\* A request whose publications change keeps everything else.
LEMMA Republished ==
    ASSUME NEW r \in RequestType, NEW pub \in Seq(EntryType)
    PROVE  LET q == [r EXCEPT !.publication = pub] IN
           /\ q \in RequestType /\ q.publication = pub /\ Same(r, q)
           /\ HistoryEnd(q) = HistoryEnd(r) /\ Position(q) = Position(r)
           /\ \A c : PhaseEnd(q, c) = PhaseEnd(r, c)
<1> DEFINE P == Seq(EntryType)
           q == [r EXCEPT !.publication = pub]
<1>1. r \in [version : Nat, end : Token, phase : PhaseType, publication : P] /\ pub \in P
  BY DEF RequestType
<1> HIDE DEF P
<1>2. /\ q \in [version : Nat, end : Token, phase : PhaseType, publication : P]
      /\ q.publication = pub /\ q.version = r.version /\ q.end = r.end /\ q.phase = r.phase
  BY <1>1
<1>3. q \in RequestType
  BY <1>2 DEF RequestType, P
<1>4. HistoryEnd(q) = HistoryEnd(r) /\ Position(q) = Position(r)
  BY <1>2 DEF HistoryEnd, Position
<1>5. \A c : PhaseEnd(q, c) = PhaseEnd(r, c)
  BY <1>2, <1>4 DEF PhaseEnd
<1> QED BY <1>2, <1>3, <1>4, <1>5 DEF Same

\* A chunk is reserved behind the others (reserve_encoder).
Lengthened(r, e) == [r EXCEPT !.publication = Append(@, e)]

\* Reserving one more chunk keeps the chunks of a request in order and moves no expected end.
LEMMA Appended ==
    ASSUME NEW r, Sound(r), r.phase.stage = "Encoder", HasRoom(r),
           \A i \in 1..Len(r.publication) : r.publication[i].reserved,
           NEW e \in EntryType, e.start = PreparedEnd(r), e.start < e.end,
           e.end <= r.phase.target, e.reserved, e.bits = {},
           \A i \in 1..Len(r.publication) : r.publication[i].batch # e.batch,
           NEW q, q = Lengthened(r, e)
    PROVE  /\ Sound(q) /\ Same(r, q) /\ PreparedEnd(q) = e.end
           /\ HistoryEnd(q) = HistoryEnd(r) /\ Position(q) = Position(r)
           /\ \A c \in Cache : Expected(q, c) = Expected(r, c)
           /\ Len(q.publication) = Len(r.publication) + 1
           /\ q.publication[Len(r.publication) + 1] = e
           /\ \A i \in 1..Len(r.publication) : q.publication[i] = r.publication[i]
<1> DEFINE pub == r.publication
           n == Len(pub)
           m == Append(pub, e)
           E == EntryType
<1>1. /\ r \in RequestType /\ pub \in Seq(E) /\ n \in Nat /\ e \in E /\ n < CAPACITY
      /\ \A i \in 1..n : pub[i] \in E
  BY RequestFields DEF Sound, HasRoom
<1> HIDE DEF E
<1>2. /\ m \in Seq(E) /\ Len(m) = n + 1 /\ m[n + 1] = e /\ \A i \in 1..n : m[i] = pub[i]
      /\ 1..n + 1 = 1..n \cup {n + 1} /\ m # <<>>
  BY <1>1
<1> USE DEF E
<1>3. q = [r EXCEPT !.publication = m] /\ DOMAIN r = {"version", "end", "phase", "publication"}
  BY <1>1 DEF RequestType, Lengthened
<1>4. /\ q \in RequestType /\ q.publication = m /\ Same(r, q)
      /\ HistoryEnd(q) = HistoryEnd(r) /\ Position(q) = Position(r)
      /\ \A c : PhaseEnd(q, c) = PhaseEnd(r, c)
  <2>1. r \in RequestType /\ m \in Seq(EntryType) /\ q = [r EXCEPT !.publication = m]
    BY <1>1, <1>2, <1>3
  <2> HIDE DEF m
  <2> QED BY ONLY <2>1, Republished
<1>5. PreparedEnd(q) = e.end
  BY <1>2, <1>4 DEF PreparedEnd
<1>6. /\ e.start \in Nat /\ e.end \in Nat /\ r.phase.target \in Nat /\ n + 1 \in 1..n + 1
  BY <1>1, EntryFields, PhaseFields, RequestFields
<1>7. Chunked(q)
  <2>1. q.phase.stage = "Encoder" /\ m[1].start = q.end
    <3>1. CASE n = 0
      <4>1. pub = <<>> /\ m[1] = e
        BY <3>1, <1>1, <1>2, RequestFields
      <4> QED BY <4>1, <1>4 DEF PreparedEnd, Same
    <3>2. CASE n # 0
      <4>1. m[1] = pub[1] /\ pub # <<>>
        BY <3>2, <1>1, <1>2, RequestFields
      <4> QED BY <4>1, <1>4 DEF Sound, Chunked, Same
    <3> QED BY <3>1, <3>2
  <2>2. ASSUME NEW i \in 1..n + 1
        PROVE  /\ m[i].start < m[i].end /\ m[i].end <= q.phase.target
               /\ ~m[i].reserved => Len(m) = 1 /\ m[i].bits # {}
               /\ i > 1 => m[i].start = m[i - 1].end /\ m[i].bits \subseteq m[i - 1].bits
    <3>1. CASE i = n + 1
      <4>1. i > 1 => e.start = m[i - 1].end
        <5>1. SUFFICES ASSUME i > 1 PROVE e.start = m[i - 1].end
          OBVIOUS
        <5>2. n \in 1..n /\ pub # <<>> /\ i - 1 = n /\ m[i - 1] = pub[n]
          BY <3>1, <5>1, <1>1, <1>2, RequestFields
        <5> QED BY <5>2 DEF PreparedEnd
      <4> QED BY <3>1, <4>1, <1>2, <1>4 DEF Same
    <3>2. CASE i \in 1..n
      <4>1. m[i] = pub[i] /\ (i > 1 => i - 1 \in 1..n /\ m[i - 1] = pub[i - 1])
        BY <3>2, <1>1, <1>2
      <4> QED BY <3>2, <4>1, <1>4 DEF Sound, Chunked, Same
    <3> QED BY <3>1, <3>2, <1>2
  <2>3. Len(q.publication) = n + 1 /\ q.publication = m
    BY <1>2, <1>4
  <2> HIDE DEF m, n, pub
  <2> QED BY <2>1, <2>2, <2>3 DEF Chunked
<1>8. Apart(q.publication)
  <2>1. ASSUME NEW i \in 1..n + 1, NEW j \in 1..n + 1, m[i].batch = m[j].batch PROVE i = j
    <3>1. CASE i \in 1..n /\ j \in 1..n
      BY <3>1, <2>1, <1>2 DEF Sound, Apart
    <3>2. CASE i = n + 1 \/ j = n + 1
      BY <3>2, <2>1, <1>2
    <3> QED BY <3>1, <3>2, <1>2
  <2> QED BY <2>1, <1>2, <1>4 DEF Apart
<1>9. Sound(q)
  <2>1. PhaseFits(q)
    BY <1>4 DEF Sound, PhaseFits, Same
  <2>2. Len(m) <= CAPACITY
    BY <1>1, <1>2, BankConstants
  <2> QED BY <2>1, <2>2, <1>4, <1>7, <1>8 DEF Sound
<1>10. ASSUME NEW c \in Cache PROVE Expected(q, c) = Expected(r, c)
  <2>1. CASE \A i \in 1..n : c \notin pub[i].bits
    <3>1. \A i \in 1..n + 1 : c \notin m[i].bits
      BY <2>1, <1>2
    <3>2. \A i \in 1..Len(q.publication) : c \notin q.publication[i].bits
      BY <3>1, <1>2, <1>4
    <3>3. Expected(q, c) = PhaseEnd(q, c)
      BY ONLY <3>2, <1>4, ExpectedNone
    <3>4. Expected(r, c) = PhaseEnd(r, c)
      BY ONLY <2>1, <1>1, ExpectedNone
    <3> QED BY <3>3, <3>4, <1>4
  <2>2. ASSUME NEW i \in 1..n, Reached(r, c, i), Expected(r, c) = pub[i].end
        PROVE  Expected(q, c) = Expected(r, c)
    <3>1. i \in 1..Len(q.publication) /\ c \in q.publication[i].bits /\ pub[i] = q.publication[i]
      BY <2>2, <1>2, <1>4 DEF Reached
    <3>2. \A j \in 1..Len(q.publication) : c \in q.publication[j].bits => j <= i
      BY <2>2, <1>2, <1>4 DEF Reached
    <3>3. Expected(q, c) = q.publication[i].end
      BY ONLY <3>1, <3>2, <1>4, ExpectedLast
    <3> QED BY <2>2, <3>1, <3>3
  <2> QED BY <2>1, <2>2, <1>1, ExpectedCases
<1> QED BY <1>2, <1>4, <1>5, <1>9, <1>10

\* What publishing a part of a batch to cache c makes of a request: the batch's
\* chunk reaches the cache and nothing else changes.
Mark(r, b, p, c) == [r EXCEPT !.publication = Marked(@, b, p, c)]
Marking(r, q, b, p, c) ==
    /\ Sound(q) /\ Same(r, q) /\ HistoryEnd(q) = HistoryEnd(r) /\ Position(q) = Position(r)
    /\ Expected(q, c) = p.position + p.tokens
    /\ \A d \in Cache \ {c} : Expected(q, d) = Expected(r, d)
MarkedEntries(r, q, b, p, c) ==
    \A i \in 1..Len(q.publication) :
        LET e == q.publication[i]
        IN  \/ /\ e.batch = b.id /\ e.start = p.position /\ e.end = p.position + p.tokens
               /\ e.reserved = b.reserved
               /\ e.bits = {c} \/ \E j \in 1..Len(r.publication) :
                    r.publication[j].batch = b.id /\ e.bits = r.publication[j].bits \cup {c}
            \/ /\ i \in 1..Len(r.publication) /\ e = r.publication[i] /\ e.batch # b.id
MarkedHistory(r, q, b) ==
    /\ b.reserved =>
        /\ PreparedEnd(q) = PreparedEnd(r)
        /\ \E i \in 1..Len(r.publication) : r.publication[i].reserved
    /\ ~b.reserved => \A i \in 1..Len(q.publication) : ~q.publication[i].reserved

\* The first publication of an unreserved batch.
LEMMA MarkedNew ==
    ASSUME NEW r, Sound(r), NEW b, NEW p \in PartType, NEW c \in Writes("Encoder"),
           b.id \in BatchId, b.reserved = FALSE, r.phase.stage = "Encoder",
           p.position = r.end, p.position + p.tokens <= r.phase.target,
           r.publication = <<>>,
           NEW q, q = Mark(r, b, p, c)
    PROVE  Marking(r, q, b, p, c) /\ MarkedEntries(r, q, b, p, c) /\ MarkedHistory(r, q, b)
<1> DEFINE first == Entry(b.id, p, FALSE)
           f == <<first>>
           m == Marked(<<>>, b, p, c)
           e == [first EXCEPT !.bits = @ \cup {c}]
<1>1. /\ r \in RequestType /\ p.position \in Token /\ p.tokens \in Token \ {0}
      /\ r.phase.target \in Token
  BY RequestFields, PhaseFields DEF Sound, PartType
<1>2. p.position + p.tokens \in Token /\ p.position < p.position + p.tokens
  BY <1>1, BankConstants DEF Token
<1>3. first \in EntryType /\ first.batch = b.id
  BY <1>1, <1>2, KindFacts DEF EntryType, Entry
<1>4. /\ e \in EntryType /\ c \in Cache
      /\ e.batch = b.id /\ e.start = p.position /\ e.end = p.position + p.tokens
      /\ e.reserved = FALSE /\ e.bits = {c}
  <2>1. first.start = p.position /\ first.end = p.position + p.tokens
    BY DEF Entry
  <2>2. first.reserved = FALSE /\ first.bits = {}
    BY DEF Entry
  <2> HIDE DEF first
  <2> QED BY <1>3, <2>1, <2>2, EntryMarked, KindFacts
<1>5. m \in Seq(EntryType) /\ Len(m) = 1 /\ m[1] = e /\ 1..Len(m) = {1}
  <2>1. DOMAIN f = 1..1 /\ f[1] = first /\ 1..1 = {1}
    OBVIOUS
  <2>2. m = [i \in DOMAIN f |-> IF f[i].batch = b.id
                                THEN [f[i] EXCEPT !.bits = @ \cup {c}] ELSE f[i]]
    BY DEF Marked
  <2> HIDE DEF f, m, first
  <2>3. DOMAIN m = 1..1 /\ m[1] = e
    BY <1>3, <2>1, <2>2
  <2> HIDE DEF e
  <2>4. m = [i \in 1..1 |-> m[i]]
    BY <2>1, <2>2
  <2> DEFINE E == EntryType
  <2>5. m \in [1..1 -> E]
    BY <1>4, <2>1, <2>3, <2>4
  <2> HIDE DEF E
  <2>6. m \in Seq(E) /\ Len(m) = 1
    BY <2>5, FunctionSeq
  <2> QED BY <2>1, <2>3, <2>6 DEF E
<1>6. q = [r EXCEPT !.publication = m]
  BY <1>1 DEF RequestType, Mark
<1> HIDE DEF m, e, f, first
<1>7. /\ q \in RequestType /\ q.publication = m /\ Same(r, q)
      /\ HistoryEnd(q) = HistoryEnd(r) /\ Position(q) = Position(r)
      /\ \A d : PhaseEnd(q, d) = PhaseEnd(r, d)
  BY ONLY <1>1, <1>5, <1>6, Republished
<1>71. Len(q.publication) = 1 /\ q.publication[1] = e /\ 1..Len(q.publication) = {1}
  BY ONLY <1>5, <1>7
<1>8. Sound(q)
  <2>1. Chunked(q)
    <3>1. q.phase.stage = "Encoder" /\ e.start = q.end
      BY <1>4, <1>7 DEF Same
    <3>2. /\ e.start < e.end /\ e.end <= q.phase.target
          /\ e.bits # {}
      BY <1>2, <1>4, <1>7 DEF Same
    <3>3. \A i \in 1..Len(q.publication) :
              q.publication[i] = e /\ ~(i > 1) /\ Len(q.publication) = 1
      BY ONLY <1>71
    <3>4. q.publication[1] = e
      BY <1>5, <1>7
    <3> QED BY <3>1, <3>2, <3>3, <3>4 DEF Chunked
  <2>2. Apart(q.publication)
    BY <1>5, <1>7 DEF Apart
  <2>3. PhaseFits(q)
    BY <1>7 DEF Sound, PhaseFits, Same
  <2>4. Len(q.publication) <= CAPACITY
    BY <1>5, <1>7, CapacityPositive
  <2> QED BY <1>7, <2>1, <2>2, <2>3, <2>4 DEF Sound
<1>9. Expected(q, c) = p.position + p.tokens
  <2>1. /\ 1 \in 1..Len(q.publication) /\ c \in q.publication[1].bits
        /\ \A j \in 1..Len(q.publication) : c \in q.publication[j].bits => j <= 1
        /\ q.publication[1].end = p.position + p.tokens
    <3>1. c \in e.bits /\ e.end = p.position + p.tokens
      BY <1>4
    <3> QED BY ONLY <3>1, <1>71
  <2> QED BY <1>7, <2>1, ExpectedLast
<1>10. ASSUME NEW d \in Cache \ {c} PROVE Expected(q, d) = Expected(r, d)
  <2>1. \A i \in 1..Len(q.publication) : d \notin q.publication[i].bits
    BY <1>4, <1>5, <1>7, <1>10
  <2>2. \A i \in 1..Len(r.publication) : d \notin r.publication[i].bits
    OBVIOUS
  <2>3. Expected(q, d) = PhaseEnd(q, d)
    BY ONLY <1>7, <2>1, ExpectedNone
  <2>4. Expected(r, d) = PhaseEnd(r, d)
    BY ONLY <1>1, <2>2, ExpectedNone
  <2> QED BY <1>7, <2>3, <2>4
<1>11. Marking(r, q, b, p, c)
  BY <1>7, <1>8, <1>9, <1>10 DEF Marking
<1>12. MarkedEntries(r, q, b, p, c)
  <2>1. q.publication[1] = e /\ 1..Len(q.publication) = {1}
    BY <1>5, <1>7
  <2> QED BY <2>1, <1>4 DEF MarkedEntries
<1>13. MarkedHistory(r, q, b)
  BY <1>4, <1>5, <1>7 DEF MarkedHistory
<1> QED BY <1>11, <1>12, <1>13

\* A chunk ends behind the ones before it.
LEMMA EndsGrow ==
    ASSUME NEW r, Sound(r), NEW i \in 1..Len(r.publication), NEW j \in 1..Len(r.publication), j < i
    PROVE  r.publication[j].end < r.publication[i].end
<1> DEFINE pub == r.publication
           n == Len(pub)
           K == {k \in 1..n : j < k /\ ~(pub[j].end < pub[k].end)}
<1>1. /\ n \in Nat /\ i \in Nat /\ j \in Nat
      /\ \A k \in 1..n : pub[k].start \in Nat /\ pub[k].end \in Nat /\ pub[k].start < pub[k].end
      /\ \A k \in 1..n : k > 1 => pub[k].start = pub[k - 1].end
  BY RequestFields, EntryFields DEF Sound, Chunked
<1>2. CASE K = {}
  BY <1>2
<1>3. CASE K # {}
  <2>1. K \in SUBSET Nat
    BY <1>1
  <2>2. PICK k \in K : \A l \in K : k <= l
    <3> HIDE DEF K
    <3> QED BY <2>1, <1>3, LeastNat
  <2>3. /\ k - 1 \in 1..n /\ k \in 1..n /\ k > 1 /\ j <= k - 1 /\ k \in Nat
    BY <1>1, <2>2
  <2>4. k - 1 = j \/ pub[j].end < pub[k - 1].end
    BY <1>1, <2>2, <2>3
  <2>5. pub[k].start = pub[k - 1].end /\ pub[k].start < pub[k].end
    BY <1>1, <2>3
  <2>6. pub[k].start \in Nat /\ pub[k].end \in Nat /\ pub[j].end \in Nat
    BY <1>1, <2>3
  <2>7. pub[j].end <= pub[k].start
    BY <2>4, <2>5, <2>6
  <2>8. pub[j].end < pub[k].end
    BY ONLY <2>5, <2>6, <2>7
  <2> QED BY <2>2, <2>8
<1> QED BY <1>2, <1>3

\* A further publication of a batch that has a chunk outstanding: the chunk before
\* it has reached the cache, since that is where the cache's rows end.
LEMMA MarkedOwn ==
    ASSUME NEW r, Sound(r), NEW b, NEW p \in PartType, NEW c \in Writes("Encoder"),
           Owns(b, p, r), b.reserved \in BOOLEAN, NEW i \in 1..Len(r.publication),
           r.publication[i].batch = b.id, c \notin r.publication[i].bits,
           Expected(r, c) = p.position,
           NEW q, q = Mark(r, b, p, c)
    PROVE  Marking(r, q, b, p, c) /\ MarkedEntries(r, q, b, p, c) /\ MarkedHistory(r, q, b)
<1> DEFINE pub == r.publication
           n == Len(pub)
           m == Marked(pub, b, p, c)
           e == [pub[i] EXCEPT !.bits = @ \cup {c}]
           E == EntryType
<1>1. /\ r \in RequestType /\ pub \in Seq(E) /\ n \in Nat /\ DOMAIN pub = 1..n
      /\ \A j \in 1..n : pub[j] \in E
      /\ pub # <<>> /\ i \in Nat /\ n >= 1
  <2>1. /\ r \in RequestType /\ pub \in Seq(E) /\ n \in Nat /\ DOMAIN pub = 1..n
        /\ \A j \in 1..n : pub[j] \in E
    BY RequestFields DEF Sound
  <2>2. i \in Nat /\ n >= 1
    BY <2>1
  <2>3. pub # <<>>
    BY <2>1, <2>2, EmptySeq
  <2> QED BY <2>1, <2>2, <2>3
<1>2. \A j \in 1..n : pub[j].batch = b.id <=> j = i
  BY DEF Sound, Apart
<1>3. /\ pub[i].start = p.position /\ pub[i].end = p.position + p.tokens
      /\ pub[i].reserved = b.reserved
  BY DEF Owns
<1>4. /\ e \in E /\ e.batch = b.id /\ e.start = p.position /\ e.end = p.position + p.tokens
      /\ e.reserved = b.reserved /\ e.bits = pub[i].bits \cup {c}
  BY <1>1, <1>3, EntryMarked
<1>5. /\ m \in Seq(E) /\ Len(m) = n /\ m[i] = e
      /\ \A j \in 1..n : j # i => m[j] = pub[j]
  <2>1. m = [j \in 1..n |-> IF pub[j].batch = b.id
                            THEN [pub[j] EXCEPT !.bits = @ \cup {c}] ELSE pub[j]]
    BY <1>1 DEF Marked
  <2>2. m[i] = e /\ \A j \in 1..n : j # i => m[j] = pub[j]
    BY <2>1, <1>2
  <2> HIDE DEF e, m, E
  <2>3. m \in [1..n -> E]
    <3>1. \A j \in 1..n : m[j] \in E
      BY <2>2, <1>1, <1>4
    <3>2. m = [j \in 1..n |-> m[j]]
      BY <2>1
    <3> QED BY <3>1, <3>2
  <2>4. m \in Seq(E) /\ Len(m) = n
    BY <2>3, <1>1, FunctionSeq
  <2> QED BY <2>2, <2>4
<1>6. q = [r EXCEPT !.publication = m]
  BY <1>1 DEF RequestType, Mark
<1>7. /\ q \in RequestType /\ q.publication = m /\ Same(r, q)
      /\ HistoryEnd(q) = HistoryEnd(r) /\ Position(q) = Position(r)
      /\ \A d : PhaseEnd(q, d) = PhaseEnd(r, d)
  <2>1. m \in Seq(EntryType)
    BY <1>5
  <2> HIDE DEF m, E
  <2> QED BY ONLY <1>1, <2>1, <1>6, Republished
<1> HIDE DEF m, e, E
<1>8. \A j \in 1..n : /\ m[j].start = pub[j].start /\ m[j].end = pub[j].end
                      /\ m[j].reserved = pub[j].reserved /\ m[j].batch = pub[j].batch
  BY <1>2, <1>3, <1>4, <1>5
<1>9. \A j \in 1..n : /\ j = i => m[j].bits = pub[j].bits \cup {c}
                      /\ j # i => m[j].bits = pub[j].bits
  BY <1>4, <1>5
<1>10. /\ \A j \in 1..n : /\ pub[j].start \in Nat /\ pub[j].end \in Nat
                          /\ pub[j].start < pub[j].end
                          /\ pub[j].end <= r.phase.target
                          /\ ~pub[j].reserved => n = 1 /\ pub[j].bits # {}
                          /\ j > 1 => pub[j].start = pub[j - 1].end
                                      /\ pub[j].bits \subseteq pub[j - 1].bits
       /\ r.phase.stage = "Encoder" /\ pub[1].start = r.end
  BY <1>1, EntryFields DEF Sound, Chunked, E
<1>11. \A j \in 1..n : c \in pub[j].bits => j < i
  <2> SUFFICES ASSUME \E j \in i..n : c \in pub[j].bits PROVE FALSE
    BY <1>1
  <2> DEFINE J == {j \in i..n : c \in pub[j].bits}
  <2>1. J \in SUBSET Nat /\ J # {}
    BY <1>1
  <2>2. PICK j \in J : \A k \in J : j <= k
    <3> HIDE DEF J
    <3> QED BY <2>1, LeastNat
  <2>3. j # i /\ j \in 1..n /\ j > 1 /\ j - 1 \in i..n
    BY <1>1, <2>2
  <2>4. c \in pub[j - 1].bits
    BY <1>10, <2>2, <2>3
  <2> QED BY <2>2, <2>3, <2>4
<1>12. i > 1 => c \in pub[i - 1].bits
  <2> SUFFICES ASSUME i > 1 PROVE c \in pub[i - 1].bits
    OBVIOUS
  <2>1. i - 1 \in 1..n /\ pub[i - 1].end = p.position /\ 1 \in 1..n /\ i - 1 \in Nat
    BY <1>1, <1>3, <1>10
  <2>2. \A j \in 1..n : j < i - 1 => pub[j].end < pub[i - 1].end
    BY <1>1, <1>10, <2>1, EndsGrow DEF Sound
  <2>3. CASE \A j \in 1..n : c \notin pub[j].bits
    <3>1. Expected(r, c) = PhaseEnd(r, c)
      BY ONLY <1>1, <2>3, ExpectedNone
    <3>2. PhaseEnd(r, c) = r.end
      BY <1>10, KindFacts DEF PhaseEnd, HistoryEnd
    <3>3. pub[1].start < pub[1].end /\ pub[1].end <= pub[i - 1].end
      BY <1>1, <1>10, <2>1, <2>2
    <3>4. pub[1].start \in Nat /\ pub[1].end \in Nat /\ pub[i - 1].end \in Nat
      BY <2>1, <1>10
    <3>5. pub[1].start = pub[i - 1].end
      BY <3>1, <3>2, <1>10, <2>1
    <3> QED BY ONLY <3>3, <3>4, <3>5
  <2>4. ASSUME NEW j \in 1..n, Reached(r, c, j), Expected(r, c) = pub[j].end
        PROVE  c \in pub[i - 1].bits
    <3>1. c \in pub[j].bits /\ j < i /\ j \in Nat
      BY <2>4, <1>1, <1>11 DEF Reached
    <3>2. j = i - 1
      BY <3>1, <2>1, <2>2, <2>4, <1>10
    <3> QED BY <3>1, <3>2
  <2> QED BY <2>3, <2>4, <1>1, ExpectedCases
<1>13. Sound(q)
  <2>1. ASSUME NEW j \in 1..n
        PROVE  /\ m[j].start < m[j].end /\ m[j].end <= q.phase.target
               /\ ~m[j].reserved => Len(m) = 1 /\ m[j].bits # {}
               /\ j > 1 => m[j].start = m[j - 1].end /\ m[j].bits \subseteq m[j - 1].bits
    <3>1. j > 1 => j - 1 \in 1..n
      BY <1>1
    <3>2. j > 1 => m[j].start = m[j - 1].end
      BY <3>1, <1>8, <1>10
    <3>3. j > 1 => m[j].bits \subseteq m[j - 1].bits
      <4> SUFFICES ASSUME j > 1 PROVE m[j].bits \subseteq m[j - 1].bits
        OBVIOUS
      <4>1. j - 1 \in 1..n /\ j - 1 # j /\ pub[j].bits \subseteq pub[j - 1].bits
        BY <3>1, <1>10
      <4>2. CASE j = i
        <5>1. m[j].bits = pub[i].bits \cup {c} /\ m[j - 1].bits = pub[i - 1].bits
          BY <4>1, <4>2, <1>9
        <5> QED BY <4>1, <4>2, <5>1, <1>12
      <4>3. CASE j # i
        <5>1. m[j].bits = pub[j].bits /\ pub[j - 1].bits \subseteq m[j - 1].bits
          BY <4>1, <4>3, <1>9
        <5> QED BY <4>1, <5>1
      <4> QED BY <4>2, <4>3
    <3>4. pub[j].bits # {} => m[j].bits # {}
      BY <1>9
    <3> QED BY <3>2, <3>3, <3>4, <1>5, <1>7, <1>8, <1>10 DEF Same
  <2>2. m # <<>> => q.phase.stage = "Encoder" /\ m[1].start = q.end
    BY <1>1, <1>7, <1>8, <1>10 DEF Same
  <2>3. Chunked(q)
    BY <2>1, <2>2, <1>5, <1>7 DEF Chunked
  <2>4. Apart(q.publication)
    BY <1>5, <1>7, <1>8 DEF Sound, Apart
  <2>5. PhaseFits(q)
    BY <1>7 DEF Sound, PhaseFits, Same
  <2>6. Len(q.publication) <= CAPACITY
    BY <1>5, <1>7 DEF Sound
  <2> QED BY <1>7, <2>3, <2>4, <2>5, <2>6 DEF Sound
<1>14. Expected(q, c) = p.position + p.tokens
  <2>1. /\ i \in 1..Len(q.publication) /\ c \in q.publication[i].bits
        /\ \A j \in 1..Len(q.publication) : c \in q.publication[j].bits => j <= i
        /\ q.publication[i].end = p.position + p.tokens
    BY <1>1, <1>4, <1>5, <1>7, <1>11
  <2> QED BY ONLY <1>7, <2>1, ExpectedLast
<1>15. ASSUME NEW d \in Cache \ {c} PROVE Expected(q, d) = Expected(r, d)
  <2>1. \A j \in 1..n : d \in m[j].bits <=> d \in pub[j].bits
    BY <1>9, <1>15
  <2>2. CASE \A j \in 1..n : d \notin pub[j].bits
    <3>1. \A j \in 1..Len(q.publication) : d \notin q.publication[j].bits
      BY <2>1, <2>2, <1>5, <1>7
    <3>2. Expected(q, d) = PhaseEnd(q, d)
      BY ONLY <3>1, <1>7, ExpectedNone
    <3>3. Expected(r, d) = PhaseEnd(r, d)
      BY ONLY <2>2, <1>1, ExpectedNone
    <3> QED BY <3>2, <3>3, <1>7
  <2>3. ASSUME NEW j \in 1..n, Reached(r, d, j), Expected(r, d) = pub[j].end
        PROVE  Expected(q, d) = Expected(r, d)
    <3>1. j \in 1..Len(q.publication) /\ d \in q.publication[j].bits
          /\ q.publication[j].end = pub[j].end
      BY <2>1, <2>3, <1>5, <1>7, <1>8 DEF Reached
    <3>2. \A k \in 1..Len(q.publication) : d \in q.publication[k].bits => k <= j
      BY <2>1, <2>3, <1>5, <1>7 DEF Reached
    <3>3. Expected(q, d) = q.publication[j].end
      BY ONLY <1>7, <3>1, <3>2, ExpectedLast
    <3> QED BY <2>3, <3>1, <3>3
  <2> QED BY <2>2, <2>3, <1>1, ExpectedCases
<1>16. Marking(r, q, b, p, c)
  BY <1>7, <1>13, <1>14, <1>15 DEF Marking
<1>17. MarkedEntries(r, q, b, p, c)
  <2>1. ASSUME NEW j \in 1..n
        PROVE  \/ /\ m[j].batch = b.id /\ m[j].start = p.position
                  /\ m[j].end = p.position + p.tokens /\ m[j].reserved = b.reserved
                  /\ \E k \in 1..n : pub[k].batch = b.id /\ m[j].bits = pub[k].bits \cup {c}
               \/ m[j] = pub[j] /\ m[j].batch # b.id
    BY <1>2, <1>4, <1>5
  <2> HIDE DEF n, pub
  <2>2. n = Len(r.publication) /\ pub = r.publication
    BY DEF n, pub
  <2> QED BY <2>1, <2>2, <1>5, <1>7 DEF MarkedEntries
<1>18. MarkedHistory(r, q, b)
  <2>1. b.reserved => PreparedEnd(q) = PreparedEnd(r)
    <3>1. n \in 1..n /\ m # <<>>
      BY <1>1, <1>5, EmptySeq
    <3> QED BY <3>1, <1>1, <1>5, <1>7, <1>8 DEF PreparedEnd
  <2>2. b.reserved => \E j \in 1..n : pub[j].reserved
    BY <1>3
  <2>3. ~b.reserved => \A j \in 1..Len(q.publication) : ~q.publication[j].reserved
    BY <1>3, <1>1, <1>5, <1>7, <1>8, <1>10
  <2> QED BY <2>1, <2>2, <2>3 DEF MarkedHistory
<1> QED BY <1>16, <1>17, <1>18

\* A reserved chunk commits: it is the oldest, it has reached every cache that the
\* prefill writes, and the request's frontier moves to its end.
LEMMA FinishedReserved ==
    ASSUME NEW r, Sound(r), r.phase.stage = "Encoder", NEW p \in PartType,
           r.publication # <<>>, r.publication[1].end = p.position + p.tokens,
           Writes("Encoder") \subseteq r.publication[1].bits,
           NEW q, q = Finished(r, p, p.tokens)
    PROVE  /\ Sound(q) /\ q.version = r.version + 1 /\ q.phase = r.phase
           /\ q.end = p.position + p.tokens /\ HistoryEnd(q) = p.position + p.tokens
           /\ q.end > r.end
           /\ q.publication = Tail(r.publication) /\ PreparedEnd(q) = PreparedEnd(r)
           /\ Len(q.publication) = Len(r.publication) - 1
           /\ \A j \in 1..Len(q.publication) :
                j + 1 \in 1..Len(r.publication) /\ q.publication[j] = r.publication[j + 1]
           /\ \A c \in Cache : Expected(q, c) = Expected(r, c)
<1> DEFINE pub == r.publication
           n == Len(pub)
           m == Tail(pub)
           E == EntryType
           next == p.position + p.tokens
<1>1. /\ r \in RequestType /\ pub \in Seq(E) /\ n \in Nat /\ DOMAIN pub = 1..n
      /\ \A j \in 1..n : pub[j] \in E
      /\ r.version \in Nat /\ r.end \in Nat /\ r.phase \in PhaseType
  BY RequestFields DEF Sound
<1>2. n >= 1 /\ 1 \in 1..n
  BY <1>1, EmptySeq
<1>3. /\ \A j \in 1..n : /\ pub[j].start \in Nat /\ pub[j].end \in Nat /\ pub[j].end \in Token
                         /\ pub[j].bits \subseteq Writes("Encoder")
                         /\ pub[j].start < pub[j].end /\ pub[j].end <= r.phase.target
                         /\ ~pub[j].reserved => n = 1 /\ pub[j].bits # {}
                         /\ j > 1 => pub[j].start = pub[j - 1].end
                                     /\ pub[j].bits \subseteq pub[j - 1].bits
      /\ pub[1].start = r.end
  BY <1>1, EntryFields DEF Sound, Chunked, E
<1>4. next \in Token /\ next > r.end
  BY <1>1, <1>2, <1>3
<1>5. /\ m \in Seq(E) /\ Len(m) = n - 1 /\ n - 1 \in Nat
      /\ \A j \in 1..n - 1 : j + 1 \in 1..n /\ m[j] = pub[j + 1]
  <2> HIDE DEF E
  <2> QED BY <1>1, <1>2
<1>6. /\ q \in RequestType /\ q.publication = m /\ q.version = r.version + 1
      /\ q.end = next /\ q.phase = r.phase
  <2> DEFINE P == Seq(EntryType)
             R == [version : Nat, end : Token, phase : PhaseType, publication : P]
             a == [r EXCEPT !.end = next]
  <2>1. r \in R /\ m \in P /\ R = RequestType
    BY <1>1, <1>5 DEF RequestType
  <2>2. Advanced(r, next) = a
    BY DEF Advanced
  <2>3. a \in R /\ a.publication = pub /\ a.version = r.version /\ a.phase = r.phase
        /\ a.end = next
    <3> HIDE DEF P
    <3> QED BY <2>1, <1>4
  <2>4. q = [a EXCEPT !.version = @ + 1,
                      !.publication = IF @ = <<>> THEN @ ELSE Tail(@)]
    BY <2>2 DEF Finished
  <2> HIDE DEF a, next, m
  <2>5. q = [a EXCEPT !.version = r.version + 1, !.publication = m]
    <3>1. a.publication # <<>> /\ Tail(a.publication) = m
      BY <2>3 DEF m
    <3> QED BY <2>3, <2>4, <3>1
  <2>6. r.version + 1 \in Nat
    BY <1>1
  <2>7. q \in R /\ q.publication = m /\ q.version = r.version + 1 /\ q.end = a.end
        /\ q.phase = a.phase
    <3> HIDE DEF P
    <3> QED BY <2>1, <2>3, <2>5, <2>6
  <2> QED BY <2>1, <2>3, <2>7
<1>7. HistoryEnd(q) = next
  BY <1>6 DEF HistoryEnd
<1> HIDE DEF m, E
<1>8. Sound(q)
  <2>1. m # <<>> => q.phase.stage = "Encoder" /\ m[1].start = q.end
    <3> SUFFICES ASSUME m # <<>> PROVE m[1].start = q.end
      BY <1>6
    <3>1. 1 \in 1..n - 1
      BY <1>5, EmptySeq
    <3>2. m[1] = pub[2] /\ 2 \in 1..n /\ pub[2].start = pub[1].end
      BY <3>1, <1>3, <1>5
    <3> QED BY <3>2, <1>6
  <2>2. ASSUME NEW j \in 1..n - 1
        PROVE  /\ m[j].start < m[j].end /\ m[j].end <= q.phase.target
               /\ ~m[j].reserved => Len(m) = 1 /\ m[j].bits # {}
               /\ j > 1 => m[j].start = m[j - 1].end /\ m[j].bits \subseteq m[j - 1].bits
    <3>1. m[j] = pub[j + 1] /\ j + 1 \in 1..n /\ j + 1 > 1 /\ (j + 1) - 1 = j
      BY <1>1, <1>5
    <3>2. j > 1 => j - 1 \in 1..n - 1 /\ (j - 1) + 1 = j
      BY <1>1
    <3>3. j > 1 => m[j - 1] = pub[j]
      BY <3>2, <1>5
    <3>4. n # 1
      BY <1>1
    <3> QED BY <3>1, <3>3, <3>4, <1>3, <1>6
  <2>3. Chunked(q)
    BY <2>1, <2>2, <1>5, <1>6 DEF Chunked
  <2>4. Apart(q.publication)
    <3>1. ASSUME NEW i \in 1..n - 1, NEW j \in 1..n - 1, m[i].batch = m[j].batch PROVE i = j
      <4>1. i + 1 = j + 1
        BY <3>1, <1>5 DEF Sound, Apart
      <4> QED BY <4>1, <1>1
    <3> QED BY <3>1, <1>5, <1>6 DEF Apart
  <2>5. PhaseFits(q)
    BY <1>6 DEF PhaseFits
  <2>6. Len(q.publication) <= CAPACITY
    BY <1>1, <1>5, <1>6, CapacityPositive DEF Sound
  <2> QED BY <1>6, <2>3, <2>4, <2>5, <2>6 DEF Sound
<1>9. ASSUME NEW c \in Cache PROVE Expected(q, c) = Expected(r, c)
  <2>1. CASE c \notin Writes("Encoder")
    <3>1. \A i \in 1..Len(r.publication) : c \notin r.publication[i].bits
      BY <2>1, <1>3
    <3>2. \A i \in 1..Len(q.publication) : c \notin q.publication[i].bits
      <4> SUFFICES ASSUME NEW j \in 1..n - 1 PROVE c \notin m[j].bits
        BY <1>5, <1>6
      <4>1. j + 1 \in 1..n /\ m[j] = pub[j + 1]
        BY <1>5
      <4> QED BY <4>1, <2>1, <1>3
    <3>3. PhaseEnd(r, c) = 0 /\ PhaseEnd(q, c) = 0
      BY <2>1, <1>6, KindFacts DEF PhaseEnd
    <3>4. Expected(q, c) = PhaseEnd(q, c)
      BY ONLY <3>2, <1>6, ExpectedNone
    <3>5. Expected(r, c) = PhaseEnd(r, c)
      BY ONLY <3>1, <1>1, ExpectedNone
    <3> QED BY <3>3, <3>4, <3>5
  <2>2. CASE c \in Writes("Encoder")
    <3>1. PICK i \in 1..n : Reached(r, c, i) /\ Expected(r, c) = pub[i].end
      BY <2>2, <1>1, <1>2, ExpectedCases
    <3>2. /\ c \in pub[i].bits /\ i \in Nat /\ i >= 1
          /\ \A j \in 1..n : c \in pub[j].bits => j <= i
      BY <3>1 DEF Reached
    <3>3. CASE i = 1
      <4>1. \A j \in 1..Len(q.publication) : c \notin q.publication[j].bits
        <5> SUFFICES ASSUME NEW j \in 1..n - 1, c \in m[j].bits PROVE FALSE
          BY <1>5, <1>6
        <5>1. j + 1 \in 1..n /\ c \in pub[j + 1].bits
          BY <1>5
        <5>2. j + 1 <= 1
          BY <3>2, <3>3, <5>1
        <5> QED BY <5>2, <1>1
      <4>2. Expected(q, c) = PhaseEnd(q, c)
        BY ONLY <4>1, <1>6, ExpectedNone
      <4>3. PhaseEnd(q, c) = q.end
        BY <2>2, <1>6, KindFacts DEF PhaseEnd, HistoryEnd
      <4> QED BY <3>1, <3>3, <4>2, <4>3, <1>6
    <3>4. CASE i > 1
      <4>1. i - 1 \in 1..n - 1 /\ (i - 1) + 1 = i
        BY <3>2, <3>4, <1>1
      <4>2. i - 1 \in 1..Len(q.publication) /\ q.publication[i - 1] = pub[i]
        BY <4>1, <1>5, <1>6
      <4>3. \A j \in 1..Len(q.publication) : c \in q.publication[j].bits => j <= i - 1
        <5> SUFFICES ASSUME NEW j \in 1..n - 1, c \in m[j].bits PROVE j <= i - 1
          BY <1>5, <1>6
        <5>1. j + 1 \in 1..n /\ c \in pub[j + 1].bits
          BY <1>5
        <5>2. j + 1 <= i
          BY <3>2, <5>1
        <5> QED BY <5>2, <3>2, <1>1
      <4>4. c \in q.publication[i - 1].bits
        BY <3>2, <4>2
      <4>5. Expected(q, c) = q.publication[i - 1].end
        BY ONLY <4>2, <4>3, <4>4, <1>6, ExpectedLast
      <4> QED BY <3>1, <4>2, <4>5
    <3> QED BY <3>2, <3>3, <3>4
  <2> QED BY <2>1, <2>2
<1>10. PreparedEnd(q) = PreparedEnd(r)
  <2>1. CASE n = 1
    <3>1. q.publication = <<>>
      BY <2>1, <1>5, <1>6, EmptySeq
    <3> QED BY <2>1, <3>1, <1>6 DEF PreparedEnd
  <2>2. CASE n > 1
    <3>1. n - 1 \in 1..n - 1 /\ (n - 1) + 1 = n
      BY <2>2, <1>1
    <3>2. q.publication # <<>> /\ q.publication[Len(q.publication)] = pub[n]
      BY <3>1, <1>5, <1>6, EmptySeq
    <3> QED BY <3>2 DEF PreparedEnd
  <2>3. n = 1 \/ n > 1
    <3> HIDE DEF n
    <3> QED BY <1>1, <1>2
  <2> QED BY <2>1, <2>2, <2>3
<1> QED BY <1>4, <1>5, <1>6, <1>7, <1>8, <1>9, <1>10 DEF m

\* How a phase moves on (v41_backbone_cache/ced.rs).
LEMMA AdvancedFields ==
    ASSUME NEW r, Sound(r), NEW next \in Token, next <= Extent(r.phase)
    PROVE  LET a == Advanced(r, next) IN
           /\ a \in RequestType /\ a.version = r.version /\ a.publication = r.publication
           /\ PhaseFits(a)
           /\ r.phase.stage \in {"Full", "Encoder"} => a.end = next /\ a.phase = r.phase
           /\ r.phase.stage = "EncoderReplay" =>
                /\ a.end = r.end /\ HistoryEnd(a) = next
                /\ a.phase.stage \in {"Encoder", "EncoderReplay"}
           /\ r.phase.stage = "Replay" =>
                /\ a.end = r.end
                /\ IF next = r.end THEN a.phase = Full
                   ELSE a.phase.stage = "Replay" /\ a.phase.end = next
<1> DEFINE P == Seq(EntryType)
           R == [version : Nat, end : Token, phase : PhaseType, publication : P]
           a == Advanced(r, next)
<1>1. /\ r \in RequestType /\ r.phase \in PhaseType /\ r.end \in Token /\ R = RequestType
      /\ next \in Nat
  BY RequestFields, BankConstants DEF Sound, RequestType, Token
<1>2. /\ r.phase.stage \in Stage /\ r.phase.prefix \in Token /\ r.phase.target \in Token
      /\ r.phase.end \in Token
      /\ r.phase.stage = "Full" => r.phase = Full
  BY <1>1, PhaseFields
<1>3. r \in R
  BY <1>1
<1> HIDE DEF P
<1>4. CASE r.phase.stage \in {"Full", "Encoder"}
  <2>1. a = [r EXCEPT !.end = next]
    BY <1>4 DEF Advanced
  <2>2. /\ a \in R /\ a.version = r.version /\ a.publication = r.publication
        /\ a.end = next /\ a.phase = r.phase
    BY <1>3, <2>1
  <2>3. PhaseFits(a)
    BY <1>4, <2>2 DEF PhaseFits
  <2> QED BY <1>1, <1>4, <2>2, <2>3
<1>5. CASE r.phase.stage = "EncoderReplay"
  <2> DEFINE f == IF next = r.phase.prefix THEN Encoder(r.phase.target)
                  ELSE EncoderReplay(r.phase.prefix, r.phase.target, next)
  <2>1. a = [r EXCEPT !.phase = f]
    BY <1>5 DEF Advanced
  <2>2. r.phase.prefix = r.end /\ r.phase.target > 0
    BY <1>5 DEF Sound, PhaseFits
  <2>3. f \in PhaseType
    BY <1>2, <2>2, PhasesTyped
  <2>4. /\ f.stage \in {"Encoder", "EncoderReplay"}
        /\ f.stage = "Encoder" => next = r.end
        /\ f.stage = "EncoderReplay" => f.prefix = r.end /\ f.target > 0 /\ f.end = next
    BY <2>2 DEF Encoder, EncoderReplay
  <2> HIDE DEF f
  <2>5. /\ a \in R /\ a.version = r.version /\ a.publication = r.publication
        /\ a.end = r.end /\ a.phase = f
    BY <1>3, <2>1, <2>3
  <2>6. PhaseFits(a) /\ HistoryEnd(a) = next
    BY <2>4, <2>5 DEF PhaseFits, HistoryEnd
  <2> QED BY <1>1, <1>5, <2>4, <2>5, <2>6
<1>6. CASE r.phase.stage = "Replay"
  <2> DEFINE f == IF next = r.phase.target THEN Full ELSE Replay(r.phase.target, next)
  <2>1. a = [r EXCEPT !.phase = f]
    BY <1>6 DEF Advanced
  <2>2. r.phase.target = r.end
    BY <1>6 DEF Sound, PhaseFits
  <2>3. f \in PhaseType
    BY <1>2, <2>2, PhasesTyped
  <2>4. /\ f.stage \in {"Full", "Replay"}
        /\ f.stage = "Replay" => f.target = r.end /\ f.end = next
        /\ IF next = r.end THEN f = Full ELSE f.stage = "Replay"
    BY <2>2 DEF Full, Replay
  <2> HIDE DEF f
  <2>5. /\ a \in R /\ a.version = r.version /\ a.publication = r.publication
        /\ a.end = r.end /\ a.phase = f
    BY <1>3, <2>1, <2>3
  <2>6. PhaseFits(a)
    BY <2>4, <2>5 DEF PhaseFits
  <2> QED BY <1>1, <1>6, <2>4, <2>5, <2>6
<1> QED BY <1>2, <1>4, <1>5, <1>6 DEF Stage

\* An unreserved batch commits: the caches that it has not published move by the
\* rows accepted, and so do the request and its history, as their phase says.
LEMMA FinishedWhole ==
    ASSUME NEW r, Sound(r), NEW p \in PartType, NEW n \in 0..p.tokens,
           Position(r) = p.position, p.position + p.tokens <= Extent(r.phase),
           r.publication # <<>> =>
              /\ Len(r.publication) = 1 /\ r.publication[1].end = p.position + p.tokens
              /\ n = p.tokens,
           NEW T, T = Writes(r.phase.stage)
                        \ (IF r.publication = <<>> THEN {} ELSE r.publication[1].bits),
           NEW q, q = Finished(r, p, n)
    PROVE  /\ Sound(q) /\ q.version = r.version + 1 /\ q.publication = <<>>
           /\ q.end >= r.end
           /\ r.publication # <<>> => q.end = r.publication[1].end
           /\ HistoryEnd(q) = IF r.phase.stage = "Replay" THEN HistoryEnd(r) ELSE HistoryEnd(r) + n
           /\ \A c \in Cache :
                Expected(q, c) = IF c \in T THEN p.position + n ELSE Expected(r, c)
<1> DEFINE pub == r.publication
           next == p.position + n
           a == Advanced(r, next)
           stage == r.phase.stage
<1>1. /\ r \in RequestType /\ r.version \in Nat /\ r.end \in Nat /\ r.phase \in PhaseType
      /\ pub \in Seq(EntryType)
      /\ p.position \in Nat /\ p.tokens \in Nat /\ n \in Nat /\ n <= p.tokens
  <2>1. p.position \in Token /\ p.tokens \in Token
    BY DEF PartType
  <2>2. p.position \in Nat /\ p.tokens \in Nat
    BY <2>1, BankConstants DEF Token
  <2> QED BY <2>2, RequestFields DEF Sound
<1>2. /\ stage \in Stage /\ r.phase.end \in Nat /\ Extent(r.phase) \in Token
      /\ stage = "Full" => r.phase = Full
  BY <1>1, PhaseFields, BankConstants DEF Extent, Token
<1>3. next \in Token /\ next <= Extent(r.phase)
  BY <1>1, <1>2, BankConstants DEF Token
<1>4. /\ a \in RequestType /\ a.version = r.version /\ a.publication = pub /\ PhaseFits(a)
      /\ stage \in {"Full", "Encoder"} => a.end = next /\ a.phase = r.phase
      /\ stage = "EncoderReplay" => /\ a.end = r.end /\ HistoryEnd(a) = next
                                    /\ a.phase.stage \in {"Encoder", "EncoderReplay"}
      /\ stage = "Replay" => /\ a.end = r.end
                             /\ IF next = r.end THEN a.phase = Full
                                ELSE a.phase.stage = "Replay" /\ a.phase.end = next
  BY <1>3, AdvancedFields
<1> HIDE DEF a, next
<1>5. /\ q \in RequestType /\ q.publication = <<>> /\ q.version = r.version + 1
      /\ q.end = a.end /\ q.phase = a.phase
  <2> DEFINE P == Seq(EntryType)
             R == [version : Nat, end : Token, phase : PhaseType, publication : P]
  <2>1. a \in R /\ <<>> \in P /\ R = RequestType
    <3>1. <<>> \in P
      OBVIOUS
    <3> QED BY <1>4, <3>1 DEF RequestType
  <2>2. q = [a EXCEPT !.version = @ + 1, !.publication = IF @ = <<>> THEN @ ELSE Tail(@)]
    BY DEF Finished, a, next
  <2>3. (IF pub = <<>> THEN pub ELSE Tail(pub)) = <<>>
    <3>1. CASE pub = <<>>
      BY <3>1
    <3>2. CASE pub # <<>>
      <4>1. Len(pub) = 1
        BY <3>2
      <4>2. Tail(pub) \in P /\ Len(Tail(pub)) = 0
        <5> DEFINE E == EntryType
        <5>1. pub \in Seq(E)
          BY <1>1
        <5> HIDE DEF E
        <5>2. Tail(pub) \in Seq(E) /\ Len(Tail(pub)) = 0
          BY <4>1, <5>1, <3>2
        <5> QED BY <5>2 DEF E
      <4> QED BY <3>2, <4>2, EmptySeq
    <3> QED BY <3>1, <3>2
  <2> HIDE DEF P, pub
  <2>4. q = [a EXCEPT !.version = r.version + 1, !.publication = <<>>]
    BY <1>4, <2>2, <2>3
  <2>5. r.version + 1 \in Nat
    BY <1>1
  <2> QED BY <2>1, <2>4, <2>5
<1>6. Sound(q)
  <2>1. Chunked(q) /\ Apart(q.publication) /\ PhaseFits(q) /\ Len(q.publication) <= CAPACITY
    BY <1>4, <1>5, CapacityPositive DEF Chunked, Apart, PhaseFits
  <2> QED BY <1>5, <2>1 DEF Sound
<1>7. HistoryEnd(q) = HistoryEnd(a) /\ \A c \in Cache : Expected(q, c) = PhaseEnd(q, c)
  <2>1. HistoryEnd(q) = HistoryEnd(a)
    BY <1>5 DEF HistoryEnd
  <2>2. ASSUME NEW c \in Cache PROVE Expected(q, c) = PhaseEnd(q, c)
    <3>1. \A i \in 1..Len(q.publication) : c \notin q.publication[i].bits
      BY <1>5
    <3> QED BY ONLY <1>5, <3>1, ExpectedNone
  <2> QED BY <2>1, <2>2
<1>8. pub # <<>> =>
          /\ stage = "Encoder"
          /\ pub[1].bits \subseteq Writes("Encoder")
          /\ \A c \in pub[1].bits : Expected(r, c) = pub[1].end
          /\ \A c \in Cache \ pub[1].bits : Expected(r, c) = PhaseEnd(r, c)
  <2> SUFFICES ASSUME pub # <<>>
               PROVE  /\ stage = "Encoder"
                      /\ pub[1].bits \subseteq Writes("Encoder")
                      /\ \A c \in pub[1].bits : Expected(r, c) = pub[1].end
                      /\ \A c \in Cache \ pub[1].bits : Expected(r, c) = PhaseEnd(r, c)
    OBVIOUS
  <2>1. Len(pub) = 1 /\ 1..Len(pub) = {1}
    <3>1. Len(pub) = 1
      OBVIOUS
    <3> HIDE DEF pub
    <3> QED BY <3>1
  <2>2. stage = "Encoder"
    BY DEF Sound, Chunked
  <2>3. pub[1].bits \subseteq Writes("Encoder")
    BY <1>1, <2>1, RequestFields, EntryFields
  <2>4. ASSUME NEW c \in pub[1].bits PROVE Expected(r, c) = pub[1].end
    BY <1>1, <2>1, ExpectedLast
  <2>5. ASSUME NEW c \in Cache \ pub[1].bits PROVE Expected(r, c) = PhaseEnd(r, c)
    BY <1>1, <2>1, ExpectedNone
  <2> QED BY <2>2, <2>3, <2>4, <2>5
<1>9. pub = <<>> => \A c \in Cache : Expected(r, c) = PhaseEnd(r, c)
  BY <1>1, ExpectedNone
<1>10. next = p.position + n
  BY DEF next
<1>11. CASE stage = "Full"
  <2>1. pub = <<>> /\ q.end = next /\ q.phase = Full /\ r.phase = Full
    BY <1>2, <1>4, <1>5, <1>8, <1>11
  <2>2. HistoryEnd(q) = next /\ HistoryEnd(r) = p.position /\ r.end = p.position
    BY <2>1 DEF HistoryEnd, Position, Full
  <2>3. T = Cache
    BY <1>11, <2>1, KindFacts
  <2>4. \A c \in Cache : PhaseEnd(q, c) = next
    BY <2>1, <2>2, KindFacts DEF PhaseEnd, Full
  <2> QED BY <1>1, <1>5, <1>6, <1>7, <1>10, <1>11, <2>1, <2>2, <2>3, <2>4
<1>12. CASE stage = "Encoder"
  <2>1. q.end = next /\ q.phase = r.phase
    BY <1>4, <1>5, <1>12
  <2>2. HistoryEnd(q) = next /\ HistoryEnd(r) = p.position /\ r.end = p.position
    BY <1>12, <2>1 DEF HistoryEnd, Position
  <2>3. \A c \in Cache : PhaseEnd(q, c) = IF c \in Writes("Encoder") THEN next ELSE 0
    BY <1>12, <2>1, <2>2, KindFacts DEF PhaseEnd
  <2>4. \A c \in Cache : PhaseEnd(r, c) = IF c \in Writes("Encoder") THEN r.end ELSE 0
    BY <1>12, <2>2, KindFacts DEF PhaseEnd
  <2>5. \A c \in Cache : Expected(q, c) = IF c \in T THEN next ELSE Expected(r, c)
    <3>1. CASE pub = <<>>
      <4>1. T = Writes("Encoder")
        BY <1>12, <3>1
      <4> QED BY <1>7, <1>9, <2>3, <2>4, <3>1, <4>1
    <3>2. CASE pub # <<>>
      <4>1. T = Writes("Encoder") \ pub[1].bits /\ pub[1].end = next
        BY <1>10, <1>12, <3>2
      <4> QED BY <1>7, <1>8, <2>3, <2>4, <3>2, <4>1
    <3> QED BY <3>1, <3>2
  <2>6. pub # <<>> => q.end = pub[1].end
    BY <1>10, <2>1
  <2>7. next >= p.position
    BY <1>1, <1>10
  <2> QED BY <1>1, <1>5, <1>6, <1>10, <1>12, <2>1, <2>2, <2>5, <2>6, <2>7
<1>13. CASE stage = "EncoderReplay"
  <2>1. pub = <<>> /\ q.end = r.end /\ HistoryEnd(q) = next /\ q.phase = a.phase
    BY <1>4, <1>5, <1>7, <1>8, <1>13
  <2>2. HistoryEnd(r) = p.position
    BY <1>13 DEF HistoryEnd, Position
  <2>3. T = {c \in Cache : Kinds[c] = "encoder"}
    BY <1>13, <2>1, KindFacts
  <2>4. a.phase.stage \in {"Encoder", "EncoderReplay"}
    BY <1>4, <1>13
  <2>5. \A c \in Cache : PhaseEnd(q, c) = IF c \in T THEN next ELSE PhaseEnd(r, c)
    BY <1>13, <2>1, <2>3, <2>4, KindFacts DEF PhaseEnd
  <2> QED BY <1>1, <1>5, <1>6, <1>7, <1>9, <1>10, <1>13, <2>1, <2>2, <2>5
<1>14. CASE stage = "Replay"
  <2>1. pub = <<>> /\ q.end = r.end /\ q.phase = a.phase
    BY <1>4, <1>5, <1>8, <1>14
  <2>2. HistoryEnd(q) = r.end /\ HistoryEnd(r) = r.end
    BY <1>4, <1>14, <2>1 DEF HistoryEnd, Full
  <2>3. T = {c \in Cache : Kinds[c] = "decoder"}
    BY <1>14, <2>1, KindFacts
  <2>4. \A c \in T : PhaseEnd(q, c) = next
    BY <1>4, <1>14, <2>1, <2>3 DEF PhaseEnd, Full
  <2>5. \A c \in Cache \ T : PhaseEnd(q, c) = PhaseEnd(r, c)
    BY <2>1, <2>2, <2>3, KindFacts DEF PhaseEnd
  <2> QED BY <1>1, <1>5, <1>6, <1>7, <1>9, <1>10, <1>14, <2>1, <2>2, <2>4, <2>5
<1> QED BY <1>2, <1>11, <1>12, <1>13, <1>14 DEF Stage

-----------------------------------------------------------------------------
(* Batch ids. *)

\* A lane without a batch finds an id that nothing uses.
LEMMA FreshIdUnused ==
    ASSUME RequestsInv, NEW l \in Lane, batches[l] = None
    PROVE  /\ FreshId \in BatchId /\ FreshId \in Nat
           /\ \A k \in Lane : Batch(k) => batches[k].id # FreshId
           /\ \A s \in Slot : requests[s] # None =>
                \A i \in 1..Len(requests[s].publication) :
                    requests[s].publication[i].batch # FreshId
<1> DEFINE busy == {k \in Lane : batches[k] # None}
           live == {t \in Slot : requests[t] # None}
           lanes == {batches[k].id : k \in busy}
           ids(s) == {requests[s].publication[i].batch : i \in DOMAIN requests[s].publication}
           chunks == UNION {ids(s) : s \in live}
           f == [s \in live |-> ids(s)]
<1>1. /\ IsFiniteSet(Slot) /\ IsFiniteSet(Lane) /\ CAPACITY \in Nat
      /\ Cardinality(Slot) \in Nat /\ Cardinality(Lane) \in Nat
  BY BankConstants, FS_CardinalityType
<1>2. IsFiniteSet(lanes) /\ Cardinality(lanes) \in Nat /\ Cardinality(lanes) < Cardinality(Lane)
  <2> DEFINE g == [k \in busy |-> batches[k].id]
  <2>1. /\ IsFiniteSet(Lane \ {l}) /\ Cardinality(Lane \ {l}) = Cardinality(Lane) - 1
        /\ busy \subseteq Lane \ {l}
    BY <1>1, FS_RemoveElement
  <2>2. /\ IsFiniteSet(busy) /\ Cardinality(busy) <= Cardinality(Lane) - 1
        /\ Cardinality(busy) \in Nat
    BY <2>1, FS_Subset, FS_CardinalityType
  <2>3. DOMAIN g = busy /\ lanes = {g[k] : k \in busy}
    OBVIOUS
  <2> HIDE DEF g, busy
  <2>4. /\ IsFiniteSet({g[k] : k \in busy}) /\ Cardinality({g[k] : k \in busy}) \in Nat
        /\ Cardinality({g[k] : k \in busy}) <= Cardinality(busy)
    BY <2>2, <2>3, ImageCount
  <2> HIDE DEF lanes
  <2> QED BY <1>1, <2>2, <2>3, <2>4
<1>3. \A s \in live : IsFiniteSet(f[s]) /\ Cardinality(f[s]) <= CAPACITY
  <2> SUFFICES ASSUME NEW s \in live PROVE IsFiniteSet(ids(s)) /\ Cardinality(ids(s)) <= CAPACITY
    OBVIOUS
  <2> DEFINE n == Len(requests[s].publication)
             g == [i \in 1..n |-> requests[s].publication[i].batch]
  <2>1. DOMAIN requests[s].publication = 1..n /\ n \in Nat /\ n <= CAPACITY
    BY RequestFields DEF RequestsInv, Sound
  <2>2. DOMAIN g = 1..n /\ ids(s) = {g[i] : i \in 1..n}
    BY <2>1
  <2> HIDE DEF n, g
  <2>3. IsFiniteSet(1..n) /\ Cardinality(1..n) = n
    <3>1. IsFiniteSet(1..n) /\ Cardinality(1..n) = IF 1 > n THEN 0 ELSE n - 1 + 1
      BY <2>1, FS_Interval
    <3> QED BY <2>1, <3>1
  <2>4. /\ IsFiniteSet({g[i] : i \in 1..n}) /\ Cardinality({g[i] : i \in 1..n}) \in Nat
        /\ Cardinality({g[i] : i \in 1..n}) <= Cardinality(1..n)
    <3> DEFINE D == 1..n
    <3>1. IsFiniteSet(D) /\ DOMAIN g = D
      BY <2>2, <2>3
    <3> HIDE DEF D
    <3>2. /\ IsFiniteSet({g[i] : i \in D}) /\ Cardinality({g[i] : i \in D}) \in Nat
          /\ Cardinality({g[i] : i \in D}) <= Cardinality(D)
      BY <3>1, ImageCount
    <3> QED BY <3>2 DEF D
  <2> HIDE DEF ids
  <2> QED BY <1>1, <2>1, <2>2, <2>3, <2>4
<1>4. /\ IsFiniteSet(chunks) /\ Cardinality(chunks) \in Nat
      /\ Cardinality(chunks) <= CAPACITY * Cardinality(Slot)
  <2>1. IsFiniteSet(live) /\ Cardinality(live) <= Cardinality(Slot) /\ Cardinality(live) \in Nat
    BY <1>1, FS_Subset, FS_CardinalityType
  <2>2. chunks = UNION {f[s] : s \in live}
    <3>1. \A s \in live : f[s] = ids(s)
      OBVIOUS
    <3> HIDE DEF f, ids, live
    <3> QED BY <3>1
  <2> HIDE DEF f, live, chunks
  <2>3. Bounded(f, live, CAPACITY * Cardinality(live))
    BY <1>1, <1>3, <2>1, UnionCount
  <2>4. IsFiniteSet(chunks) /\ Cardinality(chunks) <= CAPACITY * Cardinality(live)
    BY <2>2, <2>3 DEF Bounded
  <2>5. Cardinality(chunks) \in Nat
    BY <2>4, FS_CardinalityType
  <2>6. /\ CAPACITY * Cardinality(live) <= CAPACITY * Cardinality(Slot)
        /\ CAPACITY * Cardinality(live) \in Nat /\ CAPACITY * Cardinality(Slot) \in Nat
    BY <1>1, <2>1
  <2> QED BY <2>4, <2>5, <2>6
<1>5. UsedIds = lanes \cup chunks
  BY DEF UsedIds
<1> HIDE DEF lanes, chunks
<1>6. IsFiniteSet(UsedIds) /\ Cardinality(UsedIds) \in Nat
      /\ Cardinality(UsedIds) < Cardinality(Lane) + CAPACITY * Cardinality(Slot)
  <2>1. /\ IsFiniteSet(lanes \cup chunks) /\ IsFiniteSet(lanes \cap chunks)
        /\ Cardinality(lanes \cup chunks)
              = Cardinality(lanes) + Cardinality(chunks) - Cardinality(lanes \cap chunks)
    BY <1>2, <1>4, FS_Union, FS_Intersection
  <2>2. Cardinality(lanes \cap chunks) \in Nat /\ Cardinality(lanes \cup chunks) \in Nat
    BY <2>1, FS_CardinalityType
  <2>3. CAPACITY * Cardinality(Slot) \in Nat
    BY <1>1
  <2> QED BY <1>1, <1>2, <1>4, <1>5, <2>1, <2>2, <2>3
<1>7. BatchId \ UsedIds # {} /\ BatchId \in SUBSET Nat
  <2> DEFINE N == Cardinality(Lane) + CAPACITY * Cardinality(Slot)
  <2>1. N \in Nat /\ BatchId = 1..N
    BY <1>1 DEF BatchId
  <2> HIDE DEF N
  <2>2. Cardinality(BatchId) = N
    <3>1. Cardinality(1..N) = IF 1 > N THEN 0 ELSE N - 1 + 1
      BY <2>1, FS_Interval
    <3> QED BY <2>1, <3>1
  <2>3. ASSUME BatchId \subseteq UsedIds PROVE FALSE
    <3>1. Cardinality(BatchId) <= Cardinality(UsedIds)
      BY <1>6, <2>3, FS_Subset
    <3> QED BY <1>6, <2>1, <2>2, <3>1 DEF N
  <2> QED BY <2>1, <2>3
<1>8. FreshId \in BatchId \ UsedIds
  BY <1>7, MinProperties DEF FreshId
<1>9. \A k \in Lane : Batch(k) => batches[k].id \in UsedIds
  BY DEF UsedIds, Batch
<1>10. \A s \in Slot : requests[s] # None =>
          \A i \in 1..Len(requests[s].publication) : requests[s].publication[i].batch \in UsedIds
  <2>1. \A s \in Slot : requests[s] # None =>
            DOMAIN requests[s].publication = 1..Len(requests[s].publication)
    BY RequestFields DEF RequestsInv, Sound
  <2> QED BY <2>1 DEF UsedIds
<1> QED BY <1>7, <1>8, <1>9, <1>10

-----------------------------------------------------------------------------
(* Steps that change one slot: admission, phases and prefixes. *)

\* A new bank satisfies the inductive invariant.
LEMMA InitHolds == BankInit => BankInv
<1> SUFFICES ASSUME BankInit PROVE BankInv
  OBVIOUS
<1> USE DEF BankInit
<1>1. RequestsInv
  BY DEF RequestsInv
<1>2. CachesInv
  <2>1. Bare \in CacheType /\ Bare.lease = 0
    BY BankConstants DEF Bare, CacheType, Lease, Token
  <2> QED BY <2>1 DEF CachesInv, Follows
<1>3. HistoriesInv
  BY DEF HistoriesInv
<1>4. BatchesInv
  BY DEF BatchesInv, Batch
<1>5. WavesInv
  BY DEF WavesInv, NoWaves
<1>6. WritesInv
  BY DEF WritesInv, Writer, Pending, NoWaves, Bare
<1>7. copies \in [Lane -> CopyType \cup {None}]
  OBVIOUS
<1> QED BY <1>1, <1>2, <1>3, <1>4, <1>5, <1>6, <1>7 DEF BankInv

\* What a step leaves alone, and what it makes of the slot it is about.
Elsewhere(s) ==
    /\ generations' \in [Slot -> Nat] /\ requests' \in [Slot -> RequestType \cup {None}]
    /\ histories' \in [Slot -> HistoryType \cup {None}]
    /\ caches' \in [Cache -> [Slot -> CacheType]]
    /\ \A t \in Slot \ {s} :
        /\ generations'[t] = generations[t] /\ requests'[t] = requests[t]
        /\ histories'[t] = histories[t]
    /\ \A c \in Cache, t \in Slot \ {s} : caches'[c][t] = caches[c][t]
    /\ batches' = batches /\ waves' = waves /\ copies' = copies
Here(s) ==
    /\ requests'[s] # None => Sound(requests'[s]) /\ requests'[s].publication = <<>>
    /\ \A c \in Cache :
        /\ Follows(caches'[c][s], requests'[s], generations'[s], c)
        /\ \/ ~caches[c][s].writing /\ ~caches'[c][s].writing
           \/ /\ caches'[c][s] = caches[c][s] /\ generations'[s] = generations[s]
              /\ requests'[s] # None
    /\ histories'[s] # None /\ requests'[s] # None /\ generations'[s] = histories'[s].lease
        => Agrees(histories'[s], requests'[s])
    /\ generations'[s] >= generations[s]
    /\ generations'[s] = generations[s] /\ requests'[s] # None =>
        /\ requests[s] # None /\ requests'[s].version > requests[s].version
        /\ histories'[s] = histories[s] \/ (histories'[s] # None => histories'[s].prepared = None)

\* The fields of a batch in flight.
LEMMA BatchFields ==
    ASSUME BatchesInv, NEW l \in Lane, Batch(l)
    PROVE  /\ batches[l].id \in BatchId /\ batches[l].stage \in Stage
           /\ batches[l].reserved \in BOOLEAN
           /\ DOMAIN batches[l].of \subseteq Slot
           /\ \A s \in DOMAIN batches[l].of : batches[l].of[s] \in PartType
<1>1. PICK S \in SUBSET Slot : batches[l] \in BatchType(S)
  BY DEF BatchesInv
<1> QED BY <1>1 DEF BatchType

\* The fields of one request's part in a batch.
LEMMA PartFields ==
    ASSUME NEW p \in PartType
    PROVE  /\ p.lease \in Nat /\ p.version \in Nat /\ p.position \in Token /\ p.tokens \in Token
           /\ p.position \in Nat /\ p.tokens \in Nat /\ p.tokens > 0
  BY BankConstants DEF PartType, Lease, Token

\* A step that changes one slot soundly, and nothing elsewhere, keeps the invariant.
LEMMA SlotKeeps ==
    ASSUME BankInv, NEW s \in Slot, Elsewhere(s), Here(s)
    PROVE  BankInv'
<1> USE DEF BankInv
<1>1. RequestsInv'
  BY DEF RequestsInv, Elsewhere, Here
<1>2. CachesInv'
  BY DEF CachesInv, Elsewhere, Here
<1>3. HistoriesInv'
  BY DEF HistoriesInv, Elsewhere, Here
<1>4. BatchesInv'
  <2>1. \A l \in Lane : Batch(l)' = Batch(l)
    BY DEF Batch, Elsewhere
  <2>2. ASSUME NEW l \in Lane, Batch(l), NEW t \in DOMAIN batches[l].of
        PROVE  Fits(batches[l], batches[l].of[t], requests'[t], histories'[t], generations'[t])
    <3> DEFINE b == batches[l]
               p == b.of[t]
    <3>1. t \in Slot /\ p \in PartType /\ p.lease \in Nat /\ p.version \in Nat
      BY <2>2, BatchFields, PartFields
    <3>2. Fits(b, p, requests[t], histories[t], generations[t])
      BY <2>2 DEF BatchesInv
    <3>3. CASE t # s
      BY <3>1, <3>2, <3>3 DEF Elsewhere
    <3>4. CASE t = s
      <4>1. generations[s] \in Nat /\ generations'[s] \in Nat /\ generations'[s] >= generations[s]
        BY DEF RequestsInv, Elsewhere, Here
      <4>2. p.lease <= generations'[s]
        BY <3>1, <3>2, <3>4, <4>1 DEF Fits
      <4>3. ASSUME requests'[s] # None, generations'[s] = p.lease
            PROVE  /\ Owns(b, p, requests'[s]) /\ Planned(b, p, requests'[s])
                   /\ Alone(b, histories'[s])
        <5>1. generations'[s] = generations[s]
          BY <3>1, <3>2, <3>4, <4>1, <4>3 DEF Fits
        <5>2. /\ requests[s] # None /\ requests'[s].version > requests[s].version
              /\ \/ histories'[s] = histories[s]
                 \/ histories'[s] # None => histories'[s].prepared = None
          BY <4>3, <5>1 DEF Here
        <5>3. Planned(b, p, requests[s]) /\ Alone(b, histories[s])
          BY <3>2, <3>4, <4>3, <5>1, <5>2 DEF Fits
        <5>4. requests[s].version \in Nat /\ requests'[s].version \in Nat
          BY <4>3, <5>2, RequestFields DEF RequestsInv, Elsewhere
        <5>5. Owns(b, p, requests'[s])
          BY <4>3 DEF Owns, Here
        <5>6. Planned(b, p, requests'[s])
          BY <3>1, <5>2, <5>3, <5>4 DEF Planned
        <5>7. Alone(b, histories'[s])
          BY <5>2, <5>3 DEF Alone
        <5> QED BY <5>5, <5>6, <5>7
      <4> QED BY <3>4, <4>2, <4>3 DEF Fits
    <3> QED BY <3>3, <3>4
  <2> QED BY <2>1, <2>2 DEF BatchesInv, Elsewhere
<1>5. WavesInv'
  <2>1. \A l \in Lane : Batch(l)' = Batch(l)
    BY DEF Batch, Elsewhere
  <2>2. ASSUME NEW l \in Lane, NEW c \in Cache, waves[l][c] # None,
               NEW t \in DOMAIN batches[l].of,
               requests'[t] # None, generations'[t] = batches[l].of[t].lease
        PROVE  Unpublished(batches[l], c, requests'[t])
    <3>1. Batch(l) /\ t \in Slot
      BY <2>2, BatchFields DEF WavesInv
    <3>2. CASE t # s
      <4>1. requests'[t] = requests[t] /\ generations'[t] = generations[t]
        BY <3>1, <3>2 DEF Elsewhere
      <4> QED BY <2>2, <4>1 DEF WavesInv
    <3>3. CASE t = s
      BY <2>2, <3>3 DEF Unpublished, Here
    <3> QED BY <3>2, <3>3
  <2> QED BY <2>1, <2>2 DEF WavesInv, Elsewhere
<1>6. WritesInv'
  <2>1. \A l \in Lane, c \in Cache, t \in Slot : Writer(l, c, t)' = Writer(l, c, t)
    BY DEF Writer, Pending, Elsewhere
  <2>2. ASSUME NEW c \in Cache, NEW t \in Slot,
               caches[c][t].writing \/ caches'[c][t].writing
        PROVE  /\ caches'[c][t] = caches[c][t] /\ generations'[t] = generations[t]
               /\ requests[t] # None => requests'[t] # None
    <3>1. CASE t # s
      BY <3>1 DEF Elsewhere
    <3>2. CASE t = s
      BY <2>2, <3>2 DEF Here
    <3> QED BY <3>1, <3>2
  <2>3. ASSUME NEW c \in Cache, NEW t \in Slot, caches'[c][t].writing
        PROVE  \E l \in Lane : Writer(l, c, t)
    BY <2>2, <2>3 DEF WritesInv
  <2>4. ASSUME NEW l \in Lane, NEW c \in Cache, NEW t \in Slot, Writer(l, c, t)
        PROVE  /\ caches'[c][t].writing
               /\ Right(waves'[l][c].of[t], caches'[c][t], requests'[t], generations'[t])
    <3>1. /\ caches[c][t].writing
          /\ Right(waves[l][c].of[t], caches[c][t], requests[t], generations[t])
      BY <2>4 DEF WritesInv
    <3>2. /\ caches'[c][t] = caches[c][t] /\ generations'[t] = generations[t]
          /\ requests[t] # None => requests'[t] # None
      BY <2>2, <3>1
    <3>3. waves' = waves
      BY DEF Elsewhere
    <3> QED BY <3>1, <3>2, <3>3 DEF Right
  <2> QED BY <2>1, <2>3, <2>4 DEF WritesInv
<1>7. copies' \in [Lane -> CopyType \cup {None}]
  BY DEF Elsewhere
<1> QED BY <1>1, <1>2, <1>3, <1>4, <1>5, <1>6, <1>7

\* Nothing writes to a cache that is not the request's.
LEMMA QuietCache ==
    ASSUME WritesInv, NEW c \in Cache, NEW s \in Slot, caches[c][s].writing
    PROVE  requests[s] # None /\ caches[c][s].lease = generations[s]
  BY DEF WritesInv, Right

\* A cache begun for a lease has that lease, that end and that version.
LEMMA FreshCache ==
    ASSUME NEW n \in Nat, NEW end \in Token, NEW v \in Nat
    PROVE  LET x == Begun(n, end, v) IN
           /\ x \in CacheType /\ x.lease = n /\ x.end = end /\ x.version = v /\ ~x.writing
  BY DEF Begun, CacheType, Lease

\* A newly admitted request is sound.
LEMMA NewRequestSound ==
    /\ NewRequest \in RequestType /\ Sound(NewRequest) /\ NewRequest # None
    /\ NewRequest.publication = <<>> /\ NewRequest.version = 0 /\ NewRequest.end = 0
    /\ NewRequest.phase = Full
    /\ \A c \in Cache : Expected(NewRequest, c) = 0
<1>1. 0 \in Token /\ Full \in PhaseType
  BY BankConstants DEF Token, PhaseType
<1>2. <<>> \in Seq(EntryType)
  OBVIOUS
<1>3. NewRequest \in RequestType
  BY <1>1, <1>2 DEF NewRequest, RequestType
<1>4. /\ NewRequest.publication = <<>> /\ NewRequest.version = 0 /\ NewRequest.end = 0
      /\ NewRequest.phase = Full /\ Len(<<>>) = 0
  BY DEF NewRequest
<1> HIDE DEF NewRequest
<1>5. Sound(NewRequest)
  BY <1>3, <1>4, CapacityPositive DEF Sound, Chunked, Apart, PhaseFits, Full
<1>6. \A c \in Cache : PhaseEnd(NewRequest, c) = 0
  BY <1>4, KindFacts DEF PhaseEnd, HistoryEnd, Full
<1>7. ASSUME NEW c \in Cache PROVE Expected(NewRequest, c) = 0
  BY <1>3, <1>4, <1>6, ExpectedNone
<1> QED BY <1>3, <1>4, <1>5, <1>7, BankNone

\* admit keeps the invariant.
LEMMA AdmitKeeps ==
    ASSUME BankInv, NEW s \in Slot, Admit(s)
    PROVE  BankInv'
<1> DEFINE n == generations[s] + 1
           h == [lease |-> n, at |-> 0, prepared |-> None]
<1>1. generations[s] \in Nat /\ n \in Nat /\ 0 \in Token
  BY BankConstants DEF BankInv, RequestsInv, Token
<1>2. /\ generations' = [generations EXCEPT ![s] = n]
      /\ requests' = [requests EXCEPT ![s] = NewRequest]
      /\ caches' = [c \in Cache |-> [caches[c] EXCEPT ![s] = Begun(n, 0, 0)]]
      /\ UNCHANGED <<batches, waves, copies>> /\ requests[s] = None
  BY <1>1 DEF Admit, BankInv, RequestsInv
<1>3. histories' = [histories EXCEPT ![s] = h]
  BY <1>1, <1>2 DEF Admit, BankInv, RequestsInv
<1>4. h \in HistoryType /\ h.lease = n /\ h.at = 0 /\ h.prepared = None
  BY <1>1 DEF HistoryType, Lease
<1> HIDE DEF n, h
<1>5. Elsewhere(s)
  <2>1. /\ generations' \in [Slot -> Nat] /\ generations'[s] = n
        /\ requests' \in [Slot -> RequestType \cup {None}]
        /\ \A t \in Slot \ {s} : generations'[t] = generations[t] /\ requests'[t] = requests[t]
    BY <1>1, <1>2, NewRequestSound DEF BankInv, RequestsInv
  <2>2. /\ histories' \in [Slot -> HistoryType \cup {None}]
        /\ \A t \in Slot \ {s} : histories'[t] = histories[t]
    BY <1>3, <1>4 DEF BankInv, HistoriesInv
  <2>3. caches' \in [Cache -> [Slot -> CacheType]]
    BY <1>1, <1>2, FreshCache DEF BankInv, CachesInv
  <2>4. \A c \in Cache, t \in Slot \ {s} : caches'[c][t] = caches[c][t]
    BY <1>2 DEF BankInv, CachesInv
  <2> QED BY <1>2, <2>1, <2>2, <2>3, <2>4 DEF Elsewhere
<1>6. Here(s)
  <2>1. requests'[s] = NewRequest /\ generations'[s] = n /\ histories'[s] = h
    BY <1>1, <1>2, <1>3 DEF BankInv, RequestsInv, HistoriesInv
  <2>2. \A c \in Cache : caches'[c][s] = Begun(n, 0, 0)
    BY <1>2 DEF BankInv, CachesInv
  <2>3. \A c \in Cache : ~caches[c][s].writing
    BY <1>2, QuietCache DEF BankInv
  <2>4. ASSUME NEW c \in Cache
        PROVE  Follows(caches'[c][s], NewRequest, n, c) /\ ~caches'[c][s].writing
    BY <1>1, <2>2, FreshCache, NewRequestSound DEF Follows
  <2>5. Agrees(h, NewRequest)
    BY <1>4, NewRequestSound DEF Agrees, HistoryEnd, Full
  <2>6. n > generations[s]
    BY <1>1 DEF n
  <2> QED BY <1>1, <2>1, <2>3, <2>4, <2>5, <2>6, NewRequestSound DEF Here
<1> QED BY <1>5, <1>6, SlotKeeps

\* A live request whose caches are all where they should be.
LEMMA CommittedFacts ==
    ASSUME NEW s, NEW n, Committed(s, n)
    PROVE  /\ requests[s] # None /\ generations[s] = n
           /\ \A c \in Cache : /\ caches[c][s].lease = n
                               /\ caches[c][s].end = Expected(requests[s], c)
  BY DEF Committed, Usable, Live

\* begin_encoder keeps the invariant.
LEMMA BeginEncoderKeeps ==
    ASSUME BankInv, NEW s \in Slot, NEW target \in Token, target > 0, BeginEncoder(s, target)
    PROVE  BankInv'
<1> DEFINE r == requests[s]
           P == Seq(EntryType)
           R == [version : Nat, end : Token, phase : PhaseType, publication : P]
<1>1. /\ r # None /\ r.end = 0 /\ r.version = 0 /\ r.phase = Full
      /\ \A c \in Cache : caches[c][s].end = Expected(r, c)
      /\ UNCHANGED <<generations, histories, caches, batches, waves, copies>>
  BY CommittedFacts DEF BeginEncoder
<1>2. /\ r \in RequestType /\ Sound(r) /\ r.publication = <<>> /\ Len(r.publication) = 0
  <2>1. r \in RequestType /\ Sound(r)
    BY <1>1 DEF BankInv, RequestsInv, Sound
  <2> QED BY <1>1, <2>1 DEF Sound, Chunked, Full
<1>3. Encoder(target) \in PhaseType /\ 0 \in Token
  BY BankConstants, PhasesTyped DEF Token
<1> DEFINE q == [r EXCEPT !.phase = Encoder(target), !.version = 1]
<1>4. /\ q \in RequestType /\ q.phase = Encoder(target) /\ q.version = 1 /\ q.end = 0
      /\ q.publication = <<>>
  <2>1. r \in R /\ R = RequestType
    BY <1>2 DEF RequestType
  <2>2. 1 \in Nat /\ r.publication = <<>>
    BY <1>2
  <2> HIDE DEF P, r
  <2> QED BY <1>1, <1>3, <2>1, <2>2
<1>5. requests' = [requests EXCEPT ![s] = q]
  BY DEF BeginEncoder
<1> HIDE DEF q
<1>6. Sound(q)
  BY <1>4, CapacityPositive DEF Sound, Chunked, Apart, PhaseFits, Encoder
<1>7. /\ requests' \in [Slot -> RequestType \cup {None}] /\ requests'[s] = q
      /\ \A t \in Slot \ {s} : requests'[t] = requests[t]
      /\ q # None
  BY <1>4, <1>5, BankNone DEF BankInv, RequestsInv
<1>8. Elsewhere(s)
  BY <1>1, <1>7 DEF Elsewhere, BankInv, RequestsInv, HistoriesInv, CachesInv
<1>9. ASSUME NEW c \in Cache PROVE Expected(q, c) = Expected(r, c)
  <2>1. PhaseEnd(q, c) = 0 /\ PhaseEnd(r, c) = 0
    BY <1>1, <1>4, KindFacts DEF PhaseEnd, HistoryEnd, Full, Encoder
  <2>2. Expected(q, c) = PhaseEnd(q, c) /\ Expected(r, c) = PhaseEnd(r, c)
    BY <1>2, <1>4, ExpectedNone
  <2> QED BY <2>1, <2>2
<1>10. ASSUME histories[s] # None, generations[s] = histories[s].lease
       PROVE  Agrees(histories[s], q)
  <2>1. Agrees(histories[s], r)
    BY <1>1, <1>10 DEF BankInv, HistoriesInv
  <2> QED BY <1>1, <1>4, <2>1 DEF Agrees, HistoryEnd, Full, Encoder
<1>11. Here(s)
  <2>1. \A c \in Cache : Follows(caches[c][s], q, generations[s], c)
    BY <1>1, <1>7, <1>9 DEF BankInv, CachesInv, Follows
  <2>2. generations[s] \in Nat
    BY DEF BankInv, RequestsInv
  <2> QED BY <1>1, <1>4, <1>6, <1>7, <1>10, <2>1, <2>2 DEF Here
<1> QED BY <1>8, <1>11, SlotKeeps

\* The row a replay of end rows starts at.
LEMMA BackFields ==
    ASSUME NEW end \in Token
    PROVE  Back(end) \in Token /\ end \in Nat
<1>1. end \in Nat /\ REPLAY \in Nat /\ MAX_TOKENS \in Nat /\ end <= MAX_TOKENS
  BY BankConstants DEF Token
<1> QED BY <1>1 DEF Back, Token

\* A request with another phase, version and frontier.
Rephase(r, end, phase, v) == [r EXCEPT !.end = end, !.phase = phase, !.version = v]

\* A request put into a new phase at a given end is sound when the phase fits that end.
LEMMA Rephased ==
    ASSUME NEW r \in RequestType, r.publication = <<>>, NEW end \in Token,
           NEW phase \in PhaseType, NEW v \in Nat,
           NEW q, q = Rephase(r, end, phase, v),
           PhaseFits([end |-> end, phase |-> phase])
    PROVE  /\ Sound(q) /\ q \in RequestType /\ q # None /\ q.publication = <<>>
           /\ q.end = end /\ q.phase = phase /\ q.version = v
           /\ \A c \in Cache : Expected(q, c) = PhaseEnd(q, c)
<1> DEFINE P == Seq(EntryType)
           R == [version : Nat, end : Token, phase : PhaseType, publication : P]
<1>1. r \in R /\ R = RequestType
  BY DEF RequestType
<1>2. /\ q \in R /\ q.publication = <<>> /\ q.end = end /\ q.phase = phase /\ q.version = v
  <2> HIDE DEF P
  <2> QED BY <1>1 DEF Rephase
<1>3. Sound(q)
  <2>1. PhaseFits(q)
    BY <1>2 DEF PhaseFits
  <2> QED BY <1>1, <1>2, <2>1, CapacityPositive DEF Sound, Chunked, Apart
<1>4. \A c \in Cache : Expected(q, c) = PhaseEnd(q, c)
  <2>1. \A i \in 1..Len(q.publication) : FALSE
    BY <1>2
  <2> QED BY <1>1, <1>2, <2>1, ExpectedNone
<1> QED BY <1>1, <1>2, <1>3, <1>4, BankNone

\* Restoring a slot from a retained prefix keeps the invariant when history and phase agree on
\* its end.
LEMMA RestoredKeeps ==
    ASSUME BankInv, NEW s \in Slot, NEW end \in Token, NEW at \in Token,
           NEW phase \in PhaseType, NEW rows, Restored(s, end, at, phase, rows),
           PhaseFits([end |-> end, phase |-> phase]),
           at = HistoryEnd([end |-> end, phase |-> phase]),
           \A c \in Cache :
               IF Kinds[c] \in DOMAIN rows
               THEN rows[Kinds[c]] \in Token
                    /\ rows[Kinds[c]] = PhaseEnd([end |-> end, phase |-> phase], c)
               ELSE PhaseEnd([end |-> end, phase |-> phase], c) = 0
    PROVE  BankInv'
<1> DEFINE r == requests[s]
           n == generations[s]
           h == histories[s]
           q == [r EXCEPT !.end = end, !.phase = phase, !.version = 1]
           g == [h EXCEPT !.at = at]
           x(c) == IF Kinds[c] \in DOMAIN rows THEN Begun(n, rows[Kinds[c]], 1) ELSE caches[c][s]
<1>1. /\ r = NewRequest /\ h # None /\ h.lease = n /\ h.prepared = None
      /\ \A c \in Cache : caches[c][s] = Begun(n, 0, 0)
      /\ requests' = [requests EXCEPT ![s].end = end, ![s].phase = phase, ![s].version = 1]
      /\ caches' = [c \in Cache |-> [caches[c] EXCEPT ![s] =
            IF Kinds[c] \in DOMAIN rows THEN Begun(n, rows[Kinds[c]], 1) ELSE @]]
      /\ histories' = [histories EXCEPT ![s].at = at]
      /\ UNCHANGED <<generations, batches, waves, copies>>
  BY DEF Restored, Fresh
<1>2. n \in Nat /\ h \in HistoryType /\ 0 \in Token
  BY <1>1, BankConstants DEF BankInv, RequestsInv, HistoriesInv, Token
<1>3. /\ Sound(q) /\ q \in RequestType /\ q # None /\ q.publication = <<>>
      /\ q.end = end /\ q.phase = phase /\ q.version = 1
      /\ \A c \in Cache : Expected(q, c) = PhaseEnd(q, c)
  <2>1. r \in RequestType /\ r.publication = <<>> /\ 1 \in Nat
    BY <1>1, NewRequestSound
  <2>2. q = Rephase(r, end, phase, 1)
    BY DEF Rephase
  <2> HIDE DEF r, q
  <2> QED BY <2>1, <2>2, Rephased
<1>4. g \in HistoryType /\ g.lease = n /\ g.prepared = None /\ g.at = at
  BY <1>1, <1>2 DEF HistoryType
<1>5. requests' = [requests EXCEPT ![s] = q] /\ histories' = [histories EXCEPT ![s] = g]
  BY <1>1
<1> HIDE DEF q, g
<1>6. /\ \A c \in Cache : PhaseEnd(q, c) = PhaseEnd([end |-> end, phase |-> phase], c)
      /\ HistoryEnd(q) = at
  BY <1>3 DEF PhaseEnd, HistoryEnd
<1>7. ASSUME NEW c \in Cache
      PROVE  /\ x(c) \in CacheType /\ x(c).lease = n /\ x(c).end = Expected(q, c)
             /\ ~x(c).writing /\ ~caches[c][s].writing
  <2>1. CASE Kinds[c] \in DOMAIN rows
    <3>1. rows[Kinds[c]] \in Token /\ rows[Kinds[c]] = PhaseEnd(q, c)
      BY <2>1, <1>6
    <3>2. x(c) = Begun(n, rows[Kinds[c]], 1)
      BY <2>1
    <3> QED BY <3>1, <3>2, <1>1, <1>2, <1>3, FreshCache
  <2>2. CASE Kinds[c] \notin DOMAIN rows
    <3>1. x(c) = Begun(n, 0, 0) /\ PhaseEnd(q, c) = 0
      BY <2>2, <1>1, <1>6
    <3> QED BY <3>1, <1>1, <1>2, <1>3, FreshCache
  <2> QED BY <2>1, <2>2
<1>8. /\ requests' \in [Slot -> RequestType \cup {None}] /\ requests'[s] = q
      /\ \A t \in Slot \ {s} : requests'[t] = requests[t]
      /\ histories' \in [Slot -> HistoryType \cup {None}] /\ histories'[s] = g
      /\ \A t \in Slot \ {s} : histories'[t] = histories[t]
  BY <1>3, <1>4, <1>5 DEF BankInv, RequestsInv, HistoriesInv
<1>9. caches' = [c \in Cache |-> [caches[c] EXCEPT ![s] = x(c)]]
  BY <1>1
<1> HIDE DEF x
<1>10. /\ caches' \in [Cache -> [Slot -> CacheType]]
       /\ \A c \in Cache : caches'[c][s] = x(c)
       /\ \A c \in Cache, t \in Slot \ {s} : caches'[c][t] = caches[c][t]
  BY <1>7, <1>9 DEF BankInv, CachesInv
<1>11. Elsewhere(s)
  BY <1>1, <1>8, <1>10 DEF Elsewhere, BankInv, RequestsInv
<1>12. Agrees(g, q)
  BY <1>3, <1>4, <1>6 DEF Agrees
<1>13. Here(s)
  <2>1. generations' = generations /\ r.version = 0 /\ r # None
    BY <1>1, NewRequestSound
  <2>2. ASSUME NEW c \in Cache
        PROVE  Follows(caches'[c][s], q, n, c) /\ ~caches'[c][s].writing /\ ~caches[c][s].writing
    BY <1>3, <1>7, <1>10 DEF Follows
  <2> QED BY <1>2, <1>3, <1>4, <1>8, <1>12, <2>1, <2>2 DEF Here
<1> QED BY <1>11, <1>13, SlotKeeps

\* restore_prefix keeps the invariant.
LEMMA RestorePrefixKeeps ==
    ASSUME BankInv, NEW s \in Slot, NEW end \in Token, RestorePrefix(s, end)
    PROVE  BankInv'
<1> DEFINE rows == [k \in {"encoder", "source", "decoder"} |-> end]
           q == [end |-> end, phase |-> Full]
<1>1. Restored(s, end, end, Full, rows)
  BY DEF RestorePrefix
<1>2. Full \in PhaseType /\ PhaseFits(q) /\ HistoryEnd(q) = end
  BY DEF PhaseType, PhaseFits, Full, HistoryEnd
<1>3. \A c \in Cache : Kinds[c] \in DOMAIN rows /\ rows[Kinds[c]] = end /\ PhaseEnd(q, c) = end
  BY <1>2, KindFacts DEF PhaseEnd, Full
<1> HIDE DEF rows
<1> QED BY <1>1, <1>2, <1>3, RestoredKeeps

\* restore_encoder_continuation keeps the invariant.
LEMMA RestoreEncoderContinuationKeeps ==
    ASSUME BankInv, NEW s \in Slot, NEW end \in Token, NEW target \in Token, target > 0,
           RestoreEncoderContinuation(s, end, target)
    PROVE  BankInv'
<1> DEFINE rows == [k \in {"encoder", "source"} |-> end]
           q == [end |-> end, phase |-> Encoder(target)]
<1>1. Restored(s, end, end, Encoder(target), rows)
  BY DEF RestoreEncoderContinuation
<1>2. Encoder(target) \in PhaseType /\ PhaseFits(q) /\ HistoryEnd(q) = end
  BY PhasesTyped DEF PhaseFits, Encoder, HistoryEnd
<1>3. \A c \in Cache :
        IF Kinds[c] \in DOMAIN rows THEN rows[Kinds[c]] = end /\ PhaseEnd(q, c) = end
        ELSE PhaseEnd(q, c) = 0
  BY <1>2, KindFacts DEF PhaseEnd, Encoder
<1> HIDE DEF rows
<1> QED BY <1>1, <1>2, <1>3, RestoredKeeps

\* restore_encoder_prefix keeps the invariant.
LEMMA RestoreEncoderPrefixKeeps ==
    ASSUME BankInv, NEW s \in Slot, NEW end \in Token, NEW target \in Token, target > 0,
           RestoreEncoderPrefix(s, end, target)
    PROVE  BankInv'
<1> DEFINE rows == [k \in {"encoder", "source"} |-> IF k = "encoder" THEN Back(end) ELSE end]
           p == EncoderReplay(end, target, Back(end))
           q == [end |-> end, phase |-> p]
<1>1. Restored(s, end, Back(end), p, rows)
  BY DEF RestoreEncoderPrefix
<1>2. Back(end) \in Token
  BY BackFields
<1>3. p \in PhaseType /\ PhaseFits(q) /\ HistoryEnd(q) = Back(end)
  BY <1>2, PhasesTyped DEF PhaseFits, EncoderReplay, HistoryEnd
<1>4. \A c \in Cache :
        IF Kinds[c] \in DOMAIN rows
        THEN rows[Kinds[c]] \in Token /\ rows[Kinds[c]] = PhaseEnd(q, c)
        ELSE PhaseEnd(q, c) = 0
  BY <1>2, <1>3, KindFacts DEF PhaseEnd, EncoderReplay
<1> HIDE DEF rows, p
<1> QED BY <1>1, <1>2, <1>3, <1>4, RestoredKeeps

\* begin_decoder_replay keeps the invariant.
LEMMA BeginDecoderReplayKeeps ==
    ASSUME BankInv, NEW s \in Slot, BeginDecoderReplay(s)
    PROVE  BankInv'
<1> DEFINE r == requests[s]
           n == generations[s]
           h == histories[s]
           start == Back(r.end)
           phase == Replay(r.phase.target, start)
           q == [r EXCEPT !.end = r.end, !.phase = phase, !.version = r.version + 1]
           g == [h EXCEPT !.prepared = None]
           x(c) == IF Kinds[c] = "decoder" THEN Begun(n, start, 1) ELSE caches[c][s]
<1>1. /\ r # None /\ h # None /\ h.lease = n /\ h.at = r.end
      /\ r.phase.stage = "Encoder" /\ r.phase.target = r.end
      /\ \A c \in Cache : caches[c][s].lease = n /\ caches[c][s].end = Expected(r, c)
      /\ \A c \in Cache : Kinds[c] = "decoder" => caches[c][s] = Begun(n, 0, 0)
      /\ requests' = [requests EXCEPT ![s].phase = Replay(@.target, start),
                                      ![s].version = @ + 1]
      /\ caches' = [c \in Cache |->
            IF Kinds[c] = "decoder"
            THEN [caches[c] EXCEPT ![s] = Begun(n, start, 1)] ELSE caches[c]]
      /\ histories' = [histories EXCEPT ![s].prepared = None]
      /\ UNCHANGED <<generations, batches, waves, copies>>
  BY CommittedFacts DEF BeginDecoderReplay, MayReplay, OfKind
<1>2. n \in Nat /\ h \in HistoryType /\ r \in RequestType /\ Sound(r) /\ 0 \in Token
  BY <1>1, BankConstants DEF BankInv, RequestsInv, HistoriesInv, Token, Sound
<1>3. r.publication = <<>>
  <2>1. ASSUME r.publication # <<>> PROVE FALSE
    <3> DEFINE e == r.publication[1]
    <3>1. 1 \in 1..Len(r.publication)
      BY <2>1, <1>2, RequestFields
    <3>2. e \in EntryType /\ e.start = r.end /\ e.start < e.end /\ e.end <= r.phase.target
      BY <2>1, <3>1, <1>2, RequestFields DEF Sound, Chunked
    <3> HIDE DEF e
    <3>3. e.start \in Nat /\ e.end \in Nat
      BY <3>2, EntryFields
    <3> QED BY <3>2, <3>3, <1>1
  <2> QED BY <2>1
<1>4. /\ r.end \in Token /\ r.version \in Nat /\ r.version + 1 \in Nat /\ start \in Token
      /\ r.phase \in PhaseType /\ phase \in PhaseType
      /\ phase.stage = "Replay" /\ phase.target = r.end /\ phase.end = start
  <2>1. r.end \in Token /\ r.version \in Nat /\ r.phase \in PhaseType
    BY <1>2, RequestFields
  <2>2. start \in Token /\ r.phase.target \in Token
    BY <2>1, BackFields, PhaseFields
  <2> QED BY <1>1, <2>1, <2>2, PhasesTyped DEF Replay
<1> HIDE DEF phase, start
<1>5. /\ Sound(q) /\ q \in RequestType /\ q # None /\ q.publication = <<>>
      /\ q.end = r.end /\ q.phase = phase /\ q.version = r.version + 1
      /\ \A c \in Cache : Expected(q, c) = PhaseEnd(q, c)
  <2>1. PhaseFits([end |-> r.end, phase |-> phase])
    BY <1>4 DEF PhaseFits
  <2>2. q = Rephase(r, r.end, phase, r.version + 1)
    BY DEF Rephase
  <2> HIDE DEF r, q
  <2> QED BY ONLY <1>2, <1>3, <1>4, <2>1, <2>2, Rephased
<1>6. g \in HistoryType /\ g.lease = n /\ g.prepared = None /\ g.at = r.end
  BY <1>1, <1>2 DEF HistoryType
<1>7. requests' = [requests EXCEPT ![s] = q] /\ histories' = [histories EXCEPT ![s] = g]
  <2>1. q = [r EXCEPT !.phase = phase, !.version = r.version + 1]
    BY <1>2 DEF RequestType
  <2> QED BY <1>1, <2>1 DEF phase
<1> HIDE DEF q, g
<1>8. ASSUME NEW c \in Cache
      PROVE  /\ x(c) \in CacheType /\ x(c).lease = n /\ x(c).end = Expected(q, c)
             /\ (~x(c).writing /\ ~caches[c][s].writing) \/ x(c) = caches[c][s]
  <2>1. CASE Kinds[c] = "decoder"
    <3>1. x(c) = Begun(n, start, 1) /\ caches[c][s] = Begun(n, 0, 0) /\ 1 \in Nat
      BY <2>1, <1>1
    <3>2. PhaseEnd(q, c) = start
      BY <2>1, <1>4, <1>5 DEF PhaseEnd
    <3> QED BY <3>1, <3>2, <1>2, <1>4, <1>5, FreshCache
  <2>2. CASE Kinds[c] # "decoder"
    <3>1. x(c) = caches[c][s] /\ x(c) \in CacheType
      BY <2>2 DEF BankInv, CachesInv
    <3>2. Expected(r, c) = PhaseEnd(r, c)
      BY <1>2, <1>3, ExpectedNone
    <3>3. PhaseEnd(r, c) = r.end /\ PhaseEnd(q, c) = r.end
      BY <2>2, <1>1, <1>4, <1>5, KindFacts DEF PhaseEnd, HistoryEnd
    <3> QED BY <3>1, <3>2, <3>3, <1>1, <1>5
  <2> QED BY <2>1, <2>2
<1>9. /\ requests' \in [Slot -> RequestType \cup {None}] /\ requests'[s] = q
      /\ \A t \in Slot \ {s} : requests'[t] = requests[t]
      /\ histories' \in [Slot -> HistoryType \cup {None}] /\ histories'[s] = g
      /\ \A t \in Slot \ {s} : histories'[t] = histories[t]
  BY <1>5, <1>6, <1>7 DEF BankInv, RequestsInv, HistoriesInv
<1>10. /\ DOMAIN caches' = Cache
       /\ \A c \in Cache : caches'[c] = [caches[c] EXCEPT ![s] = x(c)]
  BY <1>1 DEF BankInv, CachesInv
<1> HIDE DEF x
<1>11. /\ \A c \in Cache : caches'[c] \in [Slot -> CacheType] /\ caches'[c][s] = x(c)
       /\ \A c \in Cache, t \in Slot \ {s} : caches'[c][t] = caches[c][t]
  BY <1>8, <1>10 DEF BankInv, CachesInv
<1>12. caches' \in [Cache -> [Slot -> CacheType]]
  <2>1. caches' = [c \in Cache |-> caches'[c]]
    BY <1>1, <1>10
  <2> QED BY <1>11, <2>1
<1>13. Elsewhere(s)
  BY <1>1, <1>9, <1>11, <1>12 DEF Elsewhere, BankInv, RequestsInv
<1>14. Agrees(g, q)
  BY <1>4, <1>5, <1>6 DEF Agrees, HistoryEnd
<1>15. Here(s)
  <2>1. generations' = generations /\ q.version > r.version
    BY <1>1, <1>4, <1>5
  <2>2. ASSUME NEW c \in Cache
        PROVE  Follows(caches'[c][s], q, n, c)
    BY <1>5, <1>8, <1>11 DEF Follows
  <2>3. ASSUME NEW c \in Cache
        PROVE \/ ~caches[c][s].writing /\ ~caches'[c][s].writing
              \/ caches'[c][s] = caches[c][s]
    BY <1>8, <1>11
  <2>4. generations'[s] = n /\ generations'[s] >= generations[s]
    BY <1>2, <2>1
  <2>5. g # None => g.prepared = None
    BY <1>6
  <2> HIDE DEF r, n
  <2>6. /\ requests'[s] # None => Sound(requests'[s]) /\ requests'[s].publication = <<>>
        /\ histories'[s] # None /\ requests'[s] # None /\ generations'[s] = histories'[s].lease
             => Agrees(histories'[s], requests'[s])
        /\ generations'[s] = generations[s] /\ requests'[s] # None =>
             /\ requests[s] # None /\ requests'[s].version > requests[s].version
             /\ histories'[s] = histories[s] \/ (histories'[s] # None => histories'[s].prepared = None)
    BY <1>1, <1>5, <1>9, <1>14, <2>1, <2>5 DEF r
  <2>7. \A c \in Cache :
        /\ Follows(caches'[c][s], requests'[s], generations'[s], c)
        /\ \/ ~caches[c][s].writing /\ ~caches'[c][s].writing
           \/ /\ caches'[c][s] = caches[c][s] /\ generations'[s] = generations[s]
              /\ requests'[s] # None
    BY <1>5, <1>9, <2>1, <2>2, <2>3, <2>4 DEF n
  <2> QED BY <2>4, <2>6, <2>7 DEF Here
<1> QED BY <1>13, <1>15, SlotKeeps

-----------------------------------------------------------------------------
(* Steps that let go of requests. *)

\* The lanes L lose their batches, some requests their slots, and some caches
\* their leases: all those of a request that is gone, all those that the lanes L
\* were writing to, and none that another lane writes to.
Drops(L) ==
    /\ generations' = generations /\ copies' = copies
    /\ DOMAIN batches' = Lane /\ DOMAIN waves' = Lane
    /\ \A k \in Lane : IF k \in L THEN batches'[k] = None /\ waves'[k] = NoWaves
                       ELSE batches'[k] = batches[k] /\ waves'[k] = waves[k]
    /\ DOMAIN requests' = Slot /\ DOMAIN histories' = Slot
    /\ caches' = [c \in Cache |-> [s \in Slot |-> caches'[c][s]]]
    /\ requests' = [s \in Slot |-> requests'[s]] /\ histories' = [s \in Slot |-> histories'[s]]
    /\ \A s \in Slot :
        /\ requests'[s] \in {requests[s], None} /\ histories'[s] \in {histories[s], None}
        /\ \A c \in Cache :
            /\ caches'[c][s] \in {caches[c][s], Bare}
            /\ requests'[s] # requests[s] => caches'[c][s] = Bare
            /\ \A k \in Lane : Writer(k, c, s) =>
                  IF k \in L THEN caches'[c][s] = Bare ELSE caches'[c][s] = caches[c][s]

\* A cache slot without a lease.
LEMMA BareFields == Bare \in CacheType /\ Bare.lease = 0 /\ ~Bare.writing
  BY BankConstants DEF Bare, CacheType, Lease, Token

\* Dropping the batches of some lanes leaves no queued write of theirs and keeps the invariant.
LEMMA DropKeeps ==
    ASSUME BankInv, NEW L \in SUBSET Lane, Drops(L)
    PROVE  BankInv'
<1> USE DEF BankInv
<1>1. RequestsInv'
  <2>1. \A s \in Slot : requests'[s] \in RequestType \cup {None}
    BY DEF RequestsInv, Drops
  <2>2. requests' = [s \in Slot |-> requests'[s]] /\ generations' = generations
    BY DEF Drops
  <2>3. \A s \in Slot : requests'[s] # None => Sound(requests'[s])
    BY DEF RequestsInv, Drops
  <2> QED BY <2>1, <2>2, <2>3 DEF RequestsInv
<1>2. CachesInv'
  <2>1. \A c \in Cache, s \in Slot : caches'[c][s] \in CacheType
    BY BareFields DEF CachesInv, Drops
  <2>2. caches' = [c \in Cache |-> [s \in Slot |-> caches'[c][s]]] /\ generations' = generations
    BY DEF Drops
  <2>3. caches' \in [Cache -> [Slot -> CacheType]]
    BY <2>1, <2>2
  <2>4. ASSUME NEW c \in Cache, NEW s \in Slot
        PROVE  Follows(caches'[c][s], requests'[s], generations[s], c)
    <3>1. CASE caches'[c][s] = Bare
      BY <3>1, BareFields DEF Follows
    <3>2. CASE caches'[c][s] # Bare
      <4>1. caches'[c][s] = caches[c][s] /\ requests'[s] = requests[s]
        BY <3>2 DEF Drops
      <4> QED BY <4>1 DEF CachesInv
    <3> QED BY <3>1, <3>2
  <2> QED BY <2>2, <2>3, <2>4 DEF CachesInv
<1>3. HistoriesInv'
  <2>1. \A s \in Slot : histories'[s] \in HistoryType \cup {None}
    BY DEF HistoriesInv, Drops
  <2>2. histories' = [s \in Slot |-> histories'[s]] /\ generations' = generations
    BY DEF Drops
  <2>3. ASSUME NEW s \in Slot, histories'[s] # None, requests'[s] # None,
               generations[s] = histories'[s].lease
        PROVE  Agrees(histories'[s], requests'[s])
    BY <2>3 DEF HistoriesInv, Drops
  <2> QED BY <2>1, <2>2, <2>3 DEF HistoriesInv
<1>4. \A k \in Lane : Batch(k)' => Batch(k) /\ k \notin L /\ batches'[k] = batches[k]
  BY DEF Batch, Drops
<1>5. BatchesInv'
  <2>1. ASSUME NEW k \in Lane, Batch(k)', NEW s \in DOMAIN batches[k].of
        PROVE  Fits(batches[k], batches[k].of[s], requests'[s], histories'[s], generations'[s])
    <3>1. s \in Slot /\ Batch(k)
      BY <1>4, <2>1, BatchFields
    <3>2. Fits(batches[k], batches[k].of[s], requests[s], histories[s], generations[s])
      BY <2>1, <3>1 DEF BatchesInv
    <3> QED BY <3>1, <3>2 DEF Fits, Alone, Drops
  <2> QED BY <1>4, <2>1 DEF BatchesInv, Drops
<1>6. ASSUME NEW k \in Lane, NEW c \in Cache, waves'[k][c] # None
      PROVE  k \notin L /\ waves'[k] = waves[k] /\ batches'[k] = batches[k] /\ Batch(k)
  <2>1. k \notin L
    BY <1>6 DEF Drops, NoWaves
  <2>2. waves'[k] = waves[k] /\ batches'[k] = batches[k]
    BY <2>1 DEF Drops
  <2> QED BY <1>6, <2>1, <2>2 DEF WavesInv
<1>7. WavesInv'
  <2>1. ASSUME NEW k \in Lane PROVE DOMAIN waves'[k] = Cache
    BY DEF Drops, WavesInv, NoWaves
  <2>2. ASSUME NEW k \in Lane, NEW c \in Cache, waves'[k][c] # None
        PROVE  /\ \E S \in SUBSET Slot : waves'[k][c] \in WaveType(S)
               /\ Batch(k)' /\ Carries(waves'[k][c], batches'[k]) /\ c \in Writes(batches'[k].stage)
               /\ \A s \in DOMAIN batches'[k].of :
                     requests'[s] # None /\ generations'[s] = batches'[k].of[s].lease
                       => Unpublished(batches'[k], c, requests'[s])
    <3>1. /\ k \notin L /\ waves'[k] = waves[k] /\ batches'[k] = batches[k] /\ Batch(k)
      BY <1>6, <2>2
    <3>2. waves[k][c] # None
      BY <2>2, <3>1
    <3>3. \A s \in DOMAIN batches[k].of :
            requests'[s] # None /\ generations'[s] = batches[k].of[s].lease
              => Unpublished(batches[k], c, requests'[s])
      <4> SUFFICES ASSUME NEW s \in DOMAIN batches[k].of, requests'[s] # None,
                          generations'[s] = batches[k].of[s].lease
                   PROVE  Unpublished(batches[k], c, requests'[s])
        OBVIOUS
      <4>1. s \in Slot
        BY <3>1, BatchFields
      <4>2. requests'[s] = requests[s] /\ generations'[s] = generations[s]
        BY <4>1 DEF Drops
      <4> QED BY <3>2, <4>2 DEF WavesInv
    <3>4. Batch(k)'
      BY <3>1 DEF Batch
    <3> QED BY <3>1, <3>2, <3>3, <3>4 DEF WavesInv
  <2> QED BY <2>1, <2>2 DEF WavesInv, Drops
<1>8. \A k \in Lane, c \in Cache, s \in Slot :
        Writer(k, c, s)' => Writer(k, c, s) /\ k \notin L /\ waves'[k] = waves[k]
  <2> SUFFICES ASSUME NEW k \in Lane, NEW c \in Cache, NEW s \in Slot, Writer(k, c, s)'
               PROVE  Writer(k, c, s) /\ k \notin L /\ waves'[k] = waves[k]
    OBVIOUS
  <2>1. waves'[k][c] # None
    BY DEF Writer, Pending
  <2>2. k \notin L /\ waves'[k] = waves[k]
    BY <1>6, <2>1
  <2> QED BY <2>2 DEF Writer, Pending
<1>9. \A k \in Lane, c \in Cache, s \in Slot :
        Writer(k, c, s) /\ k \notin L => Writer(k, c, s)'
  BY DEF Writer, Pending, Drops
<1>10. WritesInv'
  <2>1. ASSUME NEW c \in Cache, NEW s \in Slot, caches'[c][s].writing
        PROVE  \E k \in Lane : Writer(k, c, s)'
    <3>1. caches'[c][s] # Bare
      BY <2>1, BareFields
    <3>2. caches'[c][s] = caches[c][s]
      BY <3>1 DEF Drops
    <3>3. PICK k \in Lane : Writer(k, c, s)
      BY <2>1, <3>2 DEF WritesInv
    <3>4. k \notin L
      BY <3>1, <3>3 DEF Drops
    <3> QED BY <3>3, <3>4, <1>9
  <2>2. ASSUME NEW k \in Lane, NEW c \in Cache, NEW s \in Slot, Writer(k, c, s)'
        PROVE  /\ caches'[c][s].writing
               /\ Right(waves'[k][c].of[s], caches'[c][s], requests'[s], generations'[s])
    <3>1. Writer(k, c, s) /\ k \notin L /\ waves'[k] = waves[k]
      BY <1>8, <2>2
    <3>2. /\ caches[c][s].writing
          /\ Right(waves[k][c].of[s], caches[c][s], requests[s], generations[s])
      BY <3>1 DEF WritesInv
    <3>3. caches'[c][s] = caches[c][s] /\ generations' = generations
      BY <3>1 DEF Drops
    <3>4. requests'[s] = requests[s]
      BY <3>2, <3>3, BareFields DEF Drops
    <3> QED BY <3>1, <3>2, <3>3, <3>4
  <2>3. \A k, j \in Lane, c \in Cache, s \in Slot : Writer(k, c, s)' /\ Writer(j, c, s)' => k = j
    BY <1>8 DEF WritesInv
  <2> QED BY <2>1, <2>2, <2>3 DEF WritesInv
<1>11. copies' \in [Lane -> CopyType \cup {None}]
  BY DEF Drops
<1> QED BY <1>1, <1>2, <1>3, <1>5, <1>7, <1>10, <1>11

\* What can be released is not written to, unless its cache is already revoked.
LEMMA ReleasableQuiet ==
    ASSUME BankInv, NEW s \in Slot, NEW cs, Releasable(s, generations[s], cs),
           NEW c \in Cache, cs[c][s] = caches[c][s]
    PROVE  ~caches[c][s].writing
  BY QuietCache DEF Releasable, BankInv

\* Requests::release of some leases, after the drain of the caches C for the lane l.
LEMMA DroppedDrops ==
    ASSUME BankInv, NEW of, DOMAIN of \subseteq Slot, NEW L \in SUBSET Lane, NEW C,
           Dropped(of, [c \in Cache |-> [s \in Slot |->
              IF c \in C /\ s \in DOMAIN of THEN Bare ELSE caches[c][s]]]),
           \A c \in C \cap Cache, s \in DOMAIN of, k \in Lane : Writer(k, c, s) => k \in L,
           \A k \in L, c \in Cache, s \in Slot : Writer(k, c, s) => c \in C /\ s \in DOMAIN of,
           DOMAIN batches' = Lane, DOMAIN waves' = Lane, UNCHANGED <<generations, copies>>,
           \A k \in Lane : IF k \in L THEN batches'[k] = None /\ waves'[k] = NoWaves
                           ELSE batches'[k] = batches[k] /\ waves'[k] = waves[k]
    PROVE  Drops(L)
<1> DEFINE cs == [c \in Cache |-> [s \in Slot |->
              IF c \in C /\ s \in DOMAIN of THEN Bare ELSE caches[c][s]]]
           gone == LetGo(of, cs)
           live == {s \in gone : Live(s, of[s].lease)}
<1>1. /\ histories' = Without(histories, gone) /\ requests' = Without(requests, live)
      /\ caches' = Cleared(cs, live)
  BY DEF Dropped
<1>2. /\ DOMAIN requests' = Slot /\ DOMAIN histories' = Slot
      /\ \A s \in Slot : /\ requests'[s] = IF s \in live THEN None ELSE requests[s]
                         /\ histories'[s] = IF s \in gone THEN None ELSE histories[s]
      /\ requests' = [s \in Slot |-> requests'[s]] /\ histories' = [s \in Slot |-> histories'[s]]
  <2> HIDE DEF gone, live
  <2> QED BY <1>1 DEF Without
<1>3. \A s \in live : Releasable(s, generations[s], cs)
  BY DEF LetGo, Live
<1>4. \A c \in Cache, s \in Slot :
        caches'[c][s] = IF s \in live \/ (c \in C /\ s \in DOMAIN of) THEN Bare ELSE caches[c][s]
  <2> HIDE DEF live
  <2> QED BY <1>1 DEF Cleared
<1>5. caches' = [c \in Cache |-> [s \in Slot |-> caches'[c][s]]]
  <2> HIDE DEF live, cs
  <2> QED BY <1>1 DEF Cleared
<1>6. \A c \in Cache, s \in Slot :
        cs[c][s] = IF c \in C /\ s \in DOMAIN of THEN Bare ELSE caches[c][s]
  OBVIOUS
<1> HIDE DEF gone, live, cs
<1>7. ASSUME NEW s \in Slot, NEW c \in Cache, NEW k \in Lane, Writer(k, c, s)
      PROVE  IF k \in L THEN caches'[c][s] = Bare ELSE caches'[c][s] = caches[c][s]
  <2>1. CASE k \in L
    BY <1>4, <1>7, <2>1
  <2>2. CASE k \notin L
    <3>1. ~(c \in C /\ s \in DOMAIN of) /\ cs[c][s] = caches[c][s]
      BY <1>6, <1>7, <2>2
    <3>2. caches[c][s].writing
      BY <1>7 DEF BankInv, WritesInv
    <3>3. s \notin live
      BY <1>3, <3>1, <3>2, ReleasableQuiet
    <3> QED BY <1>4, <2>2, <3>1, <3>3
  <2> QED BY <2>1, <2>2
<1>8. ASSUME NEW s \in Slot
      PROVE  /\ requests'[s] \in {requests[s], None} /\ histories'[s] \in {histories[s], None}
             /\ \A c \in Cache : /\ caches'[c][s] \in {caches[c][s], Bare}
                                 /\ requests'[s] # requests[s] => caches'[c][s] = Bare
  BY <1>2, <1>4
<1> QED BY <1>2, <1>5, <1>7, <1>8 DEF Drops

\* A batch leaving with the caches it wrote given back keeps the invariant.
LEMMA LeaveKeeps ==
    ASSUME BankInv, NEW l \in Lane, Batch(l), NEW C, Leave(l, C),
           \A c \in Cache : Pending(l, c) => c \in C,
           \A c \in C : Pending(l, c) \/ Ready(l, c)
    PROVE  BankInv'
<1> DEFINE of == batches[l].of
<1>1. DOMAIN of \subseteq Slot
  BY BatchFields DEF BankInv
<1>2. /\ Dropped(of, [c \in Cache |-> [s \in Slot |->
              IF c \in C /\ s \in DOMAIN of THEN Bare ELSE caches[c][s]]])
      /\ UNCHANGED <<generations, copies>>
  BY DEF Leave
<1>3. /\ DOMAIN batches' = Lane /\ DOMAIN waves' = Lane
      /\ \A k \in Lane : IF k \in {l} THEN batches'[k] = None /\ waves'[k] = NoWaves
                         ELSE batches'[k] = batches[k] /\ waves'[k] = waves[k]
  BY DEF Leave, BankInv, BatchesInv, WavesInv
<1>4. \A c \in Cache : waves[l][c] # None => DOMAIN waves[l][c].of = DOMAIN of
  BY DEF BankInv, WavesInv, Carries
<1>5. \A c \in C \cap Cache, s \in DOMAIN of, k \in Lane : Writer(k, c, s) => k \in {l}
  <2> SUFFICES ASSUME NEW c \in C \cap Cache, NEW s \in DOMAIN of, NEW k \in Lane,
                      Writer(k, c, s)
               PROVE  k = l
    OBVIOUS
  <2>1. caches[c][s].writing /\ s \in Slot
    BY <1>1 DEF BankInv, WritesInv
  <2>2. waves[l][c] # None /\ s \in DOMAIN waves[l][c].of
    BY <1>4 DEF Pending, Ready
  <2>3. Pending(l, c)
    BY <2>1, <2>2 DEF Ready
  <2>4. Writer(l, c, s)
    BY <2>2, <2>3 DEF Writer
  <2> QED BY <2>1, <2>4 DEF BankInv, WritesInv
<1>6. \A k \in {l}, c \in Cache, s \in Slot : Writer(k, c, s) => c \in C /\ s \in DOMAIN of
  BY <1>4 DEF Writer, Pending
<1> HIDE DEF of
<1>7. {l} \in SUBSET Lane
  OBVIOUS
<1>8. Drops({l})
  BY <1>1, <1>2, <1>3, <1>5, <1>6, <1>7, DroppedDrops
<1> QED BY <1>7, <1>8, DropKeeps

\* Dropping a batch before it is committed keeps the invariant.
LEMMA GiveUpKeeps ==
    ASSUME BankInv, NEW l \in Lane, GiveUp(l)
    PROVE  BankInv'
<1> DEFINE C == {c \in Cache : Pending(l, c)}
<1>1. Batch(l) /\ Leave(l, C)
  BY DEF GiveUp, Batch
<1>2. /\ \A c \in Cache : Pending(l, c) => c \in C
      /\ \A c \in C : Pending(l, c) \/ Ready(l, c)
  OBVIOUS
<1> HIDE DEF C
<1> QED BY <1>1, <1>2, LeaveKeeps

\* A publication that fails in one cache keeps the invariant.
LEMMA PublishFailsKeeps ==
    ASSUME BankInv, NEW l \in Lane, NEW d \in Cache, PublishFails(l, d)
    PROVE  BankInv'
<1> DEFINE C == {d} \cup {c \in Cache : Pending(l, c)}
<1>1. Ready(l, d) /\ Leave(l, C)
  BY DEF PublishFails
<1>2. /\ \A c \in Cache : Pending(l, c) => c \in C
      /\ \A c \in C : Pending(l, c) \/ Ready(l, c)
  BY <1>1
<1>3. Batch(l)
  BY <1>1 DEF Ready, BankInv, WavesInv
<1> HIDE DEF C
<1> QED BY <1>1, <1>2, <1>3, LeaveKeeps

\* release keeps the invariant, whatever batches the request was in.
LEMMA ReleaseKeeps ==
    ASSUME BankInv, NEW s \in Slot, Release(s)
    PROVE  BankInv'
<1> DEFINE of == [t \in {s} |-> histories[s]]
           none == {}
           cs == [c \in Cache |-> [t \in Slot |->
                    IF c \in none /\ t \in DOMAIN of THEN Bare ELSE caches[c][t]]]
<1>1. Dropped(of, caches) /\ UNCHANGED <<generations, batches, waves, copies>>
  BY DEF Release
<1>2. cs = caches
  BY DEF BankInv, CachesInv
<1>3. Dropped(of, cs)
  BY <1>1, <1>2
<1>4. /\ DOMAIN of \subseteq Slot
      /\ DOMAIN batches' = Lane /\ DOMAIN waves' = Lane
      /\ \A k \in Lane : batches'[k] = batches[k] /\ waves'[k] = waves[k]
  BY <1>1 DEF BankInv, BatchesInv, WavesInv
<1>5. /\ none \in SUBSET Lane
      /\ \A k \in Lane : k \notin none
      /\ \A c \in Cache : c \notin none
  OBVIOUS
<1> HIDE DEF of, none
<1>6. /\ \A c \in none \cap Cache, t \in DOMAIN of, k \in Lane : Writer(k, c, t) => k \in none
      /\ \A k \in none, c \in Cache, t \in Slot : Writer(k, c, t) => c \in none /\ t \in DOMAIN of
      /\ \A k \in Lane : IF k \in none THEN batches'[k] = None /\ waves'[k] = NoWaves
                         ELSE batches'[k] = batches[k] /\ waves'[k] = waves[k]
      /\ UNCHANGED <<generations, copies>>
  BY <1>1, <1>4, <1>5
<1>7. Drops(none)
  BY <1>3, <1>4, <1>5, <1>6, DroppedDrops
<1> QED BY <1>5, <1>7, DropKeeps

\* A decoder replay that fails part of the way keeps the invariant.
LEMMA DecoderReplayFailsKeeps ==
    ASSUME BankInv, NEW s \in Slot, DecoderReplayFails(s)
    PROVE  BankInv'
<1>1. /\ Releasable(s, generations[s], caches)
      /\ requests' = Without(requests, {s}) /\ caches' = Cleared(caches, {s})
      /\ UNCHANGED <<generations, histories, batches, waves, copies>>
  BY DEF DecoderReplayFails
<1>2. \A c \in Cache : ~caches[c][s].writing
  BY <1>1, ReleasableQuiet
<1>3. /\ DOMAIN requests' = Slot /\ requests' = [t \in Slot |-> requests'[t]]
      /\ \A t \in Slot : requests'[t] = IF t = s THEN None ELSE requests[t]
  BY <1>1 DEF Without
<1>4. /\ DOMAIN histories' = Slot /\ histories' = [t \in Slot |-> histories'[t]]
      /\ \A t \in Slot : histories'[t] = histories[t]
  BY <1>1 DEF BankInv, HistoriesInv
<1>5. /\ caches' = [c \in Cache |-> [t \in Slot |-> caches'[c][t]]]
      /\ \A c \in Cache, t \in Slot : caches'[c][t] = IF t = s THEN Bare ELSE caches[c][t]
  BY <1>1 DEF Cleared
<1>6. \A k \in Lane, c \in Cache, t \in Slot : Writer(k, c, t) => t # s
  BY <1>2 DEF BankInv, WritesInv
<1>7. {} \in SUBSET Lane
  OBVIOUS
<1>8. DOMAIN batches' = Lane /\ DOMAIN waves' = Lane
  BY <1>1 DEF BankInv, BatchesInv, WavesInv
<1>9. Drops({})
  BY <1>1, <1>3, <1>4, <1>5, <1>6, <1>8 DEF Drops
<1> QED BY <1>7, <1>9, DropKeeps

-----------------------------------------------------------------------------
(* Steps that change waves: producing and queueing. *)

\* What a batch that still fits its requests knows of one of them.
Stands(b, p, r) ==
    IF b.reserved
    THEN \E i \in 1..Len(r.publication) :
            /\ r.publication[i].reserved /\ r.publication[i].batch = b.id
            /\ r.publication[i].start = p.position
            /\ r.publication[i].end = p.position + p.tokens
    ELSE /\ r.publication # <<>> =>
              ~r.publication[1].reserved /\ r.publication[1].batch = b.id
         /\ r.version = p.version /\ Position(r) = p.position

\* What a valid batch says of each of its requests: it is the same lease, version and end
\* still.
LEMMA ValidFacts ==
    ASSUME BankInv, NEW l \in Lane, Batch(l), Valid(batches[l]), NEW s \in DOMAIN batches[l].of
    PROVE  LET b == batches[l]
               p == b.of[s]
               r == requests[s]
           IN  /\ s \in Slot /\ p \in PartType
               /\ r # None /\ Sound(r) /\ r \in RequestType /\ generations[s] = p.lease
               /\ \A c \in Cache : caches[c][s].lease = p.lease /\ caches[c][s].end = Expected(r, c)
               /\ r.phase.stage = b.stage /\ Stands(b, p, r)
               /\ histories[s] # None /\ histories[s].lease = p.lease
               /\ histories[s].at = HistoryEnd(r)
               /\ Agrees(histories[s], r)
               /\ Owns(b, p, r) /\ Planned(b, p, r) /\ Alone(b, histories[s])
<1> DEFINE b == batches[l]
           p == b.of[s]
           r == requests[s]
<1>1. s \in Slot /\ p \in PartType
  BY BatchFields DEF BankInv
<1>2. Committed(s, p.lease)
  BY DEF Valid
<1>3. /\ r # None /\ generations[s] = p.lease
      /\ \A c \in Cache : caches[c][s].lease = p.lease /\ caches[c][s].end = Expected(r, c)
  BY <1>2, CommittedFacts
<1>4. Sound(r) /\ r \in RequestType /\ DOMAIN r.publication = 1..Len(r.publication)
  <2>1. Sound(r)
    BY <1>1, <1>3 DEF BankInv, RequestsInv
  <2> QED BY <2>1, RequestFields DEF Sound
<1>5. /\ r.phase.stage = b.stage /\ histories[s] # None /\ histories[s].lease = p.lease
      /\ histories[s].at = HistoryEnd(r)
  BY DEF Valid
<1>6. Stands(b, p, r)
  BY <1>4 DEF Valid, Stands
<1>7. Agrees(histories[s], r)
  BY <1>1, <1>3, <1>5 DEF BankInv, HistoriesInv
<1>8. Fits(b, p, r, histories[s], generations[s])
  BY DEF BankInv, BatchesInv
<1>9. Owns(b, p, r) /\ Planned(b, p, r) /\ Alone(b, histories[s])
  BY <1>3, <1>8 DEF Fits
<1> QED BY <1>1, <1>3, <1>4, <1>5, <1>6, <1>7, <1>9

\* A cache that the batch has yet to write is not marked in any of its chunks.
LEMMA TodoFacts ==
    ASSUME BankInv, NEW l \in Lane, Batch(l), NEW c \in Todo(batches[l])
    PROVE  /\ c \in Writes(batches[l].stage) /\ c \in Cache
           /\ \A s \in DOMAIN batches[l].of :
                requests[s] # None => Unpublished(batches[l], c, requests[s])
<1>1. c \in Writes(batches[l].stage) /\ c \notin Published(batches[l])
  BY DEF Todo
<1>2. c \in Cache
  BY <1>1, BatchFields, KindFacts DEF BankInv, Stage
<1>3. ASSUME NEW s \in DOMAIN batches[l].of, requests[s] # None
      PROVE  Unpublished(batches[l], c, requests[s])
  <2>1. s \in Slot
    BY BatchFields DEF BankInv
  <2>2. DOMAIN requests[s].publication = 1..Len(requests[s].publication)
    BY <1>3, <2>1, RequestFields DEF BankInv, RequestsInv, Sound
  <2>3. c \notin BitsFor(batches[l], s)
    BY <1>1, <1>3 DEF Published
  <2> QED BY <2>2, <2>3 DEF BitsFor, Unpublished
<1> QED BY <1>1, <1>2, <1>3

\* The version of a part does not matter to what it is.
LEMMA Rebound ==
    ASSUME NEW p \in PartType, NEW v \in Nat
    PROVE  LET q == [p EXCEPT !.version = v] IN
           /\ q \in PartType /\ q.lease = p.lease /\ q.position = p.position
           /\ q.tokens = p.tokens /\ q.version = v
  BY DEF PartType

\* A cache producing a batch's rows keeps the invariant.
LEMMA ProduceKeeps ==
    ASSUME BankInv, NEW l \in Lane, NEW c \in NextToProduce(l), Produce(l, c)
    PROVE  BankInv'
<1> DEFINE b == batches[l]
           S == DOMAIN b.of
           of == [s \in S |-> [b.of[s] EXCEPT !.version = caches[c][s].version]]
           w == [accepted |-> None, of |-> of]
<1>1. /\ Batch(l) /\ Valid(b) /\ c \in Todo(b) /\ waves[l][c] = None
      /\ waves' = [waves EXCEPT ![l][c] = w]
      /\ UNCHANGED <<generations, requests, histories, caches, batches, copies>>
  BY DEF NextToProduce, Produce, Batch
<1>2. /\ c \in Writes(b.stage) /\ c \in Cache
      /\ \A s \in S : requests[s] # None => Unpublished(b, c, requests[s])
  BY <1>1, TodoFacts
<1>3. S \subseteq Slot /\ \A s \in S : b.of[s] \in PartType
  BY <1>1, BatchFields DEF BankInv
<1>4. \A s \in S : caches[c][s].version \in Nat
  BY <1>2, <1>3 DEF BankInv, CachesInv, CacheType
<1>5. /\ DOMAIN of = S
      /\ \A s \in S : /\ of[s] \in PartType /\ of[s].lease = b.of[s].lease
                      /\ of[s].position = b.of[s].position /\ of[s].tokens = b.of[s].tokens
  BY <1>3, <1>4, Rebound
<1>6. of = [s \in S |-> of[s]]
  OBVIOUS
<1> HIDE DEF of
<1>7. w \in WaveType(S) /\ w # None /\ w.accepted = None /\ w.of = of
  <2>1. of \in [S -> PartType]
    BY <1>5, <1>6
  <2>2. w \in WaveType(S) /\ w.accepted = None /\ w.of = of
    BY <2>1 DEF WaveType
  <2> QED BY <2>2, <1>3, BankNone
<1> HIDE DEF w, b, S
<1>8. /\ DOMAIN waves' = Lane /\ \A k \in Lane : DOMAIN waves'[k] = Cache
      /\ waves'[l][c] = w
      /\ \A k \in Lane, d \in Cache : k # l \/ d # c => waves'[k][d] = waves[k][d]
  BY <1>1, <1>2 DEF BankInv, WavesInv
<1>9. RequestsInv' /\ CachesInv' /\ HistoriesInv' /\ BatchesInv'
      /\ copies' \in [Lane -> CopyType \cup {None}]
  BY <1>1 DEF BankInv, RequestsInv, CachesInv, HistoriesInv, BatchesInv, Batch
<1>10. WavesInv'
  <2>1. ASSUME NEW k \in Lane, NEW d \in Cache, waves'[k][d] # None
        PROVE  /\ \E T \in SUBSET Slot : waves'[k][d] \in WaveType(T)
               /\ Batch(k) /\ Carries(waves'[k][d], batches[k]) /\ d \in Writes(batches[k].stage)
               /\ \A s \in DOMAIN batches[k].of :
                     requests[s] # None /\ generations[s] = batches[k].of[s].lease
                       => Unpublished(batches[k], d, requests[s])
    <3>1. CASE k = l /\ d = c
      <4>1. Carries(w, b)
        BY <1>5, <1>7 DEF Carries, S
      <4>2. S \in SUBSET Slot
        BY <1>3
      <4> QED BY <3>1, <4>1, <4>2, <1>1, <1>2, <1>7, <1>8 DEF b, S
    <3>2. CASE k # l \/ d # c
      BY <2>1, <3>2, <1>8 DEF BankInv, WavesInv
    <3> QED BY <3>1, <3>2
  <2> QED BY <2>1, <1>1, <1>8 DEF WavesInv, Batch
<1>11. WritesInv'
  <2>1. \A k \in Lane, d \in Cache, s \in Slot : Writer(k, d, s)' <=> Writer(k, d, s)
    <3> SUFFICES ASSUME NEW k \in Lane, NEW d \in Cache, NEW s \in Slot
                 PROVE  Writer(k, d, s)' <=> Writer(k, d, s)
      OBVIOUS
    <3>1. CASE k = l /\ d = c
      <4>1. ~Pending(l, c) /\ ~Pending(l, c)'
        BY <1>1, <1>7, <1>8 DEF Pending
      <4> QED BY <3>1, <4>1 DEF Writer
    <3>2. CASE k # l \/ d # c
      <4>1. waves'[k][d] = waves[k][d]
        BY <3>2, <1>8
      <4> QED BY <4>1 DEF Writer, Pending
    <3> QED BY <3>1, <3>2
  <2>2. ASSUME NEW k \in Lane, NEW d \in Cache, NEW s \in Slot, Writer(k, d, s)
        PROVE  waves'[k][d] = waves[k][d]
    <3>1. k # l \/ d # c
      BY <2>2, <1>1 DEF Writer, Pending
    <3> QED BY <3>1, <1>8
  <2> QED BY <2>1, <2>2, <1>1 DEF BankInv, WritesInv
<1> QED BY <1>9, <1>10, <1>11 DEF BankInv

\* The lane l queues the waves of its batch to the caches C.
Queues(l, C) ==
    /\ UNCHANGED <<generations, requests, histories, batches, copies>>
    /\ DOMAIN waves' = Lane /\ \A k \in Lane : DOMAIN waves'[k] = Cache
    /\ \A k \in Lane, c \in Cache : k # l \/ c \notin C => waves'[k][c] = waves[k][c]
    /\ \A c \in C :
        /\ Ready(l, c)
        /\ waves'[l][c] # None /\ waves'[l][c].accepted # None
        /\ waves'[l][c].of = waves[l][c].of
        /\ waves'[l][c] \in WaveType(DOMAIN batches[l].of)
    /\ caches' = [c \in Cache |-> [s \in Slot |-> caches'[c][s]]]
    /\ \A c \in Cache, s \in Slot :
        caches'[c][s] = IF c \in C /\ s \in DOMAIN batches[l].of
                        THEN [caches[c][s] EXCEPT !.writing = TRUE] ELSE caches[c][s]

\* Queueing a write marks the cache slot and leaves lease, end and version.
LEMMA CacheQueued ==
    ASSUME NEW x \in CacheType
    PROVE  LET y == [x EXCEPT !.writing = TRUE] IN
           /\ y \in CacheType /\ y.lease = x.lease /\ y.end = x.end /\ y.version = x.version
           /\ y.writing = TRUE
  BY DEF CacheType

\* Queueing the writes of a valid batch in some caches keeps the invariant.
LEMMA QueueKeeps ==
    ASSUME BankInv, NEW l \in Lane, Batch(l), Valid(batches[l]), NEW C \in SUBSET Cache,
           Queues(l, C)
    PROVE  BankInv'
<1> DEFINE b == batches[l]
           S == DOMAIN b.of
<1>1. RequestsInv' /\ HistoriesInv' /\ BatchesInv' /\ copies' \in [Lane -> CopyType \cup {None}]
  BY DEF BankInv, RequestsInv, HistoriesInv, BatchesInv, Batch, Queues
<1>2. \A c \in Cache, s \in Slot :
        /\ caches'[c][s] \in CacheType /\ caches'[c][s].lease = caches[c][s].lease
        /\ caches'[c][s].end = caches[c][s].end /\ caches'[c][s].version = caches[c][s].version
        /\ caches'[c][s].writing <=> caches[c][s].writing \/ (c \in C /\ s \in S)
  <2> SUFFICES ASSUME NEW c \in Cache, NEW s \in Slot
               PROVE  /\ caches'[c][s] \in CacheType /\ caches'[c][s].lease = caches[c][s].lease
                      /\ caches'[c][s].end = caches[c][s].end
                      /\ caches'[c][s].version = caches[c][s].version
                      /\ caches'[c][s].writing <=> caches[c][s].writing \/ (c \in C /\ s \in S)
    OBVIOUS
  <2>1. caches[c][s] \in CacheType
    BY DEF BankInv, CachesInv
  <2>2. CASE c \in C /\ s \in S
    <3>1. caches'[c][s] = [caches[c][s] EXCEPT !.writing = TRUE]
      BY <2>2 DEF Queues
    <3> QED BY <2>1, <2>2, <3>1, CacheQueued
  <2>3. CASE ~(c \in C /\ s \in S)
    <3>1. caches'[c][s] = caches[c][s]
      BY <2>3 DEF Queues
    <3> QED BY <2>1, <2>3, <3>1
  <2> QED BY <2>2, <2>3
<1>3. CachesInv'
  <2>1. caches' = [c \in Cache |-> [s \in Slot |-> caches'[c][s]]]
    BY DEF Queues
  <2>2. caches' \in [Cache -> [Slot -> CacheType]]
    BY <1>2, <2>1
  <2>3. \A c \in Cache, s \in Slot : Follows(caches'[c][s], requests[s], generations[s], c)
    BY <1>2 DEF BankInv, CachesInv, Follows
  <2> QED BY <2>2, <2>3 DEF CachesInv, Queues
<1>4. S \in SUBSET Slot
  BY BatchFields DEF BankInv
<1>5. ASSUME NEW c \in C
      PROVE  /\ waves[l][c] # None /\ waves[l][c].accepted = None
             /\ BindingFits(c, waves[l][c].of) /\ c \in Cache
             /\ DOMAIN waves[l][c].of = S /\ Carries(waves[l][c], b)
             /\ \A s \in S : ~caches[c][s].writing
  <2>1. /\ waves[l][c] # None /\ waves[l][c].accepted = None /\ BindingFits(c, waves[l][c].of)
        /\ \A s \in DOMAIN waves[l][c].of : ~caches[c][s].writing
    BY DEF Queues, Ready
  <2>2. Carries(waves[l][c], b)
    BY <2>1 DEF BankInv, WavesInv
  <2> QED BY <2>1, <2>2 DEF Carries
<1>6. WavesInv'
  <2>1. ASSUME NEW k \in Lane, NEW c \in Cache, waves'[k][c] # None
        PROVE  /\ \E T \in SUBSET Slot : waves'[k][c] \in WaveType(T)
               /\ Batch(k) /\ Carries(waves'[k][c], batches[k]) /\ c \in Writes(batches[k].stage)
               /\ \A s \in DOMAIN batches[k].of :
                     requests[s] # None /\ generations[s] = batches[k].of[s].lease
                       => Unpublished(batches[k], c, requests[s])
    <3>1. CASE k = l /\ c \in C
      <4>1. waves'[l][c] \in WaveType(S) /\ waves'[l][c].of = waves[l][c].of
        BY <3>1 DEF Queues
      <4>2. Carries(waves'[l][c], b)
        BY <3>1, <4>1, <1>5 DEF Carries
      <4> QED BY <3>1, <4>1, <4>2, <1>4, <1>5 DEF BankInv, WavesInv
    <3>2. CASE k # l \/ c \notin C
      <4>1. waves'[k][c] = waves[k][c]
        BY <3>2 DEF Queues
      <4> QED BY <2>1, <4>1 DEF BankInv, WavesInv
    <3> QED BY <3>1, <3>2
  <2> QED BY <2>1 DEF WavesInv, Batch, Queues
<1>7. \A k \in Lane, c \in Cache, s \in Slot :
        Writer(k, c, s)' <=> Writer(k, c, s) \/ (k = l /\ c \in C /\ s \in S)
  <2> SUFFICES ASSUME NEW k \in Lane, NEW c \in Cache, NEW s \in Slot
               PROVE  Writer(k, c, s)' <=> Writer(k, c, s) \/ (k = l /\ c \in C /\ s \in S)
    OBVIOUS
  <2>1. CASE k = l /\ c \in C
    <3>1. Pending(l, c)' /\ DOMAIN waves'[l][c].of = S /\ DOMAIN waves[l][c].of = S
      BY <2>1, <1>5 DEF Pending, Queues
    <3> QED BY <2>1, <3>1 DEF Writer
  <2>2. CASE k # l \/ c \notin C
    <3>1. waves'[k][c] = waves[k][c]
      BY <2>2 DEF Queues
    <3> QED BY <2>2, <3>1 DEF Writer, Pending
  <2> QED BY <2>1, <2>2
<1>8. \A k \in Lane, c \in Cache : waves[k][c] # None => waves'[k][c].of = waves[k][c].of
  BY DEF Queues
<1>9. \A k \in Lane, c \in C, s \in S : ~Writer(k, c, s)
  BY <1>4, <1>5 DEF BankInv, WritesInv
<1>10. WritesInv'
  <2>1. ASSUME NEW c \in Cache, NEW s \in Slot, caches'[c][s].writing
        PROVE  \E k \in Lane : Writer(k, c, s)'
    BY <2>1, <1>2, <1>7 DEF BankInv, WritesInv
  <2>2. ASSUME NEW k \in Lane, NEW c \in Cache, NEW s \in Slot, Writer(k, c, s)'
        PROVE  /\ caches'[c][s].writing
               /\ Right(waves'[k][c].of[s], caches'[c][s], requests'[s], generations'[s])
    <3>1. requests' = requests /\ generations' = generations
      BY DEF Queues
    <3>2. CASE Writer(k, c, s)
      <4>1. /\ caches[c][s].writing
            /\ Right(waves[k][c].of[s], caches[c][s], requests[s], generations[s])
        BY <3>2 DEF BankInv, WritesInv
      <4>2. waves'[k][c].of = waves[k][c].of
        BY <3>2, <1>8 DEF Writer, Pending
      <4> QED BY <3>1, <4>1, <4>2, <1>2 DEF Right
    <3>3. CASE k = l /\ c \in C /\ s \in S
      <4>1. /\ waves[l][c].of[s].lease = b.of[s].lease /\ waves'[l][c].of = waves[l][c].of
            /\ caches[c][s].lease = waves[l][c].of[s].lease
            /\ caches[c][s].end = waves[l][c].of[s].position
            /\ caches[c][s].version = waves[l][c].of[s].version
        BY <3>3, <1>5, <1>8 DEF Carries, BindingFits, PartFits
      <4>2. requests[s] # None /\ generations[s] = b.of[s].lease
        BY <3>3, ValidFacts
      <4> QED BY <3>1, <3>3, <4>1, <4>2, <1>2 DEF Right
    <3> QED BY <2>2, <3>2, <3>3, <1>7
  <2>3. ASSUME NEW k \in Lane, NEW j \in Lane, NEW c \in Cache, NEW s \in Slot,
               Writer(k, c, s)', Writer(j, c, s)'
        PROVE  k = j
    BY <2>3, <1>7, <1>9 DEF BankInv, WritesInv
  <2> QED BY <2>1, <2>2, <2>3 DEF WritesInv
<1> QED BY <1>1, <1>3, <1>6, <1>10 DEF BankInv

\* A wave with its accepted rows decided.
LEMMA Decided ==
    ASSUME NEW S \in SUBSET Slot, NEW w \in WaveType(S), NEW a \in [S -> Token]
    PROVE  LET v == [w EXCEPT !.accepted = a] IN
           v \in WaveType(S) /\ v # None /\ v.accepted = a /\ v.accepted # None /\ v.of = w.of
<1> DEFINE A == [S -> Token]
           v == [w EXCEPT !.accepted = a]
<1>1. w \in [accepted : A \cup {None}, of : [S -> PartType]] /\ a \in A
  BY DEF WaveType
<1> HIDE DEF A
<1>2. v \in [accepted : A \cup {None}, of : [S -> PartType]] /\ v.accepted = a /\ v.of = w.of
  BY <1>1
<1>3. v \in WaveType(S)
  BY <1>2 DEF WaveType, A
<1>4. v # None /\ a # None
  BY <1>3, BankNone
<1> QED BY <1>2, <1>3, <1>4

\* The wave of a batch is for the batch's requests.
LEMMA WaveFields ==
    ASSUME BankInv, NEW l \in Lane, NEW c \in Cache, waves[l][c] # None
    PROVE  LET b == batches[l]
               w == waves[l][c]
           IN  /\ Batch(l) /\ DOMAIN b.of \in SUBSET Slot /\ DOMAIN w.of = DOMAIN b.of
               /\ w \in WaveType(DOMAIN b.of) /\ w.of \in [DOMAIN b.of -> PartType]
               /\ Carries(w, b) /\ c \in Writes(b.stage)
<1>1. PICK S \in SUBSET Slot : waves[l][c] \in WaveType(S)
  BY DEF BankInv, WavesInv
<1>2. Batch(l) /\ Carries(waves[l][c], batches[l]) /\ c \in Writes(batches[l].stage)
  BY DEF BankInv, WavesInv
<1>3. waves[l][c].of \in [S -> PartType] /\ DOMAIN waves[l][c].of = S
  BY <1>1 DEF WaveType
<1>4. DOMAIN batches[l].of = S
  BY <1>2, <1>3 DEF Carries
<1> QED BY <1>1, <1>2, <1>3, <1>4

\* The numbers of tokens of a batch's parts are numbers of tokens.
LEMMA TokensTyped ==
    ASSUME NEW S, NEW of \in [S -> PartType]
    PROVE  Tokens(of) \in [S -> Token]
  BY PartFields DEF Tokens

\* What the checks before a publication establish.
LEMMA PublishableFacts ==
    ASSUME BankInv, NEW l \in Lane, NEW c \in Publishable(l)
    PROVE  LET b == batches[l] IN
           /\ Batch(l) /\ Valid(b) /\ Agreed(b) /\ b.stage = "Encoder"
           /\ c \in Cache /\ c \in Todo(b) /\ c \in Writes("Encoder") /\ Offers(l, c)
<1>1. /\ Batch(l) /\ Valid(batches[l]) /\ Agreed(batches[l]) /\ batches[l].stage = "Encoder"
      /\ c \in Todo(batches[l]) /\ Offers(l, c)
  BY DEF Publishable, Batch
<1> QED BY <1>1, TodoFacts

\* Queueing an encoder publication keeps the invariant.
LEMMA EnqueueEncoderKeeps ==
    ASSUME BankInv, NEW l \in Lane, NEW c \in Publishable(l), EnqueueEncoder(l, c)
    PROVE  BankInv'
<1> DEFINE w == waves[l][c]
           S == DOMAIN batches[l].of
           a == Tokens(w.of)
           v == [w EXCEPT !.accepted = a]
<1>1. /\ Ready(l, c) /\ caches' = Queued(caches, c, w.of)
      /\ waves' = [waves EXCEPT ![l][c].accepted = a]
      /\ UNCHANGED <<generations, requests, histories, batches, copies>>
  BY DEF EnqueueEncoder
<1>2. Batch(l) /\ Valid(batches[l]) /\ c \in Cache
  BY PublishableFacts
<1>3. /\ DOMAIN w.of = S /\ w \in WaveType(S) /\ w.of \in [S -> PartType] /\ S \in SUBSET Slot
  BY <1>1, <1>2, WaveFields DEF Ready
<1>4. a \in [S -> Token]
  BY <1>3, TokensTyped
<1>5. v \in WaveType(S) /\ v # None /\ v.accepted # None /\ v.of = w.of
  <2> HIDE DEF w, S, a
  <2> QED BY ONLY <1>3, <1>4, Decided DEF v
<1>6. waves' = [waves EXCEPT ![l][c] = v]
  BY <1>1
<1> HIDE DEF v, a, S
<1>7. /\ DOMAIN waves' = Lane /\ \A k \in Lane : DOMAIN waves'[k] = Cache
      /\ waves'[l][c] = v
      /\ \A k \in Lane, d \in Cache : k # l \/ d \notin {c} => waves'[k][d] = waves[k][d]
  BY <1>2, <1>6 DEF BankInv, WavesInv
<1>8. /\ caches' = [d \in Cache |-> [s \in Slot |-> caches'[d][s]]]
      /\ \A d \in Cache, s \in Slot :
           caches'[d][s] = IF d \in {c} /\ s \in S
                           THEN [caches[d][s] EXCEPT !.writing = TRUE] ELSE caches[d][s]
  <2>1. caches' = [caches EXCEPT ![c] = [s \in Slot |->
              IF s \in S THEN [caches[c][s] EXCEPT !.writing = TRUE] ELSE caches[c][s]]]
    BY <1>1, <1>3 DEF Queued
  <2>2. DOMAIN caches' = Cache /\ \A d \in Cache : DOMAIN caches'[d] = Slot
    BY <2>1 DEF BankInv, CachesInv
  <2>3. \A d \in Cache : caches'[d] = [s \in Slot |-> caches'[d][s]]
    BY <2>1 DEF BankInv, CachesInv
  <2>4. caches' = [d \in Cache |-> caches'[d]]
    BY <2>1 DEF BankInv, CachesInv
  <2>5. \A d \in Cache, s \in Slot :
           caches'[d][s] = IF d \in {c} /\ s \in S
                           THEN [caches[d][s] EXCEPT !.writing = TRUE] ELSE caches[d][s]
    BY <2>1, <1>2 DEF BankInv, CachesInv
  <2> QED BY <2>3, <2>4, <2>5
<1>9. {c} \in SUBSET Cache
  BY <1>2
<1>10. Queues(l, {c})
  BY <1>1, <1>5, <1>7, <1>8 DEF Queues, S, w
<1> QED BY <1>2, <1>9, <1>10, QueueKeeps

\* What the checks before a commit establish.
LEMMA AcceptsFacts ==
    ASSUME BankInv, NEW l \in Lane, NEW a \in Accepts(l)
    PROVE  LET b == batches[l] IN
           /\ Batch(l) /\ Valid(b) /\ Agreed(b) /\ InOrder(b)
           /\ b.reserved => Todo(b) = {}
           /\ \A c \in Todo(b) : Offers(l, c)
           /\ DOMAIN b.of \subseteq Slot /\ Todo(b) \in SUBSET Cache
           /\ a \in [DOMAIN b.of -> Token]
           /\ \A s \in DOMAIN b.of : a[s] <= b.of[s].tokens
           /\ Published(b) # {} => a = Tokens(b.of)
<1> DEFINE b == batches[l]
<1>1. Batch(l) /\ Valid(b)
  BY DEF Accepts, Batch
<1>2. /\ Agreed(b) /\ InOrder(b) /\ (b.reserved => Todo(b) = {})
      /\ \A c \in Todo(b) : Offers(l, c)
  BY <1>1 DEF Accepts
<1>3. /\ a \in [DOMAIN b.of -> Token] /\ \A s \in DOMAIN b.of : a[s] <= b.of[s].tokens
      /\ Published(b) # {} => a = Tokens(b.of)
  BY <1>1, <1>2 DEF Accepts, Batch
<1>4. DOMAIN b.of \subseteq Slot
  BY <1>1, BatchFields DEF BankInv
<1>5. Todo(b) \in SUBSET Cache
  BY <1>1, TodoFacts
<1> QED BY <1>1, <1>2, <1>3, <1>4, <1>5

\* Queueing a commit keeps the invariant.
LEMMA EnqueueCommitKeeps ==
    ASSUME BankInv, NEW l \in Lane, NEW a \in Accepts(l), EnqueueCommit(l, a)
    PROVE  BankInv'
<1> DEFINE b == batches[l]
           S == DOMAIN b.of
           C == Todo(b)
           v(c) == [waves[l][c] EXCEPT !.accepted = a]
<1>1. /\ \A c \in C : Ready(l, c)
      /\ caches' = [c \in Cache |-> IF c \in C THEN Queued(caches, c, b.of)[c] ELSE caches[c]]
      /\ waves' = [waves EXCEPT ![l] = [c \in Cache |-> IF c \in C THEN v(c) ELSE waves[l][c]]]
      /\ UNCHANGED <<generations, requests, histories, batches, copies>>
  BY DEF EnqueueCommit
<1>2. Batch(l) /\ Valid(b) /\ C \in SUBSET Cache /\ S \in SUBSET Slot /\ a \in [S -> Token]
  BY AcceptsFacts
<1> HIDE DEF C
<1>3. ASSUME NEW c \in C
      PROVE  v(c) \in WaveType(S) /\ v(c) # None /\ v(c).accepted # None /\ v(c).of = waves[l][c].of
  <2>1. waves[l][c] # None
    BY <1>1 DEF Ready
  <2>2. waves[l][c] \in WaveType(S) /\ c \in Cache
    BY <2>1, <1>2, WaveFields
  <2> DEFINE w == waves[l][c]
  <2>3. w \in WaveType(S) /\ S \in SUBSET Slot /\ a \in [S -> Token] /\ v(c) = [w EXCEPT !.accepted = a]
    BY <2>2, <1>2
  <2> HIDE DEF w, S, v
  <2>4. v(c) \in WaveType(S) /\ v(c) # None /\ v(c).accepted # None /\ v(c).of = w.of
    BY ONLY <2>3, Decided
  <2> QED BY <2>4 DEF w
<1> HIDE DEF v, S
<1>4. /\ DOMAIN waves' = Lane /\ \A k \in Lane : DOMAIN waves'[k] = Cache
      /\ \A c \in C : waves'[l][c] = v(c)
      /\ \A k \in Lane, d \in Cache : k # l \/ d \notin C => waves'[k][d] = waves[k][d]
  BY <1>1, <1>2 DEF BankInv, WavesInv
<1>5. ASSUME NEW c \in C
      PROVE  Queued(caches, c, b.of)[c]
               = [s \in Slot |-> IF s \in S THEN [caches[c][s] EXCEPT !.writing = TRUE]
                                 ELSE caches[c][s]]
  BY <1>2 DEF Queued, S, BankInv, CachesInv
<1>6. \A c \in Cache :
        caches'[c] = [s \in Slot |-> IF c \in C /\ s \in S
                                     THEN [caches[c][s] EXCEPT !.writing = TRUE] ELSE caches[c][s]]
  <2> SUFFICES ASSUME NEW c \in Cache
               PROVE  caches'[c] = [s \in Slot |->
                          IF c \in C /\ s \in S
                          THEN [caches[c][s] EXCEPT !.writing = TRUE] ELSE caches[c][s]]
    OBVIOUS
  <2>1. CASE c \in C
    BY <2>1, <1>1, <1>5
  <2>2. CASE c \notin C
    <3>1. caches'[c] = caches[c] /\ caches[c] = [s \in Slot |-> caches[c][s]]
      BY <2>2, <1>1 DEF BankInv, CachesInv
    <3> QED BY <2>2, <3>1
  <2> QED BY <2>1, <2>2
<1>7. caches' = [c \in Cache |-> [s \in Slot |-> caches'[c][s]]]
  <2>1. caches' = [c \in Cache |-> caches'[c]]
    BY <1>1
  <2>2. \A c \in Cache : caches'[c] = [s \in Slot |-> caches'[c][s]]
    BY <1>6
  <2> QED BY <2>1, <2>2
<1>8. Queues(l, C)
  <2>1. \A c \in C : /\ Ready(l, c) /\ waves'[l][c] # None /\ waves'[l][c].accepted # None
                     /\ waves'[l][c].of = waves[l][c].of /\ waves'[l][c] \in WaveType(S)
    BY <1>1, <1>3, <1>4
  <2>2. \A c \in Cache, s \in Slot :
          caches'[c][s] = IF c \in C /\ s \in S
                          THEN [caches[c][s] EXCEPT !.writing = TRUE] ELSE caches[c][s]
    BY <1>6
  <2> QED BY <1>1, <1>4, <1>7, <2>1, <2>2 DEF Queues, S
<1> QED BY <1>2, <1>8, QueueKeeps

\* Queueing a prefix copy keeps the invariant.
LEMMA QueuePrefixKeeps ==
    ASSUME BankInv, NEW l \in Lane, NEW s \in Slot, QueuePrefix(l, s)
    PROVE  BankInv'
<1> DEFINE x == [slot |-> s, lease |-> generations[s], end |-> requests[s].end]
<1>1. /\ copies' = [copies EXCEPT ![l] = x]
      /\ UNCHANGED <<generations, requests, histories, caches, batches, waves>>
      /\ requests[s] # None
  BY CommittedFacts DEF QueuePrefix
<1>2. x \in CopyType
  <2>1. requests[s].end \in Token /\ generations[s] \in Nat
    BY <1>1, RequestFields DEF BankInv, RequestsInv
  <2> QED BY <2>1 DEF CopyType, Lease
<1> HIDE DEF x
<1>3. copies' \in [Lane -> CopyType \cup {None}]
  BY <1>1, <1>2 DEF BankInv
<1> QED BY <1>1, <1>3 DEF BankInv, RequestsInv, CachesInv, HistoriesInv, BatchesInv, WavesInv,
                          WritesInv, Writer, Pending, Batch

\* Ending a prefix copy keeps the invariant.
LEMMA EndPrefixKeeps ==
    ASSUME BankInv, NEW l \in Lane, EndPrefix(l)
    PROVE  BankInv'
<1>1. copies' \in [Lane -> CopyType \cup {None}]
  BY DEF BankInv, EndPrefix
<1> QED BY <1>1 DEF EndPrefix, BankInv, RequestsInv, CachesInv, HistoriesInv, BatchesInv, WavesInv,
                    WritesInv, Writer, Pending, Batch

-----------------------------------------------------------------------------
(* Steps that plan a batch. *)

\* A call's work names some slots and a positive number of tokens for each.
LEMMA WorkFacts ==
    ASSUME NEW w \in Work
    PROVE  /\ DOMAIN w \in SUBSET Slot /\ DOMAIN w # {}
           /\ \A s \in DOMAIN w : w[s] \in Token /\ w[s] \in Nat /\ w[s] > 0
<1>1. PICK S \in (SUBSET Slot) \ {{}} : w \in [S -> UNION {Chunks[g] : g \in Stage}]
  BY DEF Work
<1>2. \A g \in Stage : Chunks[g] \subseteq 1..MAX_TOKENS
  BY BankConstants
<1>3. \A s \in S : w[s] \in 1..MAX_TOKENS
  BY <1>1, <1>2
<1>4. \A s \in S : w[s] \in Token /\ w[s] \in Nat /\ w[s] > 0
  BY <1>3, BankConstants DEF Token
<1>5. DOMAIN w = S
  BY <1>1
<1> QED BY <1>1, <1>4, <1>5

\* A request gets a chunk behind the ones outstanding, and nobody but chunks of it
\* is at work on it.
Extended(s) ==
    /\ requests[s] # None /\ requests'[s] # None /\ Sound(requests'[s])
    /\ Same(requests[s], requests'[s]) /\ Position(requests'[s]) = Position(requests[s])
    /\ \A c \in Cache : Expected(requests'[s], c) = Expected(requests[s], c)
    /\ Agrees(histories'[s], requests'[s])
    /\ \A i \in 1..Len(requests'[s].publication) :
        \/ requests'[s].publication[i].batch = FreshId
        \/ /\ i \in 1..Len(requests[s].publication)
           /\ requests'[s].publication[i] = requests[s].publication[i]
    /\ \A k \in Lane : Holds(k, s) => batches[k].reserved

\* A new batch that fits its requests, on a lane without one, keeps the invariant.
LEMMA PlanKeeps ==
    ASSUME BankInv, NEW l \in Lane, batches[l] = None, NEW S \in SUBSET Slot,
           NEW nb \in BatchType(S), nb.id = FreshId, nb.reserved => nb.stage = "Encoder",
           batches' = [batches EXCEPT ![l] = nb],
           UNCHANGED <<generations, caches, waves, copies>>,
           requests' \in [Slot -> RequestType \cup {None}],
           histories' \in [Slot -> HistoryType \cup {None}],
           \A s \in Slot : \/ requests'[s] = requests[s] /\ histories'[s] = histories[s]
                           \/ Extended(s),
           \A s \in S : Fits(nb, nb.of[s], requests'[s], histories'[s], generations[s])
    PROVE  BankInv'
<1> USE DEF BankInv
<1>1. RequestsInv'
  BY DEF RequestsInv, Extended
<1>2. CachesInv'
  BY DEF CachesInv, Follows, Extended
<1>3. HistoriesInv'
  BY DEF HistoriesInv, Extended
<1>4. /\ FreshId \in BatchId
      /\ \A k \in Lane : Batch(k) => batches[k].id # FreshId
  BY FreshIdUnused
<1>5. /\ DOMAIN nb.of = S /\ nb # None
      /\ DOMAIN batches' = Lane /\ batches'[l] = nb
      /\ \A k \in Lane \ {l} : batches'[k] = batches[k]
  BY BankNone DEF BatchType, BatchesInv
<1>6. \A k \in Lane : Batch(k)' <=> Batch(k) \/ k = l
  BY <1>5 DEF Batch
<1>7. ~Batch(l)
  BY DEF Batch
<1>8. ASSUME NEW k \in Lane, Batch(k), NEW s \in DOMAIN batches[k].of
      PROVE  /\ s \in Slot
             /\ Fits(batches[k], batches[k].of[s], requests'[s], histories'[s], generations[s])
             /\ requests'[s] # None /\ generations[s] = batches[k].of[s].lease =>
                  /\ requests[s] # None
                  /\ \A i \in 1..Len(requests'[s].publication) :
                       requests'[s].publication[i].batch = batches[k].id =>
                         /\ i \in 1..Len(requests[s].publication)
                         /\ requests'[s].publication[i] = requests[s].publication[i]
  <2> DEFINE b == batches[k]
             p == b.of[s]
  <2>1. s \in Slot
    BY <1>8, BatchFields
  <2>2. Fits(b, p, requests[s], histories[s], generations[s])
    BY <1>8 DEF BatchesInv
  <2>3. CASE requests'[s] = requests[s] /\ histories'[s] = histories[s]
    BY <2>1, <2>2, <2>3
  <2>4. CASE Extended(s)
    <3>1. \A i \in 1..Len(requests'[s].publication) :
            requests'[s].publication[i].batch = b.id =>
              /\ i \in 1..Len(requests[s].publication)
              /\ requests'[s].publication[i] = requests[s].publication[i]
      BY <1>4, <1>8, <2>4 DEF Extended
    <3>2. ASSUME generations[s] = p.lease
          PROVE  /\ Owns(b, p, requests'[s]) /\ Planned(b, p, requests'[s])
                 /\ Alone(b, histories'[s])
      <4>1. Owns(b, p, requests[s]) /\ Planned(b, p, requests[s])
        BY <2>2, <2>4, <3>2 DEF Fits, Extended
      <4>2. Owns(b, p, requests'[s])
        BY <3>1, <4>1 DEF Owns
      <4>3. Planned(b, p, requests'[s])
        BY <4>1, <2>4 DEF Planned, Extended, Same
      <4>4. b.reserved
        BY <1>8, <2>4, <3>2 DEF Extended, Holds, Batch
      <4> QED BY <4>2, <4>3, <4>4 DEF Alone
    <3>3. Fits(b, p, requests'[s], histories'[s], generations[s])
      BY <2>2, <3>2 DEF Fits
    <3>4. requests[s] # None
      BY <2>4 DEF Extended
    <3> QED BY <2>1, <3>1, <3>3, <3>4
  <2> QED BY <2>1, <2>3, <2>4
<1>9. BatchesInv'
  <2>1. ASSUME NEW k \in Lane, Batch(k)'
        PROVE  /\ \E T \in SUBSET Slot : batches'[k] \in BatchType(T)
               /\ batches'[k].reserved => batches'[k].stage = "Encoder"
               /\ \A s \in DOMAIN batches'[k].of :
                     Fits(batches'[k], batches'[k].of[s], requests'[s], histories'[s], generations'[s])
    <3>1. CASE k = l
      BY <3>1, <1>5
    <3>2. CASE k # l
      <4>1. Batch(k) /\ batches'[k] = batches[k]
        BY <2>1, <3>2, <1>5, <1>6
      <4> QED BY <4>1, <1>8 DEF BatchesInv
    <3> QED BY <3>1, <3>2
  <2>2. ASSUME NEW j \in Lane, NEW k \in Lane, Batch(j)', Batch(k)', batches'[j].id = batches'[k].id
        PROVE  j = k
    BY <2>2, <1>4, <1>5, <1>6 DEF BatchesInv
  <2> QED BY <2>1, <2>2, <1>5 DEF BatchesInv
<1>10. \A k \in Lane, c \in Cache : waves[k][c] # None => k # l /\ Batch(k)
  BY <1>7 DEF WavesInv
<1>11. WavesInv'
  <2>1. ASSUME NEW k \in Lane, NEW c \in Cache, waves[k][c] # None
        PROVE  /\ \E T \in SUBSET Slot : waves[k][c] \in WaveType(T)
               /\ Batch(k)' /\ Carries(waves[k][c], batches'[k]) /\ c \in Writes(batches'[k].stage)
               /\ \A s \in DOMAIN batches'[k].of :
                     requests'[s] # None /\ generations[s] = batches'[k].of[s].lease
                       => Unpublished(batches'[k], c, requests'[s])
    <3>1. Batch(k) /\ batches'[k] = batches[k] /\ Batch(k)'
      BY <2>1, <1>5, <1>6, <1>10
    <3>2. ASSUME NEW s \in DOMAIN batches[k].of, requests'[s] # None,
                 generations[s] = batches[k].of[s].lease
          PROVE  Unpublished(batches[k], c, requests'[s])
      <4>1. Unpublished(batches[k], c, requests[s])
        BY <2>1, <3>1, <3>2, <1>8 DEF WavesInv
      <4> QED BY <3>1, <3>2, <4>1, <1>8 DEF Unpublished
    <3> QED BY <2>1, <3>1, <3>2 DEF WavesInv
  <2> QED BY <2>1 DEF WavesInv
<1>12. WritesInv'
  <2>1. \A k \in Lane, c \in Cache, s \in Slot : Writer(k, c, s)' <=> Writer(k, c, s)
    BY DEF Writer, Pending
  <2>2. \A s \in Slot : requests[s] # None => requests'[s] # None
    BY DEF Extended
  <2> QED BY <2>1, <2>2 DEF WritesInv, Right
<1> QED BY <1>1, <1>2, <1>3, <1>9, <1>11, <1>12

\* prepare keeps the invariant.
LEMMA PrepareKeeps ==
    ASSUME BankInv, NEW l \in Lane, NEW w \in Work, Prepare(l, w)
    PROVE  BankInv'
<1> DEFINE S == DOMAIN w
           of == [s \in S |-> Part(s, Position(requests[s]), w[s])]
<1>1. S \in SUBSET Slot /\ S # {} /\ \A s \in S : w[s] \in Token /\ w[s] \in Nat /\ w[s] > 0
  BY WorkFacts
<1>2. PICK stage \in {requests[s].phase.stage : s \in S} :
        /\ \A s \in S :
            /\ Committed(s, generations[s]) /\ requests[s].phase.stage = stage
            /\ requests[s].publication = <<>>
            /\ Position(requests[s]) + w[s] <= Extent(requests[s].phase)
            /\ histories[s] # None
            /\ stage # "Replay" => histories[s].prepared = None
        /\ batches' = [batches EXCEPT ![l] =
              [id |-> FreshId, stage |-> stage, reserved |-> FALSE, of |-> of]]
  BY DEF Prepare
<1>3. batches[l] = None /\ UNCHANGED <<generations, requests, histories, caches, waves, copies>>
  BY DEF Prepare
<1>4. ASSUME NEW s \in S
      PROVE  /\ of[s] \in PartType /\ of[s].lease = generations[s] /\ generations[s] \in Nat
             /\ of[s].version = requests[s].version /\ of[s].position = Position(requests[s])
             /\ of[s].tokens = w[s] /\ requests[s].version \in Nat /\ stage \in Stage
  <2>1. requests[s] # None /\ s \in Slot
    BY <1>1, <1>2, CommittedFacts
  <2>2. requests[s] \in RequestType /\ generations[s] \in Nat
    BY <2>1 DEF BankInv, RequestsInv
  <2>3. /\ requests[s].version \in Nat /\ requests[s].end \in Token
        /\ requests[s].phase.end \in Token /\ requests[s].phase.stage \in Stage
    BY <2>2, RequestFields, PhaseFields
  <2>4. Position(requests[s]) \in Token
    BY <2>3 DEF Position
  <2>5. /\ of[s].lease = generations[s] /\ of[s].version = requests[s].version
        /\ of[s].position = Position(requests[s]) /\ of[s].tokens = w[s]
    BY DEF Part
  <2>6. of[s] \in PartType
    BY <1>1, <2>2, <2>3, <2>4 DEF Part, PartType, Lease
  <2> QED BY <1>2, <2>2, <2>3, <2>5, <2>6
<1> DEFINE nb == [id |-> FreshId, stage |-> stage, reserved |-> FALSE, of |-> of]
<1>5. of \in [S -> PartType] /\ stage \in Stage
  BY <1>1, <1>4
<1>6. FreshId \in BatchId
  BY <1>3, FreshIdUnused DEF BankInv
<1>7. nb \in BatchType(S) /\ nb.id = FreshId /\ nb.reserved = FALSE /\ nb.stage = stage /\ nb.of = of
  <2> HIDE DEF of
  <2> QED BY <1>5, <1>6 DEF BatchType
<1> HIDE DEF nb, of
<1>8. ASSUME NEW s \in S
      PROVE  Fits(nb, nb.of[s], requests[s], histories[s], generations[s])
  <2>1. /\ requests[s].publication = <<>> /\ requests[s].phase.stage = stage
        /\ Position(requests[s]) + w[s] <= Extent(requests[s].phase)
        /\ stage # "Replay" => histories[s].prepared = None
    BY <1>2
  <2>2. /\ of[s].lease = generations[s] /\ of[s].version = requests[s].version
        /\ of[s].position = Position(requests[s]) /\ of[s].tokens = w[s]
        /\ generations[s] \in Nat /\ requests[s].version \in Nat
    BY <1>4
  <2>3. Owns(nb, of[s], requests[s])
    BY <2>1 DEF Owns
  <2>4. Planned(nb, of[s], requests[s])
    BY <2>1, <2>2, <1>7 DEF Planned
  <2>5. Alone(nb, histories[s])
    BY <2>1, <1>7 DEF Alone
  <2> QED BY <2>2, <2>3, <2>4, <2>5, <1>7 DEF Fits
<1>9. batches' = [batches EXCEPT ![l] = nb]
  BY <1>2 DEF nb
<1>10. /\ requests' \in [Slot -> RequestType \cup {None}]
       /\ histories' \in [Slot -> HistoryType \cup {None}]
  BY <1>3 DEF BankInv, RequestsInv, HistoriesInv
<1> HIDE DEF S
<1> QED BY <1>1, <1>3, <1>7, <1>8, <1>9, <1>10, PlanKeeps

\* The end a request is prepared to is a number of tokens.
LEMMA PreparedEndTyped ==
    ASSUME NEW r \in RequestType
    PROVE  PreparedEnd(r) \in Token
<1>1. CASE r.publication = <<>>
  BY <1>1, RequestFields DEF PreparedEnd
<1>2. CASE r.publication # <<>>
  <2>1. Len(r.publication) \in 1..Len(r.publication)
    BY <1>2, RequestFields
  <2> QED BY <1>2, <2>1, RequestFields, EntryFields DEF PreparedEnd
<1> QED BY <1>1, <1>2

\* What reserving makes of one request (the step extends it, and the chunk is the
\* new batch's).
Ahead(h, n) == [h EXCEPT !.prepared = n]
Reserves(r, q, g, p, id, n) ==
    /\ p \in PartType /\ p.lease = n /\ n \in Nat
    /\ Sound(q) /\ q # None /\ q \in RequestType /\ Same(r, q) /\ Position(q) = Position(r)
    /\ \A c \in Cache : Expected(q, c) = Expected(r, c)
    /\ g \in HistoryType /\ Agrees(g, q)
    /\ \A i \in 1..Len(q.publication) :
         LET e == q.publication[i]
         IN  \/ /\ e.batch = id /\ e.start = p.position
                /\ e.end = p.position + p.tokens /\ e.reserved = TRUE
             \/ /\ i \in 1..Len(r.publication) /\ e = r.publication[i] /\ e.batch # id

\* A request with one more reserved chunk is sound, and its other batches fit as they did.
LEMMA ReservedRequest ==
    ASSUME BankInv, NEW s \in Slot, requests[s] # None, NEW r, r = requests[s],
           NEW h, h = histories[s], h # None, h.at = r.end,
           \A i \in 1..Len(r.publication) : r.publication[i].batch # FreshId,
           FreshId \in BatchId, r.phase.stage = "Encoder", HasRoom(r),
           \A i \in 1..Len(r.publication) : r.publication[i].reserved,
           NEW n \in Nat, n > 0, PreparedEnd(r) + n <= Extent(r.phase),
           NEW p, p = Part(s, PreparedEnd(r), n),
           NEW q, q = Lengthened(r, Entry(FreshId, p, TRUE)),
           NEW g, g = Ahead(h, p.position + p.tokens)
    PROVE  Reserves(r, q, g, p, FreshId, generations[s])
<1> DEFINE e == Entry(FreshId, p, TRUE)
<1>1. Sound(r) /\ r \in RequestType /\ generations[s] \in Nat /\ h \in HistoryType
  BY DEF BankInv, RequestsInv, HistoriesInv, Sound
<1>2. /\ PreparedEnd(r) \in Token /\ r.version \in Nat /\ r.phase.target \in Token
      /\ Len(r.publication) \in Nat /\ Extent(r.phase) = r.phase.target
  BY <1>1, PreparedEndTyped, RequestFields, PhaseFields DEF Extent
<1>3. /\ PreparedEnd(r) \in Nat /\ PreparedEnd(r) + n \in Token /\ n \in Token \ {0}
      /\ PreparedEnd(r) < PreparedEnd(r) + n
  <2> DEFINE a == PreparedEnd(r)
             t == r.phase.target
  <2>1. MAX_TOKENS \in Nat /\ a \in 0..MAX_TOKENS /\ t \in 0..MAX_TOKENS /\ a + n <= t
    BY <1>2, BankConstants DEF Token
  <2> HIDE DEF a, t
  <2>2. a \in Nat /\ a + n \in 0..MAX_TOKENS /\ n \in 0..MAX_TOKENS /\ n # 0 /\ a < a + n
    BY <2>1
  <2> QED BY <2>2 DEF a, Token
<1>4. /\ p.lease = generations[s] /\ p.position = PreparedEnd(r) /\ p.tokens = n
      /\ p.version = r.version
  BY DEF Part
<1>5. p \in PartType
  BY <1>1, <1>2, <1>3 DEF Part, PartType, Lease
<1>6. /\ e \in EntryType /\ e.batch = FreshId /\ e.start = PreparedEnd(r)
      /\ e.end = PreparedEnd(r) + n /\ e.reserved = TRUE /\ e.bits = {}
  <2>1. e \in EntryType
    BY <1>2, <1>3, <1>4 DEF Entry, EntryType
  <2> QED BY <2>1, <1>4 DEF Entry
<1> HIDE DEF e
<1>7. /\ Sound(q) /\ Same(r, q) /\ PreparedEnd(q) = e.end
      /\ HistoryEnd(q) = HistoryEnd(r) /\ Position(q) = Position(r)
      /\ \A c \in Cache : Expected(q, c) = Expected(r, c)
      /\ Len(q.publication) = Len(r.publication) + 1
      /\ q.publication[Len(r.publication) + 1] = e
      /\ \A i \in 1..Len(r.publication) : q.publication[i] = r.publication[i]
  <2>1. q = Lengthened(r, e)
    BY DEF e
  <2>2. e.start < e.end /\ e.end <= r.phase.target
    BY <1>2, <1>3, <1>6
  <2>3. /\ \A i \in 1..Len(r.publication) : r.publication[i].batch # e.batch
        /\ \A i \in 1..Len(r.publication) : r.publication[i].reserved
        /\ r.phase.stage = "Encoder" /\ HasRoom(r) /\ e.reserved
    BY <1>6
  <2> QED BY ONLY <1>1, <1>6, <2>1, <2>2, <2>3, Appended
<1>8. q \in RequestType /\ q # None
  BY <1>7, BankNone DEF Sound
<1>9. g \in HistoryType /\ g.at = h.at /\ g.prepared = PreparedEnd(r) + n
  BY <1>1, <1>3, <1>4 DEF HistoryType, Ahead
<1>10. Agrees(g, q)
  <2>1. HistoryEnd(q) = r.end
    BY <1>7 DEF HistoryEnd
  <2>2. g.prepared # None
    BY <1>3, <1>9, BankNone
  <2>3. q.phase.stage = "Encoder" /\ g.at = r.end /\ g.prepared = PreparedEnd(q)
    <3>1. q.phase.stage = "Encoder"
      BY <1>7 DEF Same
    <3>2. g.at = r.end /\ g.prepared = e.end
      BY <1>6, <1>9
    <3>3. PreparedEnd(q) = e.end
      BY <1>7
    <3> QED BY ONLY <3>1, <3>2, <3>3
  <2> QED BY ONLY <2>1, <2>2, <2>3 DEF Agrees
<1>11. ASSUME NEW i \in 1..Len(q.publication)
       PROVE  LET f == q.publication[i]
              IN  \/ /\ f.batch = FreshId /\ f.start = p.position
                     /\ f.end = p.position + p.tokens /\ f.reserved = TRUE
                  \/ /\ i \in 1..Len(r.publication) /\ f = r.publication[i] /\ f.batch # FreshId
  <2>1. CASE i = Len(r.publication) + 1
    BY <2>1, <1>4, <1>6, <1>7
  <2>2. CASE i # Len(r.publication) + 1
    <3> DEFINE n0 == Len(r.publication)
    <3>1. n0 \in Nat /\ i \in 1..n0 + 1 /\ i # n0 + 1
      BY <2>2, <1>2, <1>7
    <3> HIDE DEF n0
    <3>2. i \in 1..n0
      BY ONLY <3>1
    <3> QED BY <3>2, <1>7 DEF n0
  <2> QED BY <2>1, <2>2
<1> QED BY <1>1, <1>4, <1>5, <1>7, <1>8, <1>9, <1>10, <1>11 DEF Reserves

\* reserve_encoder keeps the invariant for every request of the call at once.
LEMMA ReserveEncoderKeeps ==
    ASSUME BankInv, NEW l \in Lane, NEW w \in Work, ReserveEncoder(l, w)
    PROVE  BankInv'
<1> DEFINE S == DOMAIN w
           of == [s \in S |-> Part(s, PreparedEnd(requests[s]), w[s])]
           q(s) == Lengthened(requests[s], Entry(FreshId, of[s], TRUE))
           g(s) == Ahead(histories[s], of[s].position + of[s].tokens)
           nb == [id |-> FreshId, stage |-> "Encoder", reserved |-> TRUE, of |-> of]
<1>1. S \in SUBSET Slot /\ \A s \in S : w[s] \in Token /\ w[s] \in Nat /\ w[s] > 0
  BY WorkFacts
<1>2. /\ batches[l] = None /\ OnlyChunks(w)
      /\ \A s \in S :
          /\ Committed(s, generations[s])
          /\ requests[s].phase.stage = "Encoder" /\ HasRoom(requests[s])
          /\ \A i \in DOMAIN requests[s].publication : requests[s].publication[i].reserved
          /\ PreparedEnd(requests[s]) + w[s] <= Extent(requests[s].phase)
          /\ histories[s] # None /\ histories[s].at = requests[s].end
      /\ UNCHANGED <<generations, caches, waves, copies>>
  BY DEF ReserveEncoder
<1>3. /\ batches' = [batches EXCEPT ![l] = nb]
      /\ requests' = [s \in Slot |-> IF s \in S THEN q(s) ELSE requests[s]]
      /\ histories' = [s \in Slot |-> IF s \in S THEN g(s) ELSE histories[s]]
  BY DEF ReserveEncoder, Lengthened, Ahead
<1>4. /\ FreshId \in BatchId
      /\ \A s \in Slot : requests[s] # None =>
            \A i \in 1..Len(requests[s].publication) :
                requests[s].publication[i].batch # FreshId
  BY <1>2, FreshIdUnused DEF BankInv
<1>5. ASSUME NEW s \in S
      PROVE  /\ s \in Slot /\ requests[s] # None
             /\ Reserves(requests[s], q(s), g(s), of[s], FreshId, generations[s])
  <2>1. s \in Slot /\ requests[s] # None
    BY <1>1, <1>2, CommittedFacts
  <2>2. DOMAIN requests[s].publication = 1..Len(requests[s].publication)
    BY <2>1, RequestFields DEF BankInv, RequestsInv
  <2> DEFINE p == of[s]
             r == requests[s]
             h == histories[s]
             n == w[s]
  <2>3. p = Part(s, PreparedEnd(r), n)
    OBVIOUS
  <2>4. /\ r # None /\ h # None /\ h.at = r.end
        /\ \A i \in 1..Len(r.publication) : r.publication[i].batch # FreshId
        /\ FreshId \in BatchId /\ r.phase.stage = "Encoder" /\ HasRoom(r)
        /\ \A i \in 1..Len(r.publication) : r.publication[i].reserved
        /\ n \in Nat /\ n > 0 /\ PreparedEnd(r) + n <= Extent(r.phase)
    BY <1>1, <1>2, <1>4, <2>1, <2>2
  <2>5. q(s) = Lengthened(r, Entry(FreshId, p, TRUE))
        /\ g(s) = Ahead(h, p.position + p.tokens)
    OBVIOUS
  <2> HIDE DEF p, q, g, of, n, r, h
  <2>6. Reserves(r, q(s), g(s), p, FreshId, generations[s])
    BY <2>1, <2>3, <2>4, <2>5, ReservedRequest DEF r, h
  <2> QED BY <2>1, <2>6 DEF p, r
<1>6. of \in [S -> PartType]
  BY <1>5 DEF Reserves
<1> HIDE DEF of, q, g
<1>7. nb \in BatchType(S) /\ nb.id = FreshId /\ nb.stage = "Encoder" /\ nb.reserved = TRUE
      /\ nb.of = of
  BY <1>4, <1>6 DEF BatchType, Stage
<1> HIDE DEF nb
<1>8. /\ requests' \in [Slot -> RequestType \cup {None}]
      /\ histories' \in [Slot -> HistoryType \cup {None}]
      /\ \A s \in S : requests'[s] = q(s) /\ histories'[s] = g(s)
      /\ \A s \in Slot \ S : requests'[s] = requests[s] /\ histories'[s] = histories[s]
  BY <1>1, <1>3, <1>5 DEF BankInv, RequestsInv, HistoriesInv, Reserves
<1>9. ASSUME NEW s \in S PROVE Extended(s)
  <2>1. \A k \in Lane : Holds(k, s) => batches[k].reserved
    BY <1>2 DEF OnlyChunks
  <2>2. \A i \in 1..Len(q(s).publication) :
          \/ q(s).publication[i].batch = FreshId
          \/ /\ i \in 1..Len(requests[s].publication)
             /\ q(s).publication[i] = requests[s].publication[i]
    BY <1>5 DEF Reserves
  <2>3. requests'[s] = q(s) /\ histories'[s] = g(s)
    BY <1>8
  <2>4. /\ requests[s] # None /\ q(s) # None /\ Sound(q(s)) /\ Same(requests[s], q(s))
        /\ Position(q(s)) = Position(requests[s]) /\ Agrees(g(s), q(s))
        /\ \A c \in Cache : Expected(q(s), c) = Expected(requests[s], c)
    BY <1>5 DEF Reserves
  <2> QED BY <2>1, <2>2, <2>3, <2>4 DEF Extended
<1>10. ASSUME NEW s \in S
       PROVE  Fits(nb, nb.of[s], requests'[s], histories'[s], generations[s])
  <2>1. Owns(nb, of[s], q(s))
    BY <1>5, <1>7 DEF Owns, Reserves
  <2>2. \A h : Planned(nb, of[s], q(s)) /\ Alone(nb, h)
    BY <1>7 DEF Planned, Alone
  <2>3. /\ of[s].lease = generations[s] /\ generations[s] \in Nat
        /\ requests'[s] = q(s) /\ nb.of[s] = of[s]
    BY <1>5, <1>7, <1>8 DEF Reserves
  <2>4. of[s].lease <= generations[s]
    BY <2>3
  <2> QED BY <2>1, <2>2, <2>3, <2>4 DEF Fits
<1>11. \A s \in Slot : \/ requests'[s] = requests[s] /\ histories'[s] = histories[s]
                       \/ Extended(s)
  BY <1>8, <1>9
<1> HIDE DEF S
<1> QED BY <1>1, <1>2, <1>3, <1>7, <1>8, <1>10, <1>11, PlanKeeps

-----------------------------------------------------------------------------
(* Steps that move rows: publishing a part of a batch, and committing it. *)

\* A cache's expected end is a number of tokens.
LEMMA ExpectedTyped ==
    ASSUME NEW r \in RequestType, NEW c \in Cache
    PROVE  Expected(r, c) \in Token
<1>1. r.end \in Token /\ r.phase.end \in Token /\ 0 \in Token
  BY RequestFields, PhaseFields, BankConstants DEF Token
<1>2. PhaseEnd(r, c) \in Token
  BY <1>1, KindFacts DEF PhaseEnd, HistoryEnd
<1>3. \A i \in 1..Len(r.publication) : r.publication[i].end \in Token
  BY RequestFields, EntryFields
<1> QED BY <1>2, <1>3, ExpectedCases

\* What becomes of a request of the lane's batch, of its caches, and of what other
\* lanes know of it.
Knows(k, s, q, h) ==
    /\ Owns(batches[k], batches[k].of[s], q) /\ Planned(batches[k], batches[k].of[s], q)
    /\ Alone(batches[k], h)
Moved(l, C, s) ==
    /\ requests[s] # None /\ requests'[s] # None /\ Sound(requests'[s])
    /\ generations[s] = batches[l].of[s].lease
    /\ Agrees(histories'[s], requests'[s])
    /\ \A d \in C : /\ caches'[d][s].lease = generations[s] /\ ~caches'[d][s].writing
                    /\ caches'[d][s].end = Expected(requests'[s], d)
    /\ \A d \in Cache \ C : /\ caches'[d][s] = caches[d][s]
                            /\ Expected(requests'[s], d) = Expected(requests[s], d)
    /\ \A k \in Lane :
        Batch(k)' /\ s \in DOMAIN batches[k].of /\ batches[k].of[s].lease = generations[s] =>
            /\ Knows(k, s, requests'[s], histories'[s])
            /\ \A d \in Cache : waves'[k][d] # None => Unpublished(batches[k], d, requests'[s])

\* The lane l writes the rows of its batch to the caches C.
Moves(l, C) ==
    /\ UNCHANGED <<generations, copies>>
    /\ DOMAIN batches' = Lane /\ DOMAIN waves' = Lane /\ \A k \in Lane : DOMAIN waves'[k] = Cache
    /\ batches'[l] \in {batches[l], None} /\ \A k \in Lane \ {l} : batches'[k] = batches[k]
    /\ \A d \in C : waves'[l][d] = None
    /\ \A k \in Lane, d \in Cache : k # l \/ d \notin C => waves'[k][d] = waves[k][d]
    /\ batches'[l] = None => \A d \in Cache : waves'[l][d] = None
    /\ requests' \in [Slot -> RequestType \cup {None}]
    /\ histories' \in [Slot -> HistoryType \cup {None}]
    /\ caches' \in [Cache -> [Slot -> CacheType]]
    /\ \A s \in Slot \ DOMAIN batches[l].of :
        /\ requests'[s] = requests[s] /\ histories'[s] = histories[s]
        /\ \A d \in Cache : caches'[d][s] = caches[d][s]
    /\ \A s \in DOMAIN batches[l].of : Moved(l, C, s)

\* Moving the caches a batch has written to their new ends keeps the invariant.
LEMMA MoveKeeps ==
    ASSUME BankInv, NEW l \in Lane, Batch(l), NEW C \in SUBSET Cache, Moves(l, C),
           \A c \in C : Ready(l, c) \/ Pending(l, c)
    PROVE  BankInv'
<1> DEFINE S == DOMAIN batches[l].of
<1> USE DEF BankInv
<1>0. S \subseteq Slot /\ generations' = generations
  BY BatchFields DEF Moves
<1>1. RequestsInv'
  <2>1. ASSUME NEW s \in Slot, requests'[s] # None PROVE Sound(requests'[s])
    <3>1. CASE s \in S
      BY <3>1 DEF Moves, Moved
    <3>2. CASE s \notin S
      BY <2>1, <3>2 DEF Moves, RequestsInv
    <3> QED BY <3>1, <3>2
  <2> QED BY <2>1 DEF RequestsInv, Moves
<1>2. CachesInv'
  <2>1. ASSUME NEW c \in Cache, NEW s \in Slot
        PROVE  Follows(caches'[c][s], requests'[s], generations[s], c)
    <3>1. CASE s \in S /\ c \in C
      BY <3>1 DEF Moves, Moved, Follows
    <3>2. CASE s \in S /\ c \notin C
      <4>1. /\ caches'[c][s] = caches[c][s] /\ requests'[s] # None
            /\ Expected(requests'[s], c) = Expected(requests[s], c)
        BY <3>2 DEF Moves, Moved
      <4>2. Follows(caches[c][s], requests[s], generations[s], c)
        BY DEF CachesInv
      <4> QED BY <4>1, <4>2 DEF Follows
    <3>3. CASE s \notin S
      BY <3>3 DEF Moves, CachesInv
    <3> QED BY <3>1, <3>2, <3>3
  <2> QED BY <2>1, <1>0 DEF CachesInv, Moves
<1>3. HistoriesInv'
  <2>1. ASSUME NEW s \in Slot, histories'[s] # None, requests'[s] # None,
               generations[s] = histories'[s].lease
        PROVE  Agrees(histories'[s], requests'[s])
    <3>1. CASE s \in S
      BY <3>1 DEF Moves, Moved
    <3>2. CASE s \notin S
      <4>1. requests'[s] = requests[s] /\ histories'[s] = histories[s]
        BY <3>2 DEF Moves
      <4> QED BY <2>1, <4>1 DEF HistoriesInv
    <3> QED BY <3>1, <3>2
  <2> QED BY <2>1, <1>0 DEF HistoriesInv, Moves
<1>4. \A k \in Lane : Batch(k)' => Batch(k) /\ batches'[k] = batches[k]
  BY DEF Batch, Moves
<1>5. BatchesInv'
  <2>1. ASSUME NEW k \in Lane, Batch(k)', NEW s \in DOMAIN batches[k].of
        PROVE  Fits(batches[k], batches[k].of[s], requests'[s], histories'[s], generations[s])
    <3>1. s \in Slot /\ Fits(batches[k], batches[k].of[s], requests[s], histories[s], generations[s])
      BY <1>4, <2>1, BatchFields DEF BatchesInv
    <3>2. CASE s \in S
      <4>1. Moved(l, C, s)
        BY <3>2 DEF Moves
      <4>2. batches[k].of[s].lease = generations[s] => Knows(k, s, requests'[s], histories'[s])
        BY <2>1, <4>1 DEF Moved
      <4> QED BY <3>1, <4>2 DEF Fits, Knows
    <3>3. CASE s \notin S
      <4>1. requests'[s] = requests[s] /\ histories'[s] = histories[s]
        BY <3>1, <3>3 DEF Moves
      <4> QED BY <3>1, <4>1
    <3> QED BY <3>2, <3>3
  <2> QED BY <1>0, <1>4, <2>1 DEF BatchesInv, Moves
<1>6. \A k \in Lane, d \in Cache : waves'[k][d] # None =>
        /\ waves'[k][d] = waves[k][d] /\ (k # l \/ d \notin C) /\ Batch(k)'
        /\ batches'[k] = batches[k]
  <2> SUFFICES ASSUME NEW k \in Lane, NEW d \in Cache, waves'[k][d] # None
               PROVE  /\ waves'[k][d] = waves[k][d] /\ (k # l \/ d \notin C) /\ Batch(k)'
                      /\ batches'[k] = batches[k]
    OBVIOUS
  <2>1. k # l \/ d \notin C
    BY DEF Moves
  <2>2. waves'[k][d] = waves[k][d]
    BY <2>1 DEF Moves
  <2>3. Batch(k)
    BY <2>2 DEF WavesInv
  <2>4. batches'[k] = batches[k]
    BY DEF Moves
  <2> QED BY <2>1, <2>2, <2>3, <2>4 DEF Batch
<1>7. WavesInv'
  <2>1. ASSUME NEW k \in Lane, NEW d \in Cache, waves'[k][d] # None
        PROVE  /\ \E T \in SUBSET Slot : waves'[k][d] \in WaveType(T)
               /\ Batch(k)' /\ Carries(waves'[k][d], batches'[k]) /\ d \in Writes(batches'[k].stage)
               /\ \A s \in DOMAIN batches'[k].of :
                     requests'[s] # None /\ generations'[s] = batches'[k].of[s].lease
                       => Unpublished(batches'[k], d, requests'[s])
    <3>1. waves'[k][d] = waves[k][d] /\ Batch(k)' /\ batches'[k] = batches[k]
      BY <1>6, <2>1
    <3>2. ASSUME NEW s \in DOMAIN batches[k].of, requests'[s] # None,
                 generations[s] = batches[k].of[s].lease
          PROVE  Unpublished(batches[k], d, requests'[s])
      <4>1. CASE s \in S
        <5>1. Moved(l, C, s)
          BY <4>1 DEF Moves
        <5> QED BY <2>1, <3>1, <3>2, <5>1 DEF Moved
      <4>2. CASE s \notin S
        <5>1. s \in Slot
          BY <3>1, <3>2, <1>4, BatchFields
        <5>2. requests'[s] = requests[s]
          BY <4>2, <5>1 DEF Moves
        <5> QED BY <2>1, <3>1, <3>2, <5>2 DEF WavesInv
      <4> QED BY <4>1, <4>2
    <3>3. /\ \E T \in SUBSET Slot : waves[k][d] \in WaveType(T)
          /\ Carries(waves[k][d], batches[k]) /\ d \in Writes(batches[k].stage)
      BY <2>1, <3>1 DEF WavesInv
    <3> QED BY <1>0, <3>1, <3>2, <3>3
  <2> QED BY <2>1 DEF WavesInv, Moves
<1>8. \A k \in Lane, d \in Cache, s \in Slot :
        Writer(k, d, s)' <=> Writer(k, d, s) /\ (k # l \/ d \notin C)
  <2> SUFFICES ASSUME NEW k \in Lane, NEW d \in Cache, NEW s \in Slot
               PROVE  Writer(k, d, s)' <=> Writer(k, d, s) /\ (k # l \/ d \notin C)
    OBVIOUS
  <2>1. CASE k = l /\ d \in C
    BY <2>1 DEF Moves, Writer, Pending
  <2>2. CASE k # l \/ d \notin C
    <3>1. waves'[k][d] = waves[k][d]
      BY <2>2 DEF Moves
    <3> QED BY <2>2, <3>1 DEF Writer, Pending
  <2> QED BY <2>1, <2>2
<1>9. \A k \in Lane, d \in C, s \in S : Writer(k, d, s) => k = l
  <2> SUFFICES ASSUME NEW k \in Lane, NEW d \in C, NEW s \in S, Writer(k, d, s)
               PROVE  k = l
    OBVIOUS
  <2>1. caches[d][s].writing /\ s \in Slot
    BY <1>0 DEF WritesInv
  <2>2. waves[l][d] # None /\ (Ready(l, d) \/ Pending(l, d))
    BY DEF Ready, Pending
  <2>3. s \in DOMAIN waves[l][d].of
    BY <2>2, WaveFields
  <2>4. Writer(l, d, s)
    BY <2>1, <2>2, <2>3 DEF Ready, Writer
  <2> QED BY <2>1, <2>4 DEF WritesInv
<1>10. ASSUME NEW d \in Cache, NEW s \in Slot
       PROVE  \/ d \in C /\ s \in S /\ ~caches'[d][s].writing
              \/ /\ ~(d \in C /\ s \in S) /\ caches'[d][s] = caches[d][s]
                 /\ requests[s] # None => requests'[s] # None
  <2>1. CASE s \in S
    <3>1. Moved(l, C, s)
      BY <2>1 DEF Moves
    <3> QED BY <2>1, <3>1 DEF Moved
  <2>2. CASE s \notin S
    BY <2>2 DEF Moves
  <2> QED BY <2>1, <2>2
<1>11. \A d \in C, s \in Slot : Writer(l, d, s) => s \in S
  BY WaveFields DEF Writer, Pending
<1>12. WritesInv'
  <2>1. ASSUME NEW d \in Cache, NEW s \in Slot, caches'[d][s].writing
        PROVE  \E k \in Lane : Writer(k, d, s)'
    <3>1. ~(d \in C /\ s \in S) /\ caches[d][s].writing
      BY <1>10, <2>1
    <3>2. PICK k \in Lane : Writer(k, d, s)
      BY <3>1 DEF WritesInv
    <3>3. k # l \/ d \notin C
      BY <1>11, <3>1, <3>2
    <3> QED BY <3>2, <3>3, <1>8
  <2>2. ASSUME NEW k \in Lane, NEW d \in Cache, NEW s \in Slot, Writer(k, d, s)'
        PROVE  /\ caches'[d][s].writing
               /\ Right(waves'[k][d].of[s], caches'[d][s], requests'[s], generations'[s])
    <3>1. Writer(k, d, s) /\ (k # l \/ d \notin C) /\ waves'[k][d] = waves[k][d]
      BY <1>8, <2>2 DEF Moves
    <3>2. ~(d \in C /\ s \in S)
      BY <1>9, <3>1
    <3>3. /\ caches'[d][s] = caches[d][s]
          /\ requests[s] # None => requests'[s] # None
      BY <1>10, <3>2
    <3>4. /\ caches[d][s].writing
          /\ Right(waves[k][d].of[s], caches[d][s], requests[s], generations[s])
      BY <3>1 DEF WritesInv
    <3> QED BY <1>0, <3>1, <3>3, <3>4 DEF Right
  <2>3. \A k, j \in Lane, d \in Cache, s \in Slot : Writer(k, d, s)' /\ Writer(j, d, s)' => k = j
    BY <1>8 DEF WritesInv
  <2> QED BY <2>1, <2>2, <2>3 DEF WritesInv
<1>13. copies' \in [Lane -> CopyType \cup {None}]
  BY DEF Moves
<1> QED BY <1>1, <1>2, <1>3, <1>5, <1>7, <1>12, <1>13

\* The row of a cache when end rows have been written to it.
Rowed(x, end) == [x EXCEPT !.end = end, !.version = @ + 1, !.writing = FALSE]

\* A written cache slot keeps its lease, has the new end and is no longer being written.
LEMMA CacheWritten ==
    ASSUME NEW x \in CacheType, NEW end \in Token
    PROVE  /\ Rowed(x, end) \in CacheType /\ Rowed(x, end).lease = x.lease
           /\ Rowed(x, end).end = end /\ ~Rowed(x, end).writing
<1> DEFINE R == [lease : Nat, end : Token, version : Nat, writing : BOOLEAN]
<1>1. x \in R
  BY DEF CacheType, Lease
<1>2. x.version + 1 \in Nat
  BY <1>1
<1>3. Rowed(x, end) = [x EXCEPT !.end = end, !.version = x.version + 1, !.writing = FALSE]
  BY DEF Rowed
<1> DEFINE v == x.version + 1
<1> HIDE DEF v
<1>4. v \in Nat /\ Rowed(x, end) = [x EXCEPT !.end = end, !.version = v, !.writing = FALSE]
  BY <1>2, <1>3 DEF v
<1>5. /\ Rowed(x, end) \in R /\ Rowed(x, end).lease = x.lease
      /\ Rowed(x, end).end = end /\ Rowed(x, end).writing = FALSE
  BY <1>1, <1>4
<1> QED BY <1>5 DEF CacheType, Lease

\* Where the waves of a batch that fits its requests go.
LEMMA OfferedRows ==
    ASSUME BankInv, NEW l \in Lane, Batch(l), Valid(batches[l]), NEW d \in Cache, Offers(l, d),
           NEW s \in DOMAIN batches[l].of
    PROVE  Expected(requests[s], d) = batches[l].of[s].position
<1>1. waves[l][d] # None /\ BindingFits(d, waves[l][d].of)
  BY DEF Offers, Ready, Pending
<1>2. Carries(waves[l][d], batches[l]) /\ s \in DOMAIN waves[l][d].of
  BY <1>1, WaveFields
<1>3. caches[d][s].end = batches[l].of[s].position
  BY <1>1, <1>2 DEF BindingFits, PartFits, Carries
<1> QED BY <1>3, ValidFacts

\* One request of a publication.
LEMMA PublishedRequest ==
    ASSUME BankInv, NEW l \in Lane, NEW c \in Publishable(l), NEW s \in DOMAIN batches[l].of,
           NEW b, b = batches[l], NEW p, p = b.of[s], NEW r, r = requests[s],
           NEW q, q = Mark(r, b, p, c)
    PROVE  Marking(r, q, b, p, c) /\ MarkedEntries(r, q, b, p, c) /\ MarkedHistory(r, q, b)
<1>1. /\ Batch(l) /\ Valid(b) /\ b.stage = "Encoder"
      /\ c \in Cache /\ c \in Todo(b) /\ c \in Writes("Encoder") /\ Offers(l, c)
  BY PublishableFacts
<1>2. /\ p \in PartType /\ r # None /\ Sound(r) /\ r \in RequestType
      /\ r.phase.stage = "Encoder" /\ Stands(b, p, r) /\ Owns(b, p, r) /\ Planned(b, p, r)
  BY <1>1, ValidFacts
<1>3. b.id \in BatchId /\ b.reserved \in BOOLEAN
  BY <1>1, BatchFields DEF BankInv
<1>4. Unpublished(b, c, r)
  BY <1>1, <1>2, TodoFacts
<1>5. Expected(r, c) = p.position
  BY <1>1, OfferedRows
<1>6. Len(r.publication) \in Nat /\ (r.publication = <<>> <=> Len(r.publication) = 0)
  BY <1>2, RequestFields
<1>7. ASSUME NEW i \in 1..Len(r.publication), r.publication[i].batch = b.id
      PROVE  Marking(r, q, b, p, c) /\ MarkedEntries(r, q, b, p, c) /\ MarkedHistory(r, q, b)
  <2>1. c \notin r.publication[i].bits
    BY <1>4, <1>7 DEF Unpublished
  <2> QED BY ONLY <1>1, <1>2, <1>3, <1>5, <1>7, <2>1, q = Mark(r, b, p, c), MarkedOwn
<1>8. CASE b.reserved
  BY <1>2, <1>7, <1>8 DEF Stands
<1>9. CASE ~b.reserved /\ r.publication # <<>>
  <2>1. 1 \in 1..Len(r.publication) /\ r.publication[1].batch = b.id
    BY <1>2, <1>6, <1>9 DEF Stands
  <2> QED BY <2>1, <1>7
<1>10. CASE ~b.reserved /\ r.publication = <<>>
  <2>1. b.reserved = FALSE
    BY <1>3, <1>10
  <2>2. p.position = r.end /\ p.position + p.tokens <= r.phase.target
    BY <1>2, <1>10 DEF Stands, Planned, Position, Extent
  <2> QED BY ONLY <1>1, <1>2, <1>3, <1>10, <2>1, <2>2, q = Mark(r, b, p, c), MarkedNew
<1> QED BY <1>8, <1>9, <1>10

\* What the lanes know of a request when the batch of lane l has been marked in it.
LEMMA PublishedKnown ==
    ASSUME BankInv, NEW l \in Lane, NEW c \in Publishable(l), NEW s \in DOMAIN batches[l].of,
           NEW b, b = batches[l], NEW p, p = b.of[s], NEW r, r = requests[s],
           NEW q, q = Mark(r, b, p, c), NEW h, h = histories[s]
    PROVE  /\ Agrees(h, q)
           /\ \A k \in Lane :
                Batch(k) /\ s \in DOMAIN batches[k].of /\ batches[k].of[s].lease = generations[s] =>
                  /\ Knows(k, s, q, h)
                  /\ \A d \in Cache : waves[k][d] # None /\ (k # l \/ d # c)
                                        => Unpublished(batches[k], d, q)
<1>1. Marking(r, q, b, p, c) /\ MarkedEntries(r, q, b, p, c) /\ MarkedHistory(r, q, b)
  BY PublishedRequest
<1>2. Batch(l) /\ Valid(b) /\ b.stage = "Encoder"
  BY PublishableFacts
<1>3. /\ s \in Slot /\ r # None /\ r.phase.stage = "Encoder" /\ generations[s] = p.lease
      /\ h # None /\ Agrees(h, r) /\ Alone(b, h)
  BY <1>2, ValidFacts
<1>4. Same(r, q) /\ HistoryEnd(q) = HistoryEnd(r) /\ Position(q) = Position(r)
  BY <1>1 DEF Marking
<1>5. Agrees(h, q)
  <2>1. h.at = HistoryEnd(q)
    BY <1>3, <1>4 DEF Agrees
  <2>2. CASE b.reserved
    <3>1. h.prepared # None /\ h.prepared = PreparedEnd(q)
      BY <1>1, <1>3, <2>2 DEF Agrees, MarkedHistory
    <3> QED BY <2>1, <3>1, <1>3, <1>4 DEF Agrees, Same
  <2>3. CASE ~b.reserved
    <3>1. h.prepared = None
      BY <1>2, <1>3, <2>3 DEF Alone
    <3>2. \A i \in 1..Len(q.publication) : ~q.publication[i].reserved
      BY <1>1, <2>3 DEF MarkedHistory
    <3> QED BY <2>1, <3>1, <3>2 DEF Agrees
  <2> QED BY <2>2, <2>3
<1>6. ASSUME NEW k \in Lane, Batch(k), s \in DOMAIN batches[k].of,
             batches[k].of[s].lease = generations[s]
      PROVE  /\ Knows(k, s, q, h)
             /\ \A d \in Cache : waves[k][d] # None /\ (k # l \/ d # c)
                                   => Unpublished(batches[k], d, q)
  <2>1. /\ Owns(batches[k], batches[k].of[s], r) /\ Planned(batches[k], batches[k].of[s], r)
        /\ Alone(batches[k], h)
    BY <1>3, <1>6 DEF BankInv, BatchesInv, Fits
  <2>2. k # l => batches[k].id # b.id
    BY <1>2, <1>6 DEF BankInv, BatchesInv
  <2>3. Planned(batches[k], batches[k].of[s], q)
    BY <2>1, <1>4 DEF Planned, Same
  <2>4. ASSUME NEW i \in 1..Len(q.publication), q.publication[i].batch = batches[k].id
        PROVE  LET e == q.publication[i] IN
               \/ /\ k = l /\ e.start = p.position /\ e.end = p.position + p.tokens
                  /\ e.reserved = b.reserved
                  /\ e.bits = {c} \/ \E j \in 1..Len(r.publication) :
                       r.publication[j].batch = b.id /\ e.bits = r.publication[j].bits \cup {c}
               \/ k # l /\ i \in 1..Len(r.publication) /\ e = r.publication[i]
    <3>1. CASE k = l
      BY <3>1, <2>4, <1>1 DEF MarkedEntries
    <3>2. CASE k # l
      BY <3>2, <2>2, <2>4, <1>1 DEF MarkedEntries
    <3> QED BY <3>1, <3>2
  <2>5. Owns(batches[k], batches[k].of[s], q)
    <3> DEFINE Has(e) == /\ e.start = batches[k].of[s].position
                         /\ e.end = batches[k].of[s].position + batches[k].of[s].tokens
                         /\ e.reserved = batches[k].reserved
    <3>1. ASSUME NEW i \in 1..Len(q.publication), q.publication[i].batch = batches[k].id
          PROVE  Has(q.publication[i])
      <4>1. CASE /\ k = l /\ q.publication[i].start = p.position
                 /\ q.publication[i].end = p.position + p.tokens
                 /\ q.publication[i].reserved = b.reserved
        BY <4>1
      <4>2. CASE /\ k # l /\ i \in 1..Len(r.publication)
                 /\ q.publication[i] = r.publication[i]
        <5>1. r.publication[i].batch = batches[k].id
          BY <3>1, <4>2
        <5>2. Has(r.publication[i])
          BY <2>1, <4>2, <5>1 DEF Owns
        <5> QED BY <4>2, <5>2
      <4> QED BY <2>4, <3>1, <4>1, <4>2
    <3> QED BY <3>1 DEF Owns
  <2>6. ASSUME NEW d \in Cache, waves[k][d] # None, k # l \/ d # c
        PROVE  Unpublished(batches[k], d, q)
    <3>1. Unpublished(batches[k], d, r)
      BY <1>3, <1>6, <2>6 DEF BankInv, WavesInv
    <3>2. ASSUME NEW i \in 1..Len(q.publication), q.publication[i].batch = batches[k].id
          PROVE  d \notin q.publication[i].bits
      <4>1. CASE k = l
        <5>1. d # c
          BY <4>1, <2>6
        <5>2. \/ q.publication[i].bits = {c}
              \/ \E j \in 1..Len(r.publication) :
                   r.publication[j].batch = b.id
                   /\ q.publication[i].bits = r.publication[j].bits \cup {c}
          BY <4>1, <3>2, <2>4
        <5> QED BY <4>1, <5>1, <5>2, <3>1 DEF Unpublished
      <4>2. CASE k # l
        <5>1. i \in 1..Len(r.publication) /\ q.publication[i] = r.publication[i]
          BY <4>2, <3>2, <2>4
        <5> QED BY <5>1, <3>1, <3>2 DEF Unpublished
      <4> QED BY <4>1, <4>2
    <3> QED BY <3>2 DEF Unpublished
  <2> QED BY <2>1, <2>3, <2>5, <2>6 DEF Knows
<1> QED BY <1>5, <1>6

\* Publishing an encoder chunk in one cache keeps the invariant.
LEMMA PublishEncoderKeeps ==
    ASSUME BankInv, NEW l \in Lane, NEW c \in Publishable(l), PublishEncoder(l, c)
    PROVE  BankInv'
<1> DEFINE b == batches[l]
           S == DOMAIN b.of
           a == Tokens(b.of)
           q(s) == Mark(requests[s], b, b.of[s], c)
           x(d, s) == Rowed(caches[d][s], b.of[s].position + a[s])
<1>1. /\ caches' = Written(caches, {c}, b.of, a)
      /\ requests' = [s \in Slot |-> IF s \in S THEN q(s) ELSE requests[s]]
      /\ waves' = [waves EXCEPT ![l][c] = None]
      /\ UNCHANGED <<generations, histories, batches, copies>>
  BY DEF PublishEncoder, Mark
<1>2. Batch(l) /\ Valid(b) /\ c \in Cache /\ Offers(l, c) /\ S \subseteq Slot
  BY PublishableFacts, BatchFields DEF BankInv
<1>3. ASSUME NEW s \in S
      PROVE  /\ Marking(requests[s], q(s), b, b.of[s], c)
             /\ Agrees(histories[s], q(s))
             /\ \A k \in Lane :
                  Batch(k) /\ s \in DOMAIN batches[k].of /\ batches[k].of[s].lease = generations[s]
                    => /\ Knows(k, s, q(s), histories[s])
                       /\ \A d \in Cache : waves[k][d] # None /\ (k # l \/ d # c)
                                             => Unpublished(batches[k], d, q(s))
  <2> HIDE DEF q
  <2>1. q(s) = Mark(requests[s], b, b.of[s], c)
    BY DEF q
  <2> QED BY <2>1, PublishedRequest, PublishedKnown
<1>4. ASSUME NEW s \in S
      PROVE  /\ requests[s] # None /\ generations[s] = b.of[s].lease
             /\ \A d \in Cache : caches[d][s].lease = generations[s]
             /\ Sound(q(s)) /\ q(s) \in RequestType /\ q(s) # None
             /\ b.of[s].position + a[s] = Expected(q(s), c)
             /\ b.of[s].position + a[s] \in Token
             /\ \A d \in Cache \ {c} : Expected(q(s), d) = Expected(requests[s], d)
  <2>1. requests[s] # None /\ generations[s] = b.of[s].lease
        /\ \A d \in Cache : caches[d][s].lease = generations[s]
    BY <1>2, ValidFacts
  <2>2. /\ Sound(q(s)) /\ Expected(q(s), c) = b.of[s].position + b.of[s].tokens
        /\ \A d \in Cache \ {c} : Expected(q(s), d) = Expected(requests[s], d)
    BY <1>3 DEF Marking
  <2>3. a[s] = b.of[s].tokens
    BY DEF Tokens
  <2>4. q(s) \in RequestType /\ q(s) # None
    BY <2>2, BankNone DEF Sound
  <2>5. Expected(q(s), c) \in Token
    BY <2>4, <1>2, ExpectedTyped
  <2> QED BY <2>1, <2>2, <2>3, <2>4, <2>5
<1>5. ASSUME NEW s \in S
      PROVE  x(c, s) \in CacheType /\ x(c, s).lease = generations[s] /\ ~x(c, s).writing
             /\ x(c, s).end = Expected(q(s), c)
  <2>1. caches[c][s] \in CacheType
    BY <1>2 DEF BankInv, CachesInv
  <2> DEFINE y == caches[c][s]
             n == b.of[s].position + a[s]
  <2>2. y \in CacheType /\ n \in Token /\ x(c, s) = Rowed(y, n)
    BY <2>1, <1>4
  <2> HIDE DEF y, n, x
  <2>3. x(c, s) \in CacheType /\ x(c, s).lease = y.lease /\ x(c, s).end = n /\ ~x(c, s).writing
    BY <2>2, CacheWritten
  <2> QED BY <2>3, <1>2, <1>4 DEF y, n
<1>6. \A d \in Cache, s \in Slot :
        caches'[d][s] = IF d \in {c} /\ s \in S THEN x(d, s) ELSE caches[d][s]
  BY <1>1 DEF Written, Rowed
<1>7. caches' = [d \in Cache |-> [s \in Slot |-> caches'[d][s]]]
  BY <1>1 DEF Written
<1> HIDE DEF a, q, x, b
<1>8. caches' \in [Cache -> [Slot -> CacheType]]
  <2>1. \A d \in Cache, s \in Slot : caches'[d][s] \in CacheType
    BY <1>5, <1>6 DEF BankInv, CachesInv
  <2> QED BY <1>7, <2>1
<1>9. /\ requests' \in [Slot -> RequestType \cup {None}]
      /\ \A s \in S : requests'[s] = q(s)
      /\ \A s \in Slot \ S : requests'[s] = requests[s]
  BY <1>1, <1>2, <1>4 DEF BankInv, RequestsInv
<1>10. /\ DOMAIN waves' = Lane /\ \A k \in Lane : DOMAIN waves'[k] = Cache
       /\ waves'[l][c] = None
       /\ \A k \in Lane, d \in Cache : k # l \/ d \notin {c} => waves'[k][d] = waves[k][d]
  BY <1>1, <1>2 DEF BankInv, WavesInv
<1>11. \A k \in Lane : Batch(k)' <=> Batch(k)
  BY <1>1 DEF Batch
<1>12. ASSUME NEW s \in S PROVE Moved(l, {c}, s)
  <2>1. \A d \in {c} : /\ caches'[d][s].lease = generations[s] /\ ~caches'[d][s].writing
                       /\ caches'[d][s].end = Expected(requests'[s], d)
    BY <1>2, <1>5, <1>6, <1>9
  <2>2. \A d \in Cache \ {c} : /\ caches'[d][s] = caches[d][s]
                               /\ Expected(requests'[s], d) = Expected(requests[s], d)
    BY <1>2, <1>4, <1>6, <1>9
  <2>3. ASSUME NEW k \in Lane, Batch(k)', s \in DOMAIN batches[k].of,
               batches[k].of[s].lease = generations[s]
        PROVE  /\ Knows(k, s, requests'[s], histories'[s])
               /\ \A d \in Cache : waves'[k][d] # None => Unpublished(batches[k], d, requests'[s])
    <3>1. /\ Knows(k, s, q(s), histories[s])
          /\ \A d \in Cache : waves[k][d] # None /\ (k # l \/ d # c)
                                => Unpublished(batches[k], d, q(s))
      BY <1>3, <1>11, <2>3
    <3>2. \A d \in Cache : waves'[k][d] # None => waves'[k][d] = waves[k][d] /\ (k # l \/ d # c)
      BY <1>10
    <3>3. requests'[s] = q(s) /\ histories'[s] = histories[s]
      BY <1>1, <1>9
    <3> QED BY <3>1, <3>2, <3>3
  <2>4. /\ requests[s] # None /\ requests'[s] # None /\ Sound(requests'[s])
        /\ generations[s] = batches[l].of[s].lease /\ Agrees(histories'[s], requests'[s])
    BY <1>1, <1>3, <1>4, <1>9 DEF b
  <2> QED BY <2>1, <2>2, <2>3, <2>4 DEF Moved
<1>13. \A s \in Slot \ S : /\ requests'[s] = requests[s] /\ histories'[s] = histories[s]
                           /\ \A d \in Cache : caches'[d][s] = caches[d][s]
  BY <1>1, <1>6, <1>9
<1>14. /\ DOMAIN batches' = Lane /\ batches'[l] \in {batches[l], None}
       /\ \A k \in Lane \ {l} : batches'[k] = batches[k]
       /\ batches'[l] # None
       /\ histories' \in [Slot -> HistoryType \cup {None}]
       /\ UNCHANGED <<generations, copies>>
  BY <1>1, <1>2 DEF Batch, BankInv, BatchesInv, HistoriesInv
<1>15. Moves(l, {c})
  BY <1>8, <1>9, <1>10, <1>12, <1>13, <1>14 DEF Moves, b
<1>16. Ready(l, c) \/ Pending(l, c)
  BY <1>2 DEF Offers
<1>17. {c} \in SUBSET Cache /\ \A d \in {c} : Ready(l, d) \/ Pending(l, d)
  BY <1>2, <1>16
<1> QED BY <1>2, <1>15, <1>17, MoveKeeps

\* What committing n rows makes of a request and its history.
Finishes(r, q, h, g, C, p, n) ==
    /\ Sound(q) /\ q # None /\ q \in RequestType /\ q.version = r.version + 1
    /\ q.end >= r.end
    /\ r.publication # <<>> =>
        q.end = r.publication[1].end /\ q.publication = Tail(r.publication)
    /\ g \in HistoryType /\ g.prepared = h.prepared /\ g.at >= h.at /\ Agrees(g, q)
    /\ \A d \in Cache : Expected(q, d) = IF d \in C THEN p.position + n ELSE Expected(r, d)
    /\ \A i \in 1..Len(q.publication) : \E j \in 1..Len(r.publication) :
        q.publication[i] = r.publication[j]

\* The history moves with its request.
LEMMA HashedFields ==
    ASSUME NEW h \in HistoryType, NEW b, NEW n \in Nat, NEW to \in Token,
           to = IF b.stage = "Replay" THEN h.at ELSE h.at + n
    PROVE  LET g == Hashed(h, b, n) IN
           g \in HistoryType /\ g.at = to /\ g.prepared = h.prepared /\ g.lease = h.lease
           /\ g.at >= h.at
<1>1. h.at \in Nat
  BY BankConstants DEF HistoryType, Token
<1>2. CASE b.stage = "Replay"
  BY <1>1, <1>2 DEF Hashed
<1>3. CASE b.stage # "Replay"
  <2>1. Hashed(h, b, n) = [h EXCEPT !.at = to]
    BY <1>3 DEF Hashed
  <2> QED BY <1>1, <1>3, <2>1 DEF HistoryType
<1> QED BY <1>2, <1>3

\* What the bank finds published of a batch whose requests agree.
Finds(b, r) ==
    /\ \A i \in 1..Len(r.publication) :
        r.publication[i].batch = b.id => Published(b) = r.publication[i].bits
    /\ r.publication = <<>> => Published(b) = {}

\* A batch's request has exactly one entry for the batch among its publications.
LEMMA PublishedFacts ==
    ASSUME NEW b, Agreed(b), NEW s \in DOMAIN b.of, Sound(requests[s])
    PROVE  Finds(b, requests[s])
<1> DEFINE r == requests[s]
<1>1. DOMAIN r.publication = 1..Len(r.publication)
  BY RequestFields DEF Sound
<1>2. Published(b) = BitsFor(b, s)
  BY DEF Agreed
<1>3. BitsFor(b, s) = UNION {r.publication[i].bits :
          i \in {j \in 1..Len(r.publication) : r.publication[j].batch = b.id}}
  BY <1>1 DEF BitsFor
<1>4. ASSUME NEW i \in 1..Len(r.publication), r.publication[i].batch = b.id
      PROVE  Published(b) = r.publication[i].bits
  <2>1. {j \in 1..Len(r.publication) : r.publication[j].batch = b.id} = {i}
    BY <1>4 DEF Sound, Apart
  <2> QED BY <1>2, <1>3, <2>1
<1>5. r.publication = <<>> => Published(b) = {}
  BY <1>2, <1>3
<1> QED BY <1>4, <1>5 DEF Finds

\* The end a request's history should have is a number of tokens.
LEMMA HistoryEndTyped ==
    ASSUME NEW r \in RequestType
    PROVE  HistoryEnd(r) \in Token
  BY RequestFields, PhaseFields DEF HistoryEnd

\* A request of a commit.
LEMMA FinishedRequest ==
    ASSUME BankInv, NEW l \in Lane, NEW a \in Accepts(l), NEW s \in DOMAIN batches[l].of,
           NEW b, b = batches[l], NEW p, p = b.of[s], NEW r, r = requests[s],
           NEW h, h = histories[s], NEW n, n = a[s],
           NEW q, q = Finished(r, p, n), NEW g, g = Hashed(h, b, n)
    PROVE  Finishes(r, q, h, g, Todo(b), p, n)
<1>1. /\ Batch(l) /\ Valid(b) /\ Agreed(b) /\ InOrder(b)
      /\ b.reserved => Todo(b) = {}
      /\ n \in Token /\ n <= p.tokens
      /\ Published(b) # {} => n = p.tokens
  BY AcceptsFacts DEF Tokens
<1>2. /\ s \in Slot /\ p \in PartType /\ r # None /\ Sound(r) /\ r \in RequestType
      /\ r.phase.stage = b.stage /\ Stands(b, p, r)
      /\ h # None /\ h.at = HistoryEnd(r) /\ Agrees(h, r)
      /\ Owns(b, p, r) /\ Planned(b, p, r) /\ Alone(b, h)
  BY <1>1, ValidFacts
<1>3. h \in HistoryType
  BY <1>2 DEF BankInv, HistoriesInv
<1>4. /\ \A i \in 1..Len(r.publication) :
           r.publication[i].batch = b.id => Published(b) = r.publication[i].bits
      /\ r.publication = <<>> => Published(b) = {}
  <2>1. Finds(b, requests[s])
    BY <1>1, <1>2, PublishedFacts
  <2> QED BY <2>1 DEF Finds
<1>5. /\ Len(r.publication) \in Nat /\ (r.publication = <<>> <=> Len(r.publication) = 0)
      /\ n \in Nat /\ b.reserved \in BOOLEAN
      /\ b.reserved => b.stage = "Encoder"
  BY <1>1, <1>2, RequestFields, BatchFields, BankConstants DEF Token, BankInv, BatchesInv
<1>6. CASE b.reserved
  <2>1. /\ r.publication # <<>> /\ 1 \in 1..Len(r.publication)
        /\ r.publication[1].batch = b.id /\ r.end = p.position /\ h.at = p.position
        /\ b.stage = "Encoder"
    BY <1>1, <1>2, <1>5, <1>6 DEF Stands, InOrder
  <2>2. r.publication[1].end = p.position + p.tokens
    BY <1>2, <2>1 DEF Owns
  <2>3. Todo(b) = {} /\ Writes("Encoder") \subseteq r.publication[1].bits
    BY <1>1, <1>4, <1>6, <2>1 DEF Todo
  <2>4. n = p.tokens
    BY <1>1, <1>4, <2>1, <2>3, KindFacts
  <2>5. /\ Sound(q) /\ q.version = r.version + 1 /\ q.phase = r.phase
        /\ q.end = p.position + p.tokens /\ HistoryEnd(q) = p.position + p.tokens
        /\ q.end > r.end
        /\ q.publication = Tail(r.publication) /\ PreparedEnd(q) = PreparedEnd(r)
        /\ \A j \in 1..Len(q.publication) :
             j + 1 \in 1..Len(r.publication) /\ q.publication[j] = r.publication[j + 1]
        /\ \A c \in Cache : Expected(q, c) = Expected(r, c)
    <3>1. q = Finished(r, p, p.tokens) /\ r.phase.stage = "Encoder"
      BY <1>2, <2>1, <2>4
    <3> QED BY ONLY <1>2, <2>1, <2>2, <2>3, <3>1, FinishedReserved
  <2>6. q \in RequestType /\ q # None /\ q.end \in Nat /\ r.end \in Nat /\ q.end \in Token
    BY <1>2, <2>5, BankNone, RequestFields DEF Sound
  <2>7. g \in HistoryType /\ g.at = HistoryEnd(q) /\ g.prepared = h.prepared /\ g.at >= h.at
    <3> DEFINE to == p.position + p.tokens
    <3>1. to \in Token /\ to = IF b.stage = "Replay" THEN h.at ELSE h.at + n
      BY <2>1, <2>4, <2>5, <2>6
    <3>2. HistoryEnd(q) = to
      BY <2>5
    <3> HIDE DEF to
    <3> QED BY <1>3, <1>5, <3>1, <3>2, HashedFields
  <2>8. Agrees(g, q)
    <3>1. g.prepared # None => q.phase.stage = "Encoder" /\ g.prepared = PreparedEnd(q)
      BY <1>2, <2>5, <2>7 DEF Agrees
    <3>2. g.prepared = None => \A i \in 1..Len(q.publication) : ~q.publication[i].reserved
      <4> SUFFICES ASSUME g.prepared = None, NEW i \in 1..Len(q.publication)
                   PROVE  ~q.publication[i].reserved
        OBVIOUS
      <4>1. i + 1 \in 1..Len(r.publication) /\ q.publication[i] = r.publication[i + 1]
        BY <2>5
      <4> QED BY <1>2, <2>7, <4>1 DEF Agrees
    <3> QED BY <2>7, <3>1, <3>2 DEF Agrees
  <2>9. /\ \A d \in Cache : Expected(q, d) = IF d \in Todo(b) THEN p.position + n ELSE Expected(r, d)
        /\ \A i \in 1..Len(q.publication) : \E j \in 1..Len(r.publication) :
              q.publication[i] = r.publication[j]
        /\ q.end >= r.end
        /\ r.publication # <<>> =>
             q.end = r.publication[1].end /\ q.publication = Tail(r.publication)
    BY <2>2, <2>3, <2>5, <2>6
  <2> QED BY <2>5, <2>6, <2>7, <2>8, <2>9 DEF Finishes
<1>7. CASE ~b.reserved
  <2>1. r.publication # <<>> =>
          /\ 1 \in 1..Len(r.publication) /\ r.publication[1].batch = b.id
          /\ ~r.publication[1].reserved /\ Len(r.publication) = 1
          /\ r.publication[1].bits # {} /\ r.publication[1].end = p.position + p.tokens
    <3> SUFFICES ASSUME r.publication # <<>>
                 PROVE  /\ 1 \in 1..Len(r.publication) /\ r.publication[1].batch = b.id
                        /\ ~r.publication[1].reserved /\ Len(r.publication) = 1
                        /\ r.publication[1].bits # {}
                        /\ r.publication[1].end = p.position + p.tokens
      OBVIOUS
    <3>1. 1 \in 1..Len(r.publication)
      BY <1>5
    <3>2. r.publication[1].batch = b.id /\ ~r.publication[1].reserved
      BY <1>2, <1>7 DEF Stands
    <3>3. Len(r.publication) = 1 /\ r.publication[1].bits # {}
      BY <1>2, <3>1, <3>2 DEF Sound, Chunked
    <3>4. r.publication[1].end = p.position + p.tokens
      BY <1>2, <3>1, <3>2 DEF Owns
    <3> QED BY <3>1, <3>2, <3>3, <3>4
  <2>2. Position(r) = p.position /\ p.position + p.tokens <= Extent(r.phase)
    BY <1>2, <1>7 DEF Stands, Planned
  <2>3. r.publication # <<>> => n = p.tokens
    BY <1>1, <1>4, <2>1
  <2>4. n \in 0..p.tokens
    BY <1>1, <1>2, <1>5, PartFields
  <2>5. Todo(b) = Writes(r.phase.stage)
                    \ (IF r.publication = <<>> THEN {} ELSE r.publication[1].bits)
    BY <1>2, <1>4, <2>1 DEF Todo
  <2>6. /\ Sound(q) /\ q.version = r.version + 1 /\ q.publication = <<>>
        /\ q.end >= r.end
        /\ r.publication # <<>> => q.end = r.publication[1].end
        /\ HistoryEnd(q) = IF r.phase.stage = "Replay" THEN HistoryEnd(r) ELSE HistoryEnd(r) + n
        /\ \A c \in Cache :
             Expected(q, c) = IF c \in Todo(b) THEN p.position + n ELSE Expected(r, c)
    <3>1. r.publication # <<>> =>
             /\ Len(r.publication) = 1 /\ r.publication[1].end = p.position + p.tokens
             /\ n = p.tokens
      BY <2>1, <2>3
    <3> QED BY ONLY <1>2, <2>2, <2>4, <2>5, <3>1, q = Finished(r, p, n), FinishedWhole
  <2>7. q \in RequestType /\ q # None /\ HistoryEnd(q) \in Token
    BY <2>6, BankNone, HistoryEndTyped DEF Sound
  <2>8. g \in HistoryType /\ g.at = HistoryEnd(q) /\ g.prepared = h.prepared /\ g.at >= h.at
    <3> DEFINE to == HistoryEnd(q)
    <3>1. to \in Token /\ to = IF b.stage = "Replay" THEN h.at ELSE h.at + n
      BY <1>2, <2>6, <2>7
    <3> HIDE DEF to
    <3>2. g \in HistoryType /\ g.at = to /\ g.prepared = h.prepared /\ g.at >= h.at
      BY <1>3, <1>5, <3>1, HashedFields
    <3> QED BY <3>2 DEF to
  <2>9. g.prepared = None
    <3>1. CASE b.stage = "Replay"
      BY <1>2, <2>8, <3>1 DEF Agrees
    <3>2. CASE b.stage # "Replay"
      BY <1>2, <1>7, <2>8, <3>2 DEF Alone
    <3> QED BY <3>1, <3>2
  <2>10. Agrees(g, q) /\ Len(q.publication) = 0
    BY <2>6, <2>8, <2>9 DEF Agrees
  <2>11. r.publication # <<>> => q.publication = Tail(r.publication)
    <3> SUFFICES ASSUME r.publication # <<>> PROVE Tail(r.publication) = <<>>
      BY <2>6
    <3> DEFINE E == EntryType
    <3>1. r.publication \in Seq(E) /\ Len(r.publication) = 1
      BY <1>2, <2>1, RequestFields
    <3> HIDE DEF E
    <3>2. Tail(r.publication) \in Seq(E) /\ Len(Tail(r.publication)) = 0
      BY <3>1
    <3> QED BY <3>2, EmptySeq
  <2>12. \A i \in 1..Len(q.publication) : \E j \in 1..Len(r.publication) :
              q.publication[i] = r.publication[j]
    BY <2>10
  <2> QED BY <2>6, <2>7, <2>8, <2>10, <2>11, <2>12 DEF Finishes
<1> QED BY <1>6, <1>7

\* What the other lanes know of a request when it is committed.
LEMMA FinishedKnown ==
    ASSUME BankInv, NEW s \in Slot, requests[s] # None, histories[s] # None,
           NEW q, NEW g, NEW C, NEW p, NEW n,
           Finishes(requests[s], q, histories[s], g, C, p, n),
           NEW k \in Lane, Batch(k), s \in DOMAIN batches[k].of,
           batches[k].of[s].lease = generations[s]
    PROVE  /\ Knows(k, s, q, g)
           /\ \A d \in Cache : waves[k][d] # None => Unpublished(batches[k], d, q)
<1> DEFINE r == requests[s]
           b == batches[k]
<1>1. Owns(b, b.of[s], r) /\ Planned(b, b.of[s], r) /\ Alone(b, histories[s])
  BY DEF BankInv, BatchesInv, Fits
<1>2. /\ q.version = r.version + 1 /\ g.prepared = histories[s].prepared
      /\ \A i \in 1..Len(q.publication) : \E j \in 1..Len(r.publication) :
            q.publication[i] = r.publication[j]
  BY DEF Finishes
<1>3. r.version \in Nat /\ b.of[s].version \in Nat
  BY RequestFields, BatchFields, PartFields DEF BankInv, RequestsInv
<1>4. Owns(b, b.of[s], q)
  BY <1>1, <1>2 DEF Owns
<1>5. Planned(b, b.of[s], q)
  BY <1>1, <1>2, <1>3 DEF Planned
<1>6. Alone(b, g)
  BY <1>1, <1>2 DEF Alone
<1>7. ASSUME NEW d \in Cache, waves[k][d] # None
      PROVE  Unpublished(b, d, q)
  <2>1. Unpublished(b, d, r)
    BY <1>7 DEF BankInv, WavesInv
  <2> QED BY <2>1, <1>2 DEF Unpublished
<1> QED BY <1>4, <1>5, <1>6, <1>7 DEF Knows

\* A batch that fits its requests has no wave for a cache it has published.
LEMMA WavesToDo ==
    ASSUME BankInv, NEW l \in Lane, Batch(l), Valid(batches[l]), NEW d \in Cache,
           waves[l][d] # None
    PROVE  d \in Todo(batches[l])
<1> DEFINE b == batches[l]
<1>1. d \in Writes(b.stage)
  BY WaveFields
<1>2. ASSUME NEW s \in DOMAIN b.of PROVE d \notin BitsFor(b, s)
  <2>1. requests[s] # None /\ generations[s] = b.of[s].lease /\ Sound(requests[s])
    BY ValidFacts
  <2>2. Unpublished(b, d, requests[s])
    BY <2>1 DEF BankInv, WavesInv
  <2>3. DOMAIN requests[s].publication = 1..Len(requests[s].publication)
    BY <2>1, RequestFields DEF Sound
  <2> QED BY <2>2, <2>3 DEF BitsFor, Unpublished
<1> QED BY <1>1, <1>2 DEF Todo, Published

\* commit keeps the invariant.
LEMMA CommitKeeps ==
    ASSUME BankInv, NEW l \in Lane, NEW a \in Accepts(l), Commit(l, a)
    PROVE  BankInv'
<1> DEFINE b == batches[l]
           S == DOMAIN b.of
           C == Todo(b)
           q(s) == Finished(requests[s], b.of[s], a[s])
           g(s) == Hashed(histories[s], b, a[s])
           x(d, s) == Rowed(caches[d][s], b.of[s].position + a[s])
<1>1. /\ caches' = Written(caches, C, b.of, a)
      /\ requests' = [s \in Slot |-> IF s \in S THEN q(s) ELSE requests[s]]
      /\ histories' = [s \in Slot |-> IF s \in S THEN g(s) ELSE histories[s]]
      /\ batches' = [batches EXCEPT ![l] = None]
      /\ waves' = [waves EXCEPT ![l] = NoWaves]
      /\ UNCHANGED <<generations, copies>>
  BY DEF Commit
<1>2. /\ Batch(l) /\ Valid(b) /\ S \subseteq Slot /\ C \in SUBSET Cache
      /\ \A d \in C : Offers(l, d)
  BY AcceptsFacts
<1>3. ASSUME NEW s \in S
      PROVE  Finishes(requests[s], q(s), histories[s], g(s), C, b.of[s], a[s])
  <2> DEFINE qs == q(s)
             gs == g(s)
  <2>1. qs = Finished(requests[s], b.of[s], a[s]) /\ gs = Hashed(histories[s], b, a[s])
    OBVIOUS
  <2> HIDE DEF qs, gs, q, g
  <2>2. Finishes(requests[s], qs, histories[s], gs, C, b.of[s], a[s])
    BY <2>1, FinishedRequest
  <2> QED BY <2>2 DEF qs, gs
<1>4. ASSUME NEW s \in S
      PROVE  /\ requests[s] # None /\ histories[s] # None /\ generations[s] = b.of[s].lease
             /\ \A d \in Cache : caches[d][s].lease = generations[s]
             /\ Sound(q(s)) /\ q(s) \in RequestType /\ q(s) # None
             /\ g(s) \in HistoryType /\ Agrees(g(s), q(s))
             /\ \A d \in C : /\ b.of[s].position + a[s] = Expected(q(s), d)
                             /\ b.of[s].position + a[s] \in Token
             /\ \A d \in Cache \ C : Expected(q(s), d) = Expected(requests[s], d)
  <2>1. requests[s] # None /\ histories[s] # None /\ generations[s] = b.of[s].lease
        /\ \A d \in Cache : caches[d][s].lease = generations[s]
    BY <1>2, ValidFacts
  <2>2. /\ Sound(q(s)) /\ q(s) # None /\ q(s) \in RequestType
        /\ g(s) \in HistoryType /\ Agrees(g(s), q(s))
        /\ \A d \in Cache : Expected(q(s), d) = IF d \in C THEN b.of[s].position + a[s]
                                                ELSE Expected(requests[s], d)
    BY <1>3 DEF Finishes
  <2> HIDE DEF q, g, b, C
  <2>3. \A d \in Cache : Expected(q(s), d) \in Token
    BY <2>2, ExpectedTyped
  <2> QED BY <1>2, <2>1, <2>2, <2>3
<1>5. ASSUME NEW s \in S, NEW d \in C
      PROVE  x(d, s) \in CacheType /\ x(d, s).lease = generations[s] /\ ~x(d, s).writing
             /\ x(d, s).end = Expected(q(s), d)
  <2>1. caches[d][s] \in CacheType /\ d \in Cache
    BY <1>2 DEF BankInv, CachesInv
  <2> DEFINE y == caches[d][s]
             n == b.of[s].position + a[s]
  <2>2. y \in CacheType /\ n \in Token /\ x(d, s) = Rowed(y, n)
    BY <2>1, <1>4
  <2> HIDE DEF y, n, x
  <2>3. x(d, s) \in CacheType /\ x(d, s).lease = y.lease /\ x(d, s).end = n /\ ~x(d, s).writing
    BY <2>2, CacheWritten
  <2> QED BY <2>1, <2>3, <1>2, <1>4 DEF y, n
<1>6. \A d \in Cache, s \in Slot :
        caches'[d][s] = IF d \in C /\ s \in S THEN x(d, s) ELSE caches[d][s]
  BY <1>1 DEF Written, Rowed
<1>7. caches' = [d \in Cache |-> [s \in Slot |-> caches'[d][s]]]
  BY <1>1 DEF Written
<1>8. \A d \in Cache : d \notin C => waves[l][d] = None
  BY <1>2, WavesToDo
<1> HIDE DEF q, g, x, b, C
<1>9. caches' \in [Cache -> [Slot -> CacheType]]
  <2>1. \A d \in Cache, s \in Slot : caches'[d][s] \in CacheType
    BY <1>5, <1>6 DEF BankInv, CachesInv
  <2> QED BY <1>7, <2>1
<1>10. /\ requests' \in [Slot -> RequestType \cup {None}]
       /\ histories' \in [Slot -> HistoryType \cup {None}]
       /\ \A s \in S : requests'[s] = q(s) /\ histories'[s] = g(s)
       /\ \A s \in Slot \ S : requests'[s] = requests[s] /\ histories'[s] = histories[s]
  BY <1>1, <1>2, <1>4 DEF BankInv, RequestsInv, HistoriesInv
<1>11. /\ DOMAIN waves' = Lane /\ \A k \in Lane : DOMAIN waves'[k] = Cache
       /\ \A d \in Cache : waves'[l][d] = None
       /\ \A k \in Lane, d \in Cache : k # l \/ d \notin C => waves'[k][d] = waves[k][d]
  BY <1>1, <1>2, <1>8 DEF BankInv, WavesInv, NoWaves
<1>12. /\ DOMAIN batches' = Lane /\ batches'[l] = None
       /\ \A k \in Lane \ {l} : batches'[k] = batches[k]
  BY <1>1 DEF BankInv, BatchesInv
<1>13. ASSUME NEW s \in S PROVE Moved(l, C, s)
  <2>0. s \in Slot /\ requests'[s] = q(s) /\ histories'[s] = g(s)
    BY <1>2, <1>10
  <2>1. \A d \in C : /\ caches'[d][s].lease = generations[s] /\ ~caches'[d][s].writing
                     /\ caches'[d][s].end = Expected(requests'[s], d)
    BY <1>2, <1>5, <1>6, <2>0
  <2>2. \A d \in Cache \ C : /\ caches'[d][s] = caches[d][s]
                             /\ Expected(requests'[s], d) = Expected(requests[s], d)
    BY <1>4, <1>6, <2>0
  <2>3. ASSUME NEW k \in Lane, Batch(k)', s \in DOMAIN batches[k].of,
               batches[k].of[s].lease = generations[s]
        PROVE  /\ Knows(k, s, requests'[s], histories'[s])
               /\ \A d \in Cache : waves'[k][d] # None => Unpublished(batches[k], d, requests'[s])
    <3>1. k # l /\ Batch(k)
      BY <1>12, <2>3 DEF Batch
    <3>2. Finishes(requests[s], q(s), histories[s], g(s), C, b.of[s], a[s])
      BY <1>3
    <3>3. /\ Knows(k, s, q(s), g(s))
          /\ \A d \in Cache : waves[k][d] # None => Unpublished(batches[k], d, q(s))
      BY <1>4, <2>0, <2>3, <3>1, <3>2, FinishedKnown
    <3> QED BY <2>0, <3>1, <3>3, <1>11
  <2>4. /\ requests[s] # None /\ requests'[s] # None /\ Sound(requests'[s])
        /\ generations[s] = batches[l].of[s].lease /\ Agrees(histories'[s], requests'[s])
    BY <1>4, <2>0 DEF b
  <2> QED BY <2>1, <2>2, <2>3, <2>4 DEF Moved
<1>14. \A s \in Slot \ S : /\ requests'[s] = requests[s] /\ histories'[s] = histories[s]
                           /\ \A d \in Cache : caches'[d][s] = caches[d][s]
  BY <1>6, <1>10
<1>15. Moves(l, C)
  BY <1>1, <1>2, <1>9, <1>10, <1>11, <1>12, <1>13, <1>14 DEF Moves, b
<1>16. \A d \in C : Ready(l, d) \/ Pending(l, d)
  BY <1>2 DEF Offers
<1> QED BY <1>2, <1>15, <1>16, MoveKeeps

-----------------------------------------------------------------------------
(* The invariant and what it implies. *)

\* Every step of a lane keeps the invariant.
LEMMA LaneKeeps ==
    ASSUME BankInv, NEW l \in Lane, LaneNext(l)
    PROVE  BankInv'
<1>1. CASE \E w \in Work : Prepare(l, w) \/ ReserveEncoder(l, w)
  BY <1>1, PrepareKeeps, ReserveEncoderKeeps
<1>2. CASE \E c \in NextToProduce(l) : Produce(l, c)
  BY <1>2, ProduceKeeps
<1>3. CASE \E c \in Publishable(l) :
              EnqueueEncoder(l, c) \/ PublishEncoder(l, c) \/ PublishFails(l, c)
  <2>1. PICK c \in Publishable(l) :
              EnqueueEncoder(l, c) \/ PublishEncoder(l, c) \/ PublishFails(l, c)
    BY <1>3
  <2>2. c \in Cache
    BY PublishableFacts
  <2> QED BY <2>1, <2>2, EnqueueEncoderKeeps, PublishEncoderKeeps, PublishFailsKeeps
<1>4. CASE \E a \in Accepts(l) : EnqueueCommit(l, a) \/ Commit(l, a)
  BY <1>4, EnqueueCommitKeeps, CommitKeeps
<1>5. CASE GiveUp(l)
  BY <1>5, GiveUpKeeps
<1>6. CASE EndPrefix(l)
  BY <1>6, EndPrefixKeeps
<1>7. CASE \E s \in Slot : QueuePrefix(l, s)
  BY <1>7, QueuePrefixKeeps
<1> QED BY <1>1, <1>2, <1>3, <1>4, <1>5, <1>6, <1>7 DEF LaneNext

\* Every call about one slot keeps the invariant.
LEMMA SlotActionKeeps ==
    ASSUME BankInv, NEW s \in Slot, SlotNext(s)
    PROVE  BankInv'
<1>1. Rows[s] \in 0..MAX_TOKENS
  BY BankConstants
<1>2. \A end \in 1..Rows[s] : end \in Token /\ end > 0
  BY <1>1, BankConstants DEF Token
<1>3. \A end \in 1..Rows[s] : \A target \in end..Rows[s] : target \in Token /\ target > 0
  BY <1>1, BankConstants DEF Token
<1>4. CASE Admit(s) \/ Release(s) \/ BeginDecoderReplay(s) \/ DecoderReplayFails(s)
  BY <1>4, AdmitKeeps, ReleaseKeeps, BeginDecoderReplayKeeps, DecoderReplayFailsKeeps
<1>5. CASE \E target \in 1..Rows[s] : BeginEncoder(s, target)
  BY <1>2, <1>5, BeginEncoderKeeps
<1>6. CASE \E end \in 1..Rows[s] : RestorePrefix(s, end)
  BY <1>2, <1>6, RestorePrefixKeeps
<1>7. CASE \E end \in 1..Rows[s] : \E target \in end..Rows[s] :
              RestoreEncoderContinuation(s, end, target) \/ RestoreEncoderPrefix(s, end, target)
  BY <1>2, <1>3, <1>7, RestoreEncoderContinuationKeeps, RestoreEncoderPrefixKeeps
<1> QED BY <1>4, <1>5, <1>6, <1>7 DEF SlotNext

\* Every step of the bank keeps the invariant.
LEMMA NextKeeps ==
    ASSUME BankInv, [BankNext]_bank_vars
    PROVE  BankInv'
<1>1. CASE UNCHANGED bank_vars
  BY <1>1 DEF bank_vars, BankInv, RequestsInv, CachesInv, HistoriesInv, BatchesInv, WavesInv,
              WritesInv, Writer, Pending, Batch
<1>2. CASE BankNext
  BY <1>2, LaneKeeps, SlotActionKeeps DEF BankNext
<1> QED BY <1>1, <1>2

\* The inductive invariant: what the bank, the histories, the caches, the batches
\* and the waves of the lanes know of each other.
THEOREM BankInvariant == BankSpec => []BankInv
<1>1. BankInit => BankInv
  BY InitHolds
<1>2. BankInv /\ [BankNext]_bank_vars => BankInv'
  BY NextKeeps
<1> QED BY <1>1, <1>2, PTL DEF BankSpec

\* Every variable keeps its type, and a request never has more chunks outstanding
\* than the capacity plan_stage checks (publication.rs).
THEOREM BankTypes == BankSpec => []BankTypeOK
<1>1. BankInv => BankTypeOK
  <2> SUFFICES ASSUME BankInv PROVE BankTypeOK
    OBVIOUS
  <2>1. /\ generations \in [Slot -> Lease] /\ requests \in [Slot -> RequestType \cup {None}]
        /\ \A s \in Slot : requests[s] # None => Len(requests[s].publication) <= CAPACITY
    BY DEF BankInv, RequestsInv, Sound, Lease
  <2>2. /\ histories \in [Slot -> HistoryType \cup {None}]
        /\ caches \in [Cache -> [Slot -> CacheType]]
        /\ copies \in [Lane -> CopyType \cup {None}]
    BY DEF BankInv, HistoriesInv, CachesInv
  <2>3. /\ DOMAIN batches = Lane /\ DOMAIN waves = Lane
        /\ \A l \in Lane :
            /\ batches[l] # None => \E S \in SUBSET Slot : batches[l] \in BatchType(S)
            /\ DOMAIN waves[l] = Cache
            /\ \A c \in Cache :
                  waves[l][c] # None => \E S \in SUBSET Slot : waves[l][c] \in WaveType(S)
    BY DEF BankInv, BatchesInv, WavesInv, Batch
  <2> QED BY <2>1, <2>2, <2>3 DEF BankTypeOK
<1> QED BY <1>1, BankInvariant, PTL

\* Every cache a request leases is where the request's phase and its publications
\* say: committed_end fails only for a cache whose lease a failure has revoked.
THEOREM BankFrontiers == BankSpec => []FrontiersAgree
<1>1. BankInv => FrontiersAgree
  BY DEF BankInv, CachesInv, Follows, FrontiersAgree
<1> QED BY <1>1, BankInvariant, PTL

\* Outstanding chunks follow each other and the request's frontier without a gap,
\* none is ahead of the one before it in a cache, and only an encoder prefill has
\* any, however they are reserved, published and committed (publication.rs).
THEOREM BankChunks == BankSpec => []ChunksFollowEachOther
<1>1. BankInv => ChunksFollowEachOther
  <2> SUFFICES ASSUME BankInv, NEW s \in Slot, requests[s] # None
               PROVE  LET r == requests[s]
                          pub == r.publication
                      IN  /\ pub # <<>> => r.phase.stage = "Encoder" /\ pub[1].start = r.end
                          /\ \A i \in DOMAIN pub :
                              /\ pub[i].start < pub[i].end /\ pub[i].end <= r.phase.target
                              /\ ~pub[i].reserved => Len(pub) = 1
                              /\ i > 1 => /\ pub[i].start = pub[i - 1].end
                                          /\ pub[i].bits \subseteq pub[i - 1].bits
    BY DEF ChunksFollowEachOther
  <2>1. Sound(requests[s])
    BY DEF BankInv, RequestsInv
  <2>2. DOMAIN requests[s].publication = 1..Len(requests[s].publication)
    BY <2>1, RequestFields DEF Sound
  <2> QED BY <2>1, <2>2 DEF Sound, Chunked
<1> QED BY <1>1, BankInvariant, PTL

\* The hashed history of a request is where its caches are, and the history
\* prepared ahead where its last reserved chunk ends (v41_requests.rs).
THEOREM BankHistories == BankSpec => []HistoriesAgree
<1>1. BankInv => HistoriesAgree
  <2> SUFFICES ASSUME BankInv, NEW s \in Slot, histories[s] # None, Live(s, histories[s].lease)
               PROVE  LET h == histories[s]
                          r == requests[s]
                      IN  /\ h.at = HistoryEnd(r)
                          /\ h.prepared # None =>
                                r.phase.stage = "Encoder" /\ h.prepared = PreparedEnd(r)
                          /\ h.prepared = None =>
                                \A i \in DOMAIN r.publication : ~r.publication[i].reserved
    BY DEF HistoriesAgree
  <2>1. Agrees(histories[s], requests[s]) /\ Sound(requests[s])
    BY DEF BankInv, HistoriesInv, RequestsInv, Live
  <2>2. DOMAIN requests[s].publication = 1..Len(requests[s].publication)
    BY <2>1, RequestFields DEF Sound
  <2> QED BY <2>1, <2>2 DEF Agrees
<1> QED BY <1>1, BankInvariant, PTL

\* A queued write belongs to exactly one wave, and goes to the lease and the rows it
\* was produced for: nothing releases or hands on a slot that is being written to
\* (ensure_not_writing), whatever fails meanwhile.
THEOREM BankWrites == BankSpec => []QueuedWritesAreOwned
<1>1. BankInv => QueuedWritesAreOwned
  <2> SUFFICES ASSUME BankInv, NEW c \in Cache, NEW s \in Slot
               PROVE  LET writers == {l \in Lane : Pending(l, c) /\ s \in DOMAIN waves[l][c].of}
                      IN  /\ caches[c][s].writing <=> writers # {}
                          /\ Cardinality(writers) <= 1
                          /\ \A l \in writers :
                              LET p == waves[l][c].of[s]
                              IN  /\ requests[s] # None /\ generations[s] = p.lease
                                  /\ PartFits(c, s, p) /\ caches[c][s].version = p.version
    BY DEF QueuedWritesAreOwned
  <2> DEFINE W == {l \in Lane : Pending(l, c) /\ s \in DOMAIN waves[l][c].of}
  <2>1. \A l \in Lane : l \in W <=> Writer(l, c, s)
    BY DEF Writer
  <2>2. caches[c][s].writing <=> W # {}
    BY <2>1 DEF BankInv, WritesInv
  <2>3. \A l, k \in W : l = k
    BY <2>1 DEF BankInv, WritesInv
  <2>4. Cardinality(W) <= 1
    <3> HIDE DEF W
    <3>1. CASE W = {}
      BY <3>1, FS_EmptySet
    <3>2. CASE W # {}
      <4>1. PICK l \in W : TRUE
        BY <3>2
      <4>2. W = {l}
        BY <4>1, <2>3
      <4>3. Cardinality({l}) = 1
        BY FS_Singleton
      <4> QED BY <4>2, <4>3
    <3> QED BY <3>1, <3>2
  <2>5. ASSUME NEW l \in W
        PROVE  LET p == waves[l][c].of[s]
               IN  /\ requests[s] # None /\ generations[s] = p.lease
                   /\ PartFits(c, s, p) /\ caches[c][s].version = p.version
    BY <2>1 DEF BankInv, WritesInv, Right, PartFits
  <2> QED BY <2>2, <2>4, <2>5
<1> QED BY <1>1, BankInvariant, PTL

-----------------------------------------------------------------------------
(* Frontiers never go back. *)

\* A step that leaves a request's frontiers where they are, or releases what has them.
Rests(s) ==
    /\ requests'[s] # None => requests[s] # None /\ requests'[s].end = requests[s].end
    /\ histories'[s] # None => histories[s] # None /\ histories'[s].at = histories[s].at
    /\ \A c \in Cache : caches'[c][s].lease # 0 => caches'[c][s].end = caches[c][s].end

\* What AdvancesByWholeChunks says of one slot.
Grows(s) ==
    /\ requests'[s].end >= requests[s].end
    /\ histories[s] # None /\ histories'[s] # None => histories'[s].at >= histories[s].at
    /\ \A c \in Cache : caches'[c][s].lease # 0 => caches'[c][s].end >= caches[c][s].end
Whole(s) ==
    requests'[s].end # requests[s].end /\ requests[s].publication # <<>> =>
        LET head == requests[s].publication[1]
        IN  /\ requests'[s].end = head.end
            /\ requests'[s].publication = Tail(requests[s].publication)
            /\ \A c \in Writes("Encoder") : caches'[c][s].end >= head.end
Advances(s) ==
    requests[s] # None /\ requests'[s] # None /\ generations'[s] = generations[s] =>
        Grows(s) /\ Whole(s)

\* The ends of a slot's request, history and caches are numbers.
LEMMA FrontiersTyped ==
    ASSUME BankInv, NEW s \in Slot
    PROVE  /\ requests[s] # None => requests[s].end \in Nat
           /\ histories[s] # None => histories[s].at \in Nat
           /\ \A c \in Cache : caches[c][s].end \in Nat
<1>1. requests[s] # None => requests[s].end \in Nat
  BY RequestFields, BankConstants DEF BankInv, RequestsInv, Token
<1>2. histories[s] # None => histories[s].at \in Nat
  BY BankConstants DEF BankInv, HistoriesInv, HistoryType, Token
<1>3. \A c \in Cache : caches[c][s].end \in Nat
  BY BankConstants DEF BankInv, CachesInv, CacheType, Token
<1> QED BY <1>1, <1>2, <1>3

\* The same, in the next state.
LEMMA FrontiersTypedNext ==
    ASSUME BankInv', NEW s \in Slot
    PROVE  /\ requests'[s] # None => requests'[s].end \in Nat
           /\ histories'[s] # None => histories'[s].at \in Nat
           /\ \A c \in Cache : caches'[c][s].end \in Nat
<1>1. requests'[s] # None => requests'[s].end \in Nat
  BY RequestFields, BankConstants DEF BankInv, RequestsInv, Token
<1>2. histories'[s] # None => histories'[s].at \in Nat
  BY BankConstants DEF BankInv, HistoriesInv, HistoryType, Token
<1>3. \A c \in Cache : caches'[c][s].end \in Nat
  BY BankConstants DEF BankInv, CachesInv, CacheType, Token
<1> QED BY <1>1, <1>2, <1>3

\* A slot whose ends rest, or are cleared, advances by nothing.
LEMMA RestAdvances ==
    ASSUME BankInv, NEW s \in Slot, Rests(s)
    PROVE  Advances(s)
  BY FrontiersTyped DEF Rests, Advances, Grows, Whole

\* A step that leaves requests, histories and caches alone advances nothing.
LEMMA StillAdvances ==
    ASSUME BankInv, UNCHANGED <<requests, histories, caches>>, NEW s \in Slot
    PROVE  Advances(s)
<1>1. Rests(s)
  BY DEF Rests
<1> QED BY <1>1, RestAdvances

\* Dropping batches leaves every end where it was or clears the slot.
LEMMA DroppedRests ==
    ASSUME NEW of, NEW cs, Dropped(of, cs), NEW s \in Slot,
           \A c \in Cache : cs[c][s] \in {caches[c][s], Bare}
    PROVE  Rests(s)
<1> DEFINE gone == LetGo(of, cs)
           live == {t \in gone : Live(t, of[t].lease)}
<1>1. /\ histories' = Without(histories, gone) /\ requests' = Without(requests, live)
      /\ caches' = Cleared(cs, live)
  BY DEF Dropped
<1> HIDE DEF gone, live
<1>2. /\ requests'[s] \in {requests[s], None} /\ histories'[s] \in {histories[s], None}
      /\ \A c \in Cache : caches'[c][s] \in {caches[c][s], Bare}
  BY <1>1 DEF Without, Cleared
<1> QED BY <1>2, BareFields DEF Rests

\* A batch that leaves moves no end.
LEMMA LeaveRests ==
    ASSUME NEW l \in Lane, NEW C, Leave(l, C), NEW s \in Slot
    PROVE  Rests(s)
<1> DEFINE of == batches[l].of
           cs == [c \in Cache |-> [t \in Slot |->
                    IF c \in C /\ t \in DOMAIN of THEN Bare ELSE caches[c][t]]]
<1>1. Dropped(of, cs)
  BY DEF Leave
<1>2. \A c \in Cache : cs[c][s] \in {caches[c][s], Bare}
  OBVIOUS
<1> HIDE DEF cs, of
<1> QED BY <1>1, <1>2, DroppedRests

\* Queueing an encoder publication moves no end.
LEMMA QueuesRests ==
    ASSUME BankInv, NEW l \in Lane, NEW c \in Publishable(l), EnqueueEncoder(l, c), NEW s \in Slot
    PROVE  Rests(s)
<1>1. c \in Cache /\ UNCHANGED <<requests, histories>> /\ caches' = Queued(caches, c, waves[l][c].of)
  BY PublishableFacts DEF EnqueueEncoder
<1>2. \A d \in Cache : caches'[d][s].end = caches[d][s].end
  <2>1. caches \in [Cache -> [Slot -> CacheType]]
    BY DEF BankInv, CachesInv
  <2>2. \A d \in Cache : d # c => caches'[d] = caches[d]
    BY <1>1, <2>1 DEF Queued
  <2>3. caches'[c][s] \in {caches[c][s], [caches[c][s] EXCEPT !.writing = TRUE]}
    BY <1>1, <2>1 DEF Queued
  <2>4. [caches[c][s] EXCEPT !.writing = TRUE].end = caches[c][s].end
    BY <1>1, <2>1, CacheQueued
  <2>5. caches'[c][s].end = caches[c][s].end
    BY <2>3, <2>4
  <2> QED BY <2>2, <2>5
<1> QED BY <1>1, <1>2 DEF Rests

\* Queueing a commit moves no end.
LEMMA QueuesAllRests ==
    ASSUME BankInv, NEW l \in Lane, NEW a \in Accepts(l), EnqueueCommit(l, a), NEW s \in Slot
    PROVE  Rests(s)
<1> DEFINE C == Todo(batches[l])
           of == batches[l].of
<1>1. /\ UNCHANGED <<requests, histories>>
      /\ caches' = [c \in Cache |-> IF c \in C THEN Queued(caches, c, of)[c] ELSE caches[c]]
  BY DEF EnqueueCommit
<1>2. \A d \in Cache : caches'[d][s].end = caches[d][s].end
  <2> SUFFICES ASSUME NEW d \in Cache PROVE caches'[d][s].end = caches[d][s].end
    OBVIOUS
  <2> HIDE DEF C, of
  <2>1. caches \in [Cache -> [Slot -> CacheType]]
    BY DEF BankInv, CachesInv
  <2>2. Queued(caches, d, of)[d][s] \in {caches[d][s], [caches[d][s] EXCEPT !.writing = TRUE]}
    BY <2>1 DEF Queued
  <2>3. caches'[d][s] \in {caches[d][s], [caches[d][s] EXCEPT !.writing = TRUE]}
    BY <1>1, <2>2
  <2>4. [caches[d][s] EXCEPT !.writing = TRUE].end = caches[d][s].end
    BY <2>1, CacheQueued
  <2> QED BY <2>3, <2>4
<1> QED BY <1>1, <1>2 DEF Rests

\* Publishing a chunk moves one cache by exactly that chunk.
LEMMA PublishAdvances ==
    ASSUME BankInv, NEW l \in Lane, NEW c \in Publishable(l), PublishEncoder(l, c), NEW s \in Slot
    PROVE  Advances(s)
<1> DEFINE b == batches[l]
           a == Tokens(b.of)
           x == caches[c][s]
           n == b.of[s].position + a[s]
<1>1. /\ caches' = Written(caches, {c}, b.of, a)
      /\ requests' = [t \in Slot |-> IF t \in DOMAIN b.of THEN Mark(requests[t], b, b.of[t], c)
                                     ELSE requests[t]]
      /\ histories' = histories
  BY DEF PublishEncoder, Mark
<1>2. Batch(l) /\ Valid(b) /\ c \in Cache /\ Offers(l, c)
  BY PublishableFacts
<1>3. \A d \in Cache : caches'[d][s] = IF d = c /\ s \in DOMAIN b.of THEN Rowed(caches[d][s], n)
                                       ELSE caches[d][s]
  BY <1>1 DEF Written, Rowed
<1>4. CASE s \notin DOMAIN b.of
  <2>1. Rests(s)
    BY <1>1, <1>3, <1>4 DEF Rests
  <2> QED BY <2>1, RestAdvances
<1>5. CASE s \in DOMAIN b.of
  <2>1. requests'[s].end = requests[s].end
    <3>1. requests[s] \in RequestType
      BY <1>2, <1>5, ValidFacts
    <3>2. requests'[s] = Mark(requests[s], b, b.of[s], c)
      BY <1>1, <1>5
    <3> HIDE DEF b
    <3>3. Mark(requests[s], b, b.of[s], c).end = requests[s].end
      BY <3>1 DEF Mark, RequestType
    <3> QED BY <3>2, <3>3
  <2>2. x.end = b.of[s].position /\ b.of[s] \in PartType
    BY <1>2, <1>5, OfferedRows, ValidFacts
  <2>3. a[s] = b.of[s].tokens
    BY <1>5 DEF Tokens
  <2>4. n >= x.end
    BY <2>2, <2>3, PartFields
  <2>5. x \in CacheType
    BY <1>2 DEF BankInv, CachesInv
  <2>6. Rowed(x, n).end = n
    <3> HIDE DEF x, n
    <3> QED BY <2>5 DEF Rowed, CacheType
  <2>7. \A d \in Cache : caches'[d][s].end >= caches[d][s].end
    BY <1>3, <2>4, <2>6, FrontiersTyped
  <2>8. requests[s] # None => requests[s].end >= requests[s].end
    BY FrontiersTyped
  <2>9. histories[s] # None => histories[s].at >= histories[s].at
    BY FrontiersTyped
  <2>10. histories'[s] = histories[s]
    BY <1>1
  <2>11. requests[s] # None => Grows(s)
    BY <2>1, <2>7, <2>8, <2>9, <2>10 DEF Grows
  <2> QED BY <2>1, <2>11 DEF Advances, Whole
<1> QED BY <1>4, <1>5

\* A request of an encoder prefill has all its encoder caches at least where it is.
LEMMA EncoderAhead ==
    ASSUME NEW q, Sound(q), q.phase.stage = "Encoder", NEW c \in Writes("Encoder")
    PROVE  Expected(q, c) >= q.end
<1>1. /\ q \in RequestType /\ q.end \in Nat /\ Len(q.publication) \in Nat
      /\ \A i \in 1..Len(q.publication) : /\ q.publication[i].end \in Nat
                                          /\ q.publication[i].start \in Nat
      /\ q.publication = <<>> <=> Len(q.publication) = 0
  BY RequestFields, EntryFields, BankConstants DEF Sound, Token
<1>2. PhaseEnd(q, c) = q.end
  BY KindFacts DEF PhaseEnd, HistoryEnd, Writes, OfKind
<1>3. ASSUME NEW i \in 1..Len(q.publication) PROVE q.publication[i].end >= q.end
  <2>1. 1 \in 1..Len(q.publication) /\ q.publication # <<>>
    BY <1>1
  <2>2. q.publication[1].start = q.end /\ q.publication[1].start < q.publication[1].end
    BY <2>1 DEF Sound, Chunked
  <2>3. i = 1 \/ q.publication[1].end < q.publication[i].end
    <3>1. CASE i > 1
      BY <2>1, <3>1, EndsGrow
    <3> QED BY <1>1, <3>1
  <2> QED BY <1>1, <2>1, <2>2, <2>3
<1>4. \/ Expected(q, c) = PhaseEnd(q, c)
      \/ \E i \in 1..Len(q.publication) : Expected(q, c) = q.publication[i].end
  BY <1>1, ExpectedCases DEF Reached
<1> QED BY <1>1, <1>2, <1>3, <1>4

\* A commit moves history and caches by exactly the tokens it accepts.
LEMMA CommitAdvances ==
    ASSUME BankInv, NEW l \in Lane, NEW a \in Accepts(l), Commit(l, a), NEW s \in Slot
    PROVE  Advances(s)
<1> DEFINE b == batches[l]
           C == Todo(b)
           r == requests[s]
           q == Finished(r, b.of[s], a[s])
           h == histories[s]
           g == Hashed(h, b, a[s])
           n == b.of[s].position + a[s]
<1>1. /\ caches' = Written(caches, C, b.of, a)
      /\ requests' = [t \in Slot |-> IF t \in DOMAIN b.of THEN Finished(requests[t], b.of[t], a[t])
                                     ELSE requests[t]]
      /\ histories' = [t \in Slot |-> IF t \in DOMAIN b.of THEN Hashed(histories[t], b, a[t])
                                      ELSE histories[t]]
  BY DEF Commit
<1>2. /\ Batch(l) /\ Valid(b) /\ C \in SUBSET Cache /\ \A d \in C : Offers(l, d)
      /\ a \in [DOMAIN b.of -> Token]
  BY AcceptsFacts
<1>3. \A d \in Cache : caches'[d][s] = IF d \in C /\ s \in DOMAIN b.of THEN Rowed(caches[d][s], n)
                                       ELSE caches[d][s]
  BY <1>1 DEF Written, Rowed
<1>4. CASE s \notin DOMAIN b.of
  <2>1. requests'[s] = requests[s] /\ histories'[s] = histories[s]
    BY <1>1, <1>4
  <2>2. \A d \in Cache : caches'[d][s] = caches[d][s]
    BY <1>3, <1>4
  <2>3. Rests(s)
    BY <2>1, <2>2 DEF Rests
  <2> QED BY <2>3, RestAdvances
<1>5. CASE s \in DOMAIN b.of
  <2>1. /\ r # None /\ r \in RequestType /\ b.of[s] \in PartType
        /\ \A d \in Cache : caches[d][s].end = Expected(r, d)
    BY <1>2, <1>5, ValidFacts
  <2>2. Finishes(r, q, h, g, C, b.of[s], a[s])
    <3> HIDE DEF q, g
    <3>1. q = Finished(r, b.of[s], a[s]) /\ g = Hashed(h, b, a[s])
      BY DEF q, g
    <3> QED BY <1>5, <3>1, FinishedRequest
  <2>3. requests'[s] = q /\ histories'[s] = g
    BY <1>1, <1>5
  <2>4. ASSUME NEW d \in Cache
        PROVE  caches'[d][s].end = Expected(q, d) /\ caches'[d][s].end >= caches[d][s].end
    <3>1. CASE d \in C
      <4>1. Expected(r, d) = b.of[s].position
        BY <1>2, <1>5, <3>1, OfferedRows
      <4>2. caches[d][s] \in CacheType
        BY DEF BankInv, CachesInv
      <4>3. Rowed(caches[d][s], n).end = n
        <5> DEFINE x == caches[d][s]
        <5>1. x \in CacheType
          BY <4>2
        <5> HIDE DEF x, n
        <5>2. Rowed(x, n).end = n
          BY <5>1 DEF Rowed, CacheType
        <5> QED BY <5>2 DEF x
      <4>4. caches'[d][s].end = n /\ Expected(q, d) = n
        BY <1>3, <1>5, <2>2, <3>1, <4>3 DEF Finishes
      <4>5. n >= b.of[s].position
        BY <1>2, <1>5, <2>1, PartFields, BankConstants DEF Token
      <4> QED BY <2>1, <4>1, <4>4, <4>5
    <3>2. CASE d \notin C
      <4>1. caches'[d][s] = caches[d][s] /\ Expected(q, d) = Expected(r, d)
        BY <1>3, <2>2, <3>2 DEF Finishes
      <4> QED BY <2>1, <4>1, FrontiersTyped
    <3> QED BY <3>1, <3>2
  <2>5. q.end >= r.end /\ g.at >= h.at /\ Sound(q)
    BY <2>2 DEF Finishes
  <2>6. Grows(s)
    BY <2>3, <2>4, <2>5 DEF Grows
  <2>7. ASSUME r.publication # <<>>
        PROVE  /\ q.end = r.publication[1].end /\ q.publication = Tail(r.publication)
               /\ \A c \in Writes("Encoder") : caches'[c][s].end >= r.publication[1].end
    <3>1. q.end = r.publication[1].end /\ q.publication = Tail(r.publication)
      BY <2>2, <2>7 DEF Finishes
    <3>2. r.phase.stage = "Encoder"
      BY <1>2, <1>5, <2>7, ValidFacts DEF Sound, Chunked
    <3>3. q.phase = r.phase
      <4> DEFINE next == b.of[s].position + a[s]
      <4> HIDE DEF next
      <4>1. Advanced(r, next).phase = r.phase /\ Advanced(r, next) \in
                [version : Nat, end : {next}, phase : PhaseType, publication : Seq(EntryType)]
        BY <2>1, <3>2 DEF Advanced, RequestType
      <4>2. q.phase = Advanced(r, next).phase
        BY <4>1 DEF Finished, next
      <4> QED BY <4>1, <4>2
    <3>4. ASSUME NEW c \in Writes("Encoder") PROVE caches'[c][s].end >= r.publication[1].end
      <4>1. c \in Cache
        BY DEF Writes, OfKind
      <4>2. Expected(q, c) >= q.end
        BY <2>5, <3>2, <3>3, EncoderAhead
      <4> QED BY <2>4, <3>1, <4>1, <4>2
    <3> QED BY <3>1, <3>4
  <2>8. Whole(s)
    BY <2>3, <2>7 DEF Whole
  <2> QED BY <2>6, <2>8 DEF Advances
<1> QED BY <1>4, <1>5

\* A restored slot starts anew, which is no advance of an old request.
LEMMA RestoredAdvances ==
    ASSUME BankInv, BankInv', NEW s \in Slot, NEW end, NEW at, NEW phase, NEW rows,
           Restored(s, end, at, phase, rows), NEW t \in Slot
    PROVE  Advances(t)
<1>1. /\ requests[s] = NewRequest /\ histories[s].at = 0
      /\ \A c \in Cache : caches[c][s].end = 0
      /\ requests' = [requests EXCEPT ![s].end = end, ![s].phase = phase, ![s].version = 1]
      /\ caches' = [c \in Cache |-> [caches[c] EXCEPT ![s] =
            IF Kinds[c] \in DOMAIN rows THEN Begun(generations[s], rows[Kinds[c]], 1) ELSE @]]
      /\ histories' = [histories EXCEPT ![s].at = at]
  BY DEF Restored, Fresh, Begun
<1>2. CASE t # s
  <2>1. requests'[t] = requests[t] /\ histories'[t] = histories[t]
    BY <1>1, <1>2 DEF BankInv, RequestsInv, HistoriesInv
  <2>2. \A c \in Cache : caches'[c][t] = caches[c][t]
    BY <1>1, <1>2
  <2>3. Rests(t)
    BY <2>1, <2>2 DEF Rests
  <2> QED BY <2>3, RestAdvances
<1>3. CASE t = s
  <2>1. requests[s].end = 0 /\ requests[s].publication = <<>>
    BY <1>1 DEF NewRequest
  <2>2. /\ requests'[s] # None => requests'[s].end \in Nat
        /\ histories'[s] # None => histories'[s].at \in Nat
        /\ \A c \in Cache : caches'[c][s].end \in Nat
    BY FrontiersTyped, FrontiersTypedNext
  <2>3. requests'[s] # None => Grows(s)
    BY <1>1, <2>1, <2>2 DEF Grows
  <2> QED BY <1>3, <2>1, <2>3 DEF Advances, Whole
<1> QED BY <1>2, <1>3

\* A call about one slot advances nothing but by whole chunks.
LEMMA SlotAdvances ==
    ASSUME BankInv, BankInv', NEW s \in Slot, SlotNext(s), NEW t \in Slot
    PROVE  Advances(t)
<1>1. CASE Admit(s)
  <2>1. CASE t = s
    BY <1>1, <2>1 DEF Admit, Advances
  <2>2. CASE t # s
    <3>1. requests'[t] = requests[t] /\ histories'[t] = histories[t]
      BY <1>1, <2>2 DEF Admit
    <3>2. \A c \in Cache : caches'[c][t] = caches[c][t]
      BY <1>1, <2>2 DEF Admit, BankInv, CachesInv
    <3>3. Rests(t)
      BY <3>1, <3>2 DEF Rests
    <3> QED BY <3>3, RestAdvances
  <2> QED BY <2>1, <2>2
<1>2. CASE Release(s)
  <2> DEFINE of == [u \in {s} |-> histories[s]]
  <2>1. Dropped(of, caches)
    BY <1>2 DEF Release
  <2> HIDE DEF of
  <2>2. Rests(t)
    BY <2>1, DroppedRests
  <2> QED BY <2>2, RestAdvances
<1>3. CASE BeginDecoderReplay(s)
  <2>1. /\ requests[s] # None /\ histories' = [histories EXCEPT ![s].prepared = None]
        /\ requests' = [requests EXCEPT ![s].phase = Replay(@.target, Back(requests[s].end)),
                                        ![s].version = @ + 1]
        /\ caches' = [c \in Cache |->
              IF Kinds[c] = "decoder"
              THEN [caches[c] EXCEPT ![s] = Begun(generations[s], Back(requests[s].end), 1)]
              ELSE caches[c]]
        /\ \A c \in OfKind({"decoder"}) : caches[c][s] = Begun(generations[s], 0, 0)
    BY <1>3, CommittedFacts DEF BeginDecoderReplay, MayReplay
  <2>2. requests'[t] # None => requests[t] # None /\ requests'[t].end = requests[t].end
    <3>1. requests[s] \in [version : Nat, end : Token, phase : PhaseType, publication : Seq(EntryType)]
      BY <2>1 DEF BankInv, RequestsInv, RequestType
    <3> QED BY <2>1, <3>1 DEF BankInv, RequestsInv
  <2>3. histories[t] # None /\ histories'[t] # None => histories'[t].at = histories[t].at
    <3>1. histories[t] # None => histories[t] \in [lease : Lease, at : Token, prepared : Token \cup {None}]
      BY DEF BankInv, HistoriesInv, HistoryType
    <3>2. histories'[t] \in {histories[t], [histories[t] EXCEPT !.prepared = None]}
      BY <2>1 DEF BankInv, HistoriesInv
    <3> QED BY <3>1, <3>2
  <2>4. ASSUME NEW c \in Cache PROVE caches'[c][t].end >= caches[c][t].end
    <3>1. caches'[c][t].end \in Nat /\ caches[c][t].end \in Nat
      BY FrontiersTyped, FrontiersTypedNext
    <3>2. CASE Kinds[c] = "decoder" /\ t = s
      <4>1. caches[c][t].end = 0
        BY <2>1, <3>2 DEF OfKind, Begun
      <4> QED BY <3>1, <4>1
    <3>3. CASE ~(Kinds[c] = "decoder" /\ t = s)
      <4>1. caches'[c][t] = caches[c][t]
        BY <2>1, <3>3 DEF BankInv, CachesInv
      <4> QED BY <3>1, <4>1
    <3> QED BY <3>2, <3>3
  <2>5. requests'[t] # None => Grows(t)
    BY <2>2, <2>3, <2>4, FrontiersTyped DEF Grows
  <2> QED BY <2>2, <2>5 DEF Advances, Whole
<1>4. CASE DecoderReplayFails(s)
  <2>1. /\ requests' = Without(requests, {s}) /\ caches' = Cleared(caches, {s})
        /\ histories' = histories
    BY <1>4 DEF DecoderReplayFails
  <2>2. /\ requests'[t] \in {requests[t], None}
        /\ \A c \in Cache : caches'[c][t] \in {caches[c][t], Bare}
    BY <2>1 DEF Without, Cleared
  <2>3. Rests(t)
    BY <2>1, <2>2, BareFields DEF Rests
  <2> QED BY <2>3, RestAdvances
<1>5. CASE \E target \in 1..Rows[s] : BeginEncoder(s, target)
  <2>1. PICK target \in 1..Rows[s] : BeginEncoder(s, target)
    BY <1>5
  <2>2. /\ requests[s] # None /\ UNCHANGED <<histories, caches>>
        /\ requests' = [requests EXCEPT ![s].phase = Encoder(target), ![s].version = 1]
    BY <2>1 DEF BeginEncoder
  <2>3. requests[s] \in [version : Nat, end : Token, phase : PhaseType, publication : Seq(EntryType)]
    BY <2>2 DEF BankInv, RequestsInv, RequestType
  <2>4. requests'[t] # None => requests[t] # None /\ requests'[t].end = requests[t].end
    BY <2>2, <2>3 DEF BankInv, RequestsInv
  <2>5. Rests(t)
    BY <2>2, <2>4 DEF Rests
  <2> QED BY <2>5, RestAdvances
<1>6. CASE \E end \in 1..Rows[s] :
        \/ RestorePrefix(s, end)
        \/ \E target \in end..Rows[s] :
              RestoreEncoderContinuation(s, end, target) \/ RestoreEncoderPrefix(s, end, target)
  BY <1>6, RestoredAdvances DEF RestorePrefix, RestoreEncoderContinuation, RestoreEncoderPrefix
<1> QED BY <1>1, <1>2, <1>3, <1>4, <1>5, <1>6 DEF SlotNext

\* A lane's step advances nothing but by whole chunks.
LEMMA LaneAdvances ==
    ASSUME BankInv, NEW l \in Lane, LaneNext(l), NEW s \in Slot
    PROVE  Advances(s)
<1>1. CASE \E w \in Work : Prepare(l, w)
  <2>1. UNCHANGED <<requests, histories, caches>>
    BY <1>1 DEF Prepare
  <2> QED BY <2>1, StillAdvances
<1>2. CASE \E w \in Work : ReserveEncoder(l, w)
  <2>1. PICK w \in Work : ReserveEncoder(l, w)
    BY <1>2
  <2> DEFINE p(t) == Part(t, PreparedEnd(requests[t]), w[t])
             S == DOMAIN w
             e(t) == Entry(FreshId, p(t), TRUE)
             n(t) == p(t).position + p(t).tokens
  <2>2. /\ caches' = caches
        /\ \A t \in S : requests[t] # None /\ histories[t] # None
        /\ requests' = [t \in Slot |-> IF t \in S THEN Lengthened(requests[t], e(t))
                                       ELSE requests[t]]
        /\ histories' = [t \in Slot |-> IF t \in S THEN Ahead(histories[t], n(t)) ELSE histories[t]]
    BY <2>1, CommittedFacts DEF ReserveEncoder, Lengthened, Ahead
  <2> HIDE DEF e, n, S
  <2>3. requests'[s] # None => requests[s] # None /\ requests'[s].end = requests[s].end
    <3>1. requests[s] # None => Lengthened(requests[s], e(s)).end = requests[s].end
      BY DEF Lengthened, BankInv, RequestsInv, RequestType
    <3> QED BY <2>2, <3>1
  <2>4. histories'[s] # None => histories[s] # None /\ histories'[s].at = histories[s].at
    <3>1. histories[s] # None => Ahead(histories[s], n(s)).at = histories[s].at
      BY DEF Ahead, BankInv, HistoriesInv, HistoryType
    <3> QED BY <2>2, <3>1
  <2>5. Rests(s)
    BY <2>2, <2>3, <2>4 DEF Rests
  <2> QED BY <2>5, RestAdvances
<1>3. CASE \E c \in NextToProduce(l) : Produce(l, c)
  <2>1. UNCHANGED <<requests, histories, caches>>
    BY <1>3 DEF Produce
  <2> QED BY <2>1, StillAdvances
<1>4. CASE \E c \in Publishable(l) : EnqueueEncoder(l, c)
  BY <1>4, QueuesRests, RestAdvances
<1>5. CASE \E c \in Publishable(l) : PublishEncoder(l, c)
  BY <1>5, PublishAdvances
<1>6. CASE \E c \in Publishable(l) : PublishFails(l, c)
  <2>1. PICK c : PublishFails(l, c)
    BY <1>6
  <2> DEFINE C == {c} \cup {d \in Cache : Pending(l, d)}
  <2>2. Leave(l, C)
    BY <2>1 DEF PublishFails
  <2> HIDE DEF C
  <2> QED BY <2>2, LeaveRests, RestAdvances
<1>7. CASE \E a \in Accepts(l) : EnqueueCommit(l, a)
  BY <1>7, QueuesAllRests, RestAdvances
<1>8. CASE \E a \in Accepts(l) : Commit(l, a)
  BY <1>8, CommitAdvances
<1>9. CASE GiveUp(l)
  <2> DEFINE C == {d \in Cache : Pending(l, d)}
  <2>1. Leave(l, C)
    BY <1>9 DEF GiveUp
  <2> HIDE DEF C
  <2> QED BY <2>1, LeaveRests, RestAdvances
<1>10. CASE EndPrefix(l) \/ \E t \in Slot : QueuePrefix(l, t)
  <2>1. UNCHANGED <<requests, histories, caches>>
    BY <1>10 DEF EndPrefix, QueuePrefix
  <2> QED BY <2>1, StillAdvances
<1> QED BY <1>1, <1>2, <1>3, <1>4, <1>5, <1>6, <1>7, <1>8, <1>9, <1>10 DEF LaneNext

\* As long as a request lives nothing of it goes back, and when one with chunks
\* outstanding advances, it is by the oldest of them and by all of its rows, which
\* every encoder cache has (publication.rs, v41_backbone_cache.rs).
THEOREM BankAdvances == BankSpec => AdvancesByWholeChunks
<1>1. BankInv /\ BankInv' /\ [BankNext]_bank_vars => \A s \in Slot : Advances(s)
  <2> SUFFICES ASSUME BankInv, BankInv', [BankNext]_bank_vars, NEW s \in Slot PROVE Advances(s)
    OBVIOUS
  <2>1. CASE UNCHANGED bank_vars
    BY <2>1, StillAdvances DEF bank_vars
  <2>2. CASE BankNext
    BY <2>2, LaneAdvances, SlotAdvances DEF BankNext
  <2> QED BY <2>1, <2>2
<1> DEFINE A == \A s \in Slot :
        requests[s] # None /\ requests'[s] # None /\ generations'[s] = generations[s] =>
            /\ requests'[s].end >= requests[s].end
            /\ histories[s] # None /\ histories'[s] # None => histories'[s].at >= histories[s].at
            /\ \A c \in Cache : caches'[c][s].lease # 0 => caches'[c][s].end >= caches[c][s].end
            /\ requests'[s].end # requests[s].end /\ requests[s].publication # <<>> =>
                LET head == requests[s].publication[1]
                IN  /\ requests'[s].end = head.end
                    /\ requests'[s].publication = Tail(requests[s].publication)
                    /\ \A c \in Writes("Encoder") : caches'[c][s].end >= head.end
<1>2. BankInv /\ BankInv' /\ [BankNext]_bank_vars => A
  BY <1>1 DEF Advances, Grows, Whole
<1>3. BankSpec => [][A]_<<generations, requests, histories, caches>>
  BY <1>2, BankInvariant, PTL DEF BankSpec
<1> QED BY <1>3 DEF AdvancesByWholeChunks

=============================================================================
