------------------------------- MODULE Radix --------------------------------
(* The prefix banks of the core crate (ds41rt-core/src/prefix.rs): two trees *)
(* whose edges are token sequences and whose entries carry the clock of      *)
(* their last access.                                                        *)
(*                                                                           *)
(* A node is named by the path of child keys that leads to it, the first     *)
(* token of each edge, as in the code's nested maps: splitting or merging    *)
(* an edge renames every node below it. The value of an entry is its key.    *)

EXTENDS Naturals, Sequences, FiniteSets

LOCAL INSTANCE FiniteSetsExt
LOCAL INSTANCE SequencesExt

CONSTANTS
    BankKeys,   \* BankKeys[k]: token sequences inserted into bank k
    Query,      \* token sequences looked up
    LIMIT,      \* entries of a bank
    REPLAY      \* the replay window, 128 in the code

Kind == {"prompt", "turn"}

ASSUME RadixAssumption ==
    /\ BankKeys \in [Kind -> SUBSET Seq(Nat)] /\ Query \subseteq Seq(Nat)
    /\ <<>> \notin BankKeys["prompt"] \union BankKeys["turn"]
    /\ LIMIT \in Nat \ {0} /\ REPLAY \in Nat

VARIABLES
    tree,       \* tree[k]: node -> [edge, used], used = 0 without a value
    clock,      \* clock[k]
    entries,    \* entries[k]
    call,       \* the last call and its arguments
    answer      \* what it returned

vars == <<tree, clock, entries, call, answer>>

----------------------------------------------------------------------------
(* Nodes.                                                                   *)

Root == <<>>
NoValue == 0
Node(edge, used) == [edge |-> edge, used |-> used]

\* The tokens from the root to a node.
KeyOf(t, p) == FlattenSeq([i \in 1..Len(p) |-> t[SubSeq(p, 1, i)].edge])

Valued(t) == {p \in DOMAIN t : t[p].used # NoValue}
Below(t, p) == {q \in DOMAIN t : IsPrefix(p, q)}
Suffix(s, n) == SubSeq(s, n + 1, Len(s))

\* Length of the common part of two token sequences.
Common(a, b) ==
    Max({n \in 0..Min({Len(a), Len(b)}) : SubSeq(a, 1, n) = SubSeq(b, 1, n)})

\* Where a walk along the tokens ends: the last node whose edges all match.
Reached(t, tokens) ==
    CHOOSE p \in DOMAIN t :
        /\ IsPrefix(KeyOf(t, p), tokens)
        /\ \A q \in DOMAIN t : IsPrefix(KeyOf(t, q), tokens) => Len(q) <= Len(p)

\* Mutant: the lower part of a split edge takes no children with it.
SplitBare(t, c, n) ==
    LET lower == Append(c, t[c].edge[n + 1]) IN
    [q \in (DOMAIN t \ Below(t, c)) \union {c, lower} |->
        IF q = c THEN Node(SubSeq(t[c].edge, 1, n), NoValue)
        ELSE IF q = lower THEN Node(Suffix(t[c].edge, n), t[c].used)
        ELSE t[q]]

\* Node c is cut after n tokens of its edge: the upper part has no value, the
\* lower part keeps the value and the children.
Split(t, c, n) ==
    LET lower == Append(c, t[c].edge[n + 1])
        moved(q) == lower \o Suffix(q, Len(c))
        old(q) == c \o Suffix(q, Len(lower))
    IN
    [q \in (DOMAIN t \ Below(t, c)) \union {c} \union {moved(r) : r \in Below(t, c)} |->
        IF q = c THEN Node(SubSeq(t[c].edge, 1, n), NoValue)
        ELSE IF q = lower THEN Node(Suffix(t[c].edge, n), t[c].used)
        ELSE IF IsPrefix(lower, q) THEN t[old(q)]
        ELSE t[q]]

With(t, p, node) == [q \in DOMAIN t \union {p} |-> IF q = p THEN node ELSE t[q]]

\* Node::insert
Inserted(t, tokens, now) ==
    LET p == Reached(t, tokens)
        rest == Suffix(tokens, Len(KeyOf(t, p)))
        c == Append(p, rest[1])
        n == Common(t[c].edge, rest)
        split == Split(t, c, n)
    IN
    IF rest = <<>> THEN [t EXCEPT ![p].used = now]
    ELSE IF c \notin DOMAIN t THEN With(t, c, Node(rest, now))
    ELSE IF n = Len(rest) THEN [split EXCEPT ![c].used = now]
    ELSE With(split, Append(c, rest[n + 1]), Node(Suffix(rest, n), now))

----------------------------------------------------------------------------
(* Removal.                                                                 *)

\* Children with an entry in or below them.
Branches(t, p) ==
    {c \in DOMAIN t : /\ Len(c) = Len(p) + 1 /\ IsPrefix(p, c)
                      /\ Below(t, c) \intersect Valued(t) # {}}

\* Mutant: empty nodes go, but an only child is not merged.
KeptUnmerged(t) ==
    {p \in DOMAIN t : p = Root \/ p \in Valued(t) \/ Branches(t, p) # {}}

\* Nodes that neither lose their last entry nor are merged with an only child.
Kept(t) ==
    {p \in DOMAIN t : p = Root \/ p \in Valued(t) \/ Cardinality(Branches(t, p)) > 1}

\* A kept node hangs from the kept node above it, by the key of the topmost
\* node merged into it, at the end of their joined edges.
Collapsed(t) ==
    LET kept == Kept(t)
        above(p) == {q \in kept : IsStrictPrefix(q, p)}
        parent(p) == CHOOSE q \in above(p) : \A r \in above(p) : Len(r) <= Len(q)
        chain(p) == SetToSortSeq(above(p), LAMBDA a, b : Len(a) < Len(b))
        name(p) == [i \in 1..Len(chain(p)) |-> p[Len(chain(p)[i]) + 1]]
        joined(p) == IF p = Root THEN <<>>
                     ELSE Suffix(KeyOf(t, p), Len(KeyOf(t, parent(p))))
    IN
    [n \in {name(p) : p \in kept} |->
        LET p == CHOOSE q \in kept : name(q) = n IN Node(joined(p), t[p].used)]

\* Node::evict of the entry with a clock.
Evicted(t, used) ==
    Collapsed([p \in DOMAIN t |-> IF t[p].used = used THEN [t[p] EXCEPT !.used = NoValue]
                                  ELSE t[p]])

----------------------------------------------------------------------------
(* Lookups.                                                                 *)

\* Reusable::skipped
Skipped(found) ==
    IF found.common = found.frontier THEN found.common
    ELSE LET even == (found.common \div 2) * 2 IN IF even > REPLAY THEN even - REPLAY ELSE 0

Found(common, frontier, used) == [common |-> common, frontier |-> frontier, used |-> used]

\* The order in which nested maps are walked: a node before its children, the
\* children by their keys.
Before(p, q) ==
    \/ IsStrictPrefix(p, q)
    \/ \E i \in 1..Min({Len(p), Len(q)}) :
           p[i] < q[i] /\ SubSeq(p, 1, i - 1) = SubSeq(q, 1, i - 1)

\* Node::any_frontier, as reached by `common` tokens.
AnyFrontier(t, p, common) ==
    {Found(common, Len(KeyOf(t, q)), t[q].used) :
        q \in {r \in Below(t, p) \intersect Valued(t) :
                  \A s \in Below(t, p) \intersect Valued(t) : s # r => Before(r, s)}}

\* A child's candidate replaces the node's own value only if it saves more.
Better(own, candidate) ==
    IF \E a \in own, b \in candidate : Skipped(a) >= Skipped(b) THEN own
    ELSE IF candidate # {} THEN candidate ELSE own

\* Node::find_reusable: the set of the one it finds.
FindReusable(t, tokens) ==
    LET find[p \in DOMAIN t] ==
        LET at == Len(KeyOf(t, p))
            c == Append(p, tokens[at + 1])
            n == Common(t[c].edge, Suffix(tokens, at))
            own == IF p \in Valued(t) THEN {Found(at, at, t[p].used)} ELSE {}
            candidate ==
                IF at = Len(tokens) \/ (at < Len(tokens) /\ c \notin DOMAIN t) THEN {}
                ELSE IF n = Len(t[c].edge) THEN find[c]
                ELSE AnyFrontier(t, c, at + n)
            best == Better(own, candidate)
        IN  {f \in IF best = {} /\ at > 0 THEN AnyFrontier(t, p, at) ELSE best :
                Skipped(f) > 0}
    IN  find[Root]

\* Node::lookup: the deepest entry on the walk.
FindExact(t, tokens) ==
    {p \in Valued(t) :
        /\ IsPrefix(KeyOf(t, p), tokens)
        /\ \A q \in Valued(t) : IsPrefix(KeyOf(t, q), tokens) => Len(q) <= Len(p)}

At(t, used) == CHOOSE p \in DOMAIN t : t[p].used = used

----------------------------------------------------------------------------
(* The operations of a bank, and of both.                                   *)

Nothing == [kind |-> "none"]
Returned(k, key, common) == [kind |-> k, key |-> key, common |-> common]

Init ==
    /\ tree = [k \in Kind |-> [p \in {Root} |-> Node(<<>>, NoValue)]]
    /\ clock = [k \in Kind |-> 0]
    /\ entries = [k \in Kind |-> 0]
    /\ call = <<>>
    /\ answer = Nothing

Oldest(t, P) == CHOOSE p \in P : \A q \in P : t[p].used <= t[q].used

\* Radix::insert: over its limit the bank loses its least recently used entry.
Insert(k, key) ==
    LET now == clock[k] + 1
        t == Inserted(tree[k], key, now)
        count == entries[k] + (IF Cardinality(Valued(t)) > Cardinality(Valued(tree[k]))
                               THEN 1 ELSE 0)
        oldest == Oldest(t, Valued(t))
    IN
    /\ call' = <<"insert", k, key>>
    /\ clock' = [clock EXCEPT ![k] = now]
    /\ IF count > LIMIT
       THEN /\ tree' = [tree EXCEPT ![k] = Evicted(t, t[oldest].used)]
            /\ entries' = [entries EXCEPT ![k] = count - 1]
            /\ answer' = Returned(k, KeyOf(t, oldest), 0)
       ELSE /\ tree' = [tree EXCEPT ![k] = t]
            /\ entries' = [entries EXCEPT ![k] = count]
            /\ answer' = Nothing

\* Radix::lookup counts an access whether or not it finds an entry.
Lookup(k, tokens) ==
    LET t == tree[k]
        hit == FindExact(t, tokens)
    IN
    /\ call' = <<"lookup", k, tokens>>
    /\ clock' = [clock EXCEPT ![k] = @ + 1]
    /\ tree' = [tree EXCEPT ![k] =
            [p \in DOMAIN t |-> IF p \in hit THEN [t[p] EXCEPT !.used = clock[k] + 1] ELSE t[p]]]
    /\ answer' = IF hit = {} THEN Nothing
                 ELSE LET key == KeyOf(t, CHOOSE p \in hit : TRUE)
                      IN  Returned(k, key, Len(key))
    /\ UNCHANGED entries

\* A completed turn is preferred on a tie.
Chosen(prompt, turn) ==
    IF \E p \in prompt : \A t \in turn : Skipped(p) > Skipped(t) THEN "prompt" ELSE "turn"

\* Retention::lookup_reusable: only the chosen bank's entry is refreshed.
LookupReusable(tokens) ==
    LET found == [k \in Kind |-> FindReusable(tree[k], tokens)]
        k == Chosen(found["prompt"], found["turn"])
    IN
    /\ call' = <<"reuse", tokens>>
    /\ IF found[k] = {}
       THEN answer' = Nothing /\ UNCHANGED <<tree, clock>>
       ELSE \E f \in found[k] :
            LET p == At(tree[k], f.used) IN
            /\ clock' = [clock EXCEPT ![k] = @ + 1]
            /\ tree' = [tree EXCEPT ![k][p].used = clock[k] + 1]
            /\ answer' = Returned(k, KeyOf(tree[k], p), f.common)
    /\ UNCHANGED entries

Take(k, p) ==
    /\ tree' = [tree EXCEPT ![k] = Evicted(@, @[p].used)]
    /\ entries' = [entries EXCEPT ![k] = @ - 1]
    /\ answer' = Returned(k, KeyOf(tree[k], p), 0)
    /\ UNCHANGED clock

\* evict_one_where: the oldest entry that is not kept, prompts before turns.
EvictOne(kept) ==
    LET free(k) == {p \in Valued(tree[k]) : <<k, KeyOf(tree[k], p)>> \notin kept}
        k == IF free("prompt") # {} THEN "prompt" ELSE "turn"
    IN
    /\ call' = <<"evict", kept>>
    /\ IF free(k) = {} THEN answer' = Nothing /\ UNCHANGED <<tree, clock, entries>>
       ELSE Take(k, Oldest(tree[k], free(k)))

RemoveExact(k, key) ==
    LET exact == {p \in Valued(tree[k]) : KeyOf(tree[k], p) = key} IN
    /\ call' = <<"remove", k, key>>
    /\ IF exact = {} THEN answer' = Nothing /\ UNCHANGED <<tree, clock, entries>>
       ELSE Take(k, CHOOSE p \in exact : TRUE)

Held == UNION {{<<k, KeyOf(tree[k], p)>> : p \in Valued(tree[k])} : k \in Kind}

Next ==
    \/ \E k \in Kind : \E key \in BankKeys[k] : Insert(k, key) \/ RemoveExact(k, key)
    \/ \E k \in Kind, tokens \in Query : Lookup(k, tokens)
    \/ \E tokens \in Query : LookupReusable(tokens)
    \/ \E kept \in SUBSET Held : EvictOne(kept)

Spec == Init /\ [][Next]_vars

----------------------------------------------------------------------------
(* Properties.                                                              *)

Tree(t) ==
    /\ Root \in DOMAIN t /\ t[Root].edge = <<>> /\ t[Root].used = NoValue
    /\ \A p \in DOMAIN t \ {Root} :
        /\ Front(p) \in DOMAIN t
        /\ t[p].edge # <<>> /\ t[p].edge[1] = Last(p)
        /\ t[p].used # NoValue
           \/ Cardinality({c \in DOMAIN t : Len(c) = Len(p) + 1 /\ IsPrefix(p, c)}) > 1

\* Each bank is a compact tree after any sequence of splits and merges: every
\* edge starts with the key it hangs from, and every node but the root has a
\* value or at least two children (prefix.rs: "eviction has fully collapsed the
\* tree"). Clocks are distinct and the count of entries is exact.
TreesCompact ==
    \A k \in Kind :
        /\ Tree(tree[k])
        /\ entries[k] = Cardinality(Valued(tree[k])) /\ entries[k] <= LIMIT
        /\ \A p \in Valued(tree[k]) : tree[k][p].used <= clock[k]
        /\ \A p, q \in Valued(tree[k]) : tree[k][p].used = tree[k][q].used => p = q

\* The trees implement two lists ordered by access: no split, merge or eviction
\* loses a key or its place, and a lookup returns the entry that saves most,
\* with the turns' one on a tie.
InOrder(t) ==
    [i \in 1..Cardinality(Valued(t)) |->
        KeyOf(t, CHOOSE p \in Valued(t) :
            Cardinality({q \in Valued(t) : t[q].used <= t[p].used}) = i)]

Banks == INSTANCE PrefixBanks
             WITH Key <- BankKeys["prompt"] \union BankKeys["turn"],
                  bank <- [k \in Kind |-> InOrder(tree[k])]
ImplementsBanks == Banks!Spec
=============================================================================
