----------------------------- MODULE SourceCache -----------------------------
(***************************************************************************)
(* The paged source cache of one compressor layer                          *)
(* (ds41rt-daemon/src/v41_compressor/source_cache.rs and its ownership and *)
(* reservation submodules, as v41_compressor/commit.rs and prefix.rs drive *)
(* it).  A request slot owns a table of physical pages; retained prefixes  *)
(* share those pages by reference count.  A lane appends in a transaction: *)
(* it reserves slots and free pages, its stream copies the shared partial  *)
(* tails and then writes the accepted rows, and the host publishes the plan*)
(* or aborts it.  `hist` remembers what each request and prefix was        *)
(* promised to contain.                                                    *)
(***************************************************************************)
EXTENDS Integers, SequencesExt

CONSTANTS
    Page,       \* physical pages of the pool
    Slot,       \* request slots
    Lane,       \* lanes: each owns at most one append transaction
    Handle,     \* names for the retained prefixes alive at once (bound)
    Value,      \* row contents
    PAGE_ROWS,
    MaxRows     \* longest table (bound)

ASSUME PageShape ==
    /\ IsFiniteSet(Page) /\ IsFiniteSet(Slot) /\ IsFiniteSet(Handle)
    /\ PAGE_ROWS \in Nat \ {0}
    /\ MaxRows \in Nat

PagesFor(n) == (n + PAGE_ROWS - 1) \div PAGE_ROWS

Rows == 0..MaxRows

NoPlan == [stage |-> "none"]
NoPrefix == [live |-> FALSE]

VARIABLES
    free,        \* the pool's free list; pages are claimed from its end
    references,  \* owners of each page: request tables and prefixes
    pages,       \* pages[s]: the page table of slot s
    rows,        \* rows[s]: committed rows of slot s
    writing,     \* slots claimed by an append in flight
    plans,       \* plans[l]: the transaction of lane l
    prefixes,    \* prefixes[h]: a live SourcePrefix
    cells,        \* cells[p][i]: row i of page p in device memory
    hist         \* hist[s]: the rows committed to slot s, in order

vars == <<free, references, pages, rows, writing, plans, prefixes, cells, hist>>

-----------------------------------------------------------------------------
(* The page pool. *)

\* A set of positions as a sequence, in order.
InOrder(positions) ==
    [n \in 1..Cardinality(positions) |->
        CHOOSE i \in positions : Cardinality({j \in positions : j <= i}) = n]

Mentions(list, p) == Cardinality({i \in DOMAIN list : list[i] = p})

AddTo(refs, list) == [p \in Page |-> refs[p] + Mentions(list, p)]

ReleasedTwice(refs, list) == [p \in Page |-> refs[p] - 2 * Mentions(list, p)]

\* References left after `release(list)`.
Released(refs, list) == [p \in Page |-> refs[p] - Mentions(list, p)]

FreedAlways(refs, list) == list

\* The pages `release(list)` pushes back: those whose last owner it was, each
\* at its last mention.
Freed(refs, list) ==
    LET last == {i \in DOMAIN list : \A j \in i + 1..Len(list) : list[j] # list[i]}
        order == InOrder({i \in last : Released(refs, list)[list[i]] = 0})
    IN  [n \in DOMAIN order |-> list[order[n]]]

\* `release` and its effect on both halves of the pool.
Release(list, refs) ==
    /\ references' = Released(refs, list)
    /\ free' = free \o Freed(refs, list)

InFlight == {l \in Lane : plans[l].stage # "none"}

-----------------------------------------------------------------------------
(* Appends: a sequence of [slot, new, value] records. *)

\* The page the first appended row of a falls into, when it is partly filled.
PartialTail(a) == pages[a.slot][rows[a.slot] \div PAGE_ROWS + 1]

EntersPartialTail(a) == a.new > rows[a.slot] /\ rows[a.slot] % PAGE_ROWS # 0

WritersOrIdle(appends, source) ==
    {i \in DOMAIN appends :
        /\ rows[appends[i].slot] % PAGE_ROWS # 0
        /\ PartialTail(appends[i]) = source}

\* The appends that write into the partly filled page `source`.
Writers(appends, source) ==
    {i \in DOMAIN appends :
        EntersPartialTail(appends[i]) /\ PartialTail(appends[i]) = source}

CopiesUnlessLast(appends, i) ==
    LET source == PartialTail(appends[i]) IN
    /\ EntersPartialTail(appends[i])
    /\ references[source] > 1
    /\ i # Max(Writers(appends, source))

\* Append i must copy its tail first: the page has another owner, unless all
\* of its owners append here and i is the last of them.
CopiesTail(appends, i) ==
    LET source == PartialTail(appends[i]) IN
    /\ EntersPartialTail(appends[i])
    /\ references[source] > 1
    /\ \/ Cardinality(Writers(appends, source)) # references[source]
       \/ i # Max(Writers(appends, source))

ExtraForNewRows(a) == PagesFor(a.new - rows[a.slot])

\* Pages append a adds to its table.
Extra(a) == PagesFor(a.new) - Len(pages[a.slot])

Copies(appends, i) == IF CopiesTail(appends, i) THEN 1 ELSE 0

Needed(appends, i) == Copies(appends, i) + Extra(appends[i])

\* used[n]: plan.used once n appends are planned.
Used(appends) ==
    LET used[n \in 0..Len(appends)] ==
            IF n = 0 THEN 0 ELSE used[n - 1] + Needed(appends, n)
    IN  used

UsedBefore(appends, i) == Used(appends)[i - 1]

Total(appends) == UsedBefore(appends, Len(appends) + 1)

\* The k-th page claimed, counting from zero off the end of the free list.
Claim(k) == free[Len(free) - k]

Replacements(appends) ==
    {[slot |-> appends[i].slot,
      logical |-> rows[appends[i].slot] \div PAGE_ROWS + 1,
      source |-> PartialTail(appends[i]),
      destination |-> Claim(UsedBefore(appends, i))] :
        i \in {j \in DOMAIN appends : CopiesTail(appends, j)}}

Additions(appends, i) ==
    [k \in 1..Extra(appends[i]) |->
        Claim(UsedBefore(appends, i) + Copies(appends, i) + k - 1)]

SlotsOf(appends) == {appends[i].slot : i \in DOMAIN appends}

\* What callers may ask for: appends to distinct slots, in any order, none of
\* them below the committed rows.
WorkOf(s) == [slot : {s}, new : rows[s]..MaxRows, value : Value]

Appends ==
    UNION {{a \in [1..n -> UNION {WorkOf(s) : s \in Slot \ writing}] :
               \A i, j \in 1..n : a[i].slot = a[j].slot => i = j} :
           n \in 1..Cardinality(Slot)}

-----------------------------------------------------------------------------
Init ==
    /\ free \in SetToSeqs(Page)
    /\ references = [p \in Page |-> 0]
    /\ pages = [s \in Slot |-> <<>>]
    /\ rows = [s \in Slot |-> 0]
    /\ writing = {}
    /\ plans = [l \in Lane |-> NoPlan]
    /\ prefixes = [h \in Handle |-> NoPrefix]
    /\ cells \in {[p \in Page |-> [i \in 0..PAGE_ROWS - 1 |-> v]] : v \in Value}
    /\ hist = [s \in Slot |-> <<>>]

\* reserve: claims slots and pages; nothing changes when a slot is busy or the
\* pool cannot serve every append.
Reserve(l, appends) ==
    /\ plans[l].stage = "none"
    /\ \A i \in DOMAIN appends : /\ appends[i].slot \notin writing
                                /\ appends[i].new >= rows[appends[i].slot]
    /\ Total(appends) <= Len(free)
    /\ LET kept == Len(free) - Total(appends) IN
       /\ plans' = [plans EXCEPT ![l] =
            [stage |-> "reserved",
             appends |-> appends,
             replacements |-> Replacements(appends),
             additions |-> [s \in SlotsOf(appends) |->
                Additions(appends, CHOOSE i \in DOMAIN appends :
                                       appends[i].slot = s)],
             claimed |-> SubSeq(free, kept + 1, Len(free))]]
       /\ free' = SubSeq(free, 1, kept)
    /\ writing' = writing \cup SlotsOf(appends)
    /\ UNCHANGED <<references, pages, rows, prefixes, cells, hist>>

\* destination: the page that row r of slot s is written to under a plan.
Destination(plan, s, r) ==
    LET logical == r \div PAGE_ROWS + 1
        moved == {m \in plan.replacements : m.slot = s /\ m.logical = logical}
    IN  IF moved # {} THEN (CHOOSE m \in moved : TRUE).destination
        ELSE IF logical <= Len(pages[s]) THEN pages[s][logical]
        ELSE plan.additions[s][logical - Len(pages[s])]

\* The stream reaches copy_shared_tails.
CopySharedTails(l) ==
    /\ plans[l].stage = "reserved"
    /\ cells' = [p \in Page |->
          LET onto == {m \in plans[l].replacements : m.destination = p}
          IN  IF onto = {} THEN cells[p]
              ELSE cells[(CHOOSE m \in onto : TRUE).source]]
    /\ plans' = [plans EXCEPT ![l].stage = "copied"]
    /\ UNCHANGED <<free, references, pages, rows, writing, prefixes, hist>>

\* The stream stores the accepted rows at their destinations.
WriteRows(l) ==
    LET plan == plans[l]
        lands(p, i) ==
            {a \in {plan.appends[n] : n \in DOMAIN plan.appends} :
                \E r \in rows[a.slot]..a.new - 1 :
                    Destination(plan, a.slot, r) = p /\ r % PAGE_ROWS = i}
    IN
    /\ plan.stage = "copied"
    /\ cells' = [p \in Page |-> [i \in 0..PAGE_ROWS - 1 |->
            IF lands(p, i) = {} THEN cells[p][i]
            ELSE (CHOOSE a \in lands(p, i) : TRUE).value]]
    /\ plans' = [plans EXCEPT ![l].stage = "written"]
    /\ UNCHANGED <<free, references, pages, rows, writing, prefixes, hist>>

\* The sources a plan gives up, in the order of its appends.
GivenUp(plan) ==
    LET copied == {i \in DOMAIN plan.appends :
                      \E m \in plan.replacements : m.slot = plan.appends[i].slot}
        order == InOrder(copied)
    IN  [n \in DOMAIN order |->
            (CHOOSE m \in plan.replacements :
                m.slot = plan.appends[order[n]].slot).source]

\* apply, once the stream has drained.
Apply(l) ==
    LET plan == plans[l]
        slots == SlotsOf(plan.appends)
        append(s) == CHOOSE a \in {plan.appends[n] : n \in DOMAIN plan.appends} :
                        a.slot = s
        replaced(s) == [k \in DOMAIN pages[s] |->
            LET m == {x \in plan.replacements : x.slot = s /\ x.logical = k}
            IN  IF m = {} THEN pages[s][k]
                ELSE (CHOOSE x \in m : TRUE).destination]
    IN
    /\ plan.stage = "written"
    /\ Release(GivenUp(plan), AddTo(references, plan.claimed))
    /\ pages' = [s \in Slot |->
          IF s \in slots THEN replaced(s) \o plan.additions[s] ELSE pages[s]]
    /\ rows' = [s \in Slot |-> IF s \in slots THEN append(s).new ELSE rows[s]]
    /\ hist' = [s \in Slot |->
          IF s \in slots
          THEN hist[s] \o [i \in 1..append(s).new - rows[s] |-> append(s).value]
          ELSE hist[s]]
    /\ writing' = writing \ slots
    /\ plans' = [plans EXCEPT ![l] = NoPlan]
    /\ UNCHANGED <<prefixes, cells>>

\* abort_commit: a failure anywhere in the transaction drains the stream,
\* drops the reservation and revokes every participating request.
Abort(l) ==
    LET plan == plans[l]
        slots == SlotsOf(plan.appends)
        order == [i \in DOMAIN plan.appends |-> pages[plan.appends[i].slot]]
        dropped == FlattenSeq(order)
    IN
    /\ plan.stage # "none"
    /\ references' = Released(references, dropped)
    /\ free' = free \o plan.claimed \o Freed(references, dropped)
    /\ pages' = [s \in Slot |-> IF s \in slots THEN <<>> ELSE pages[s]]
    /\ rows' = [s \in Slot |-> IF s \in slots THEN 0 ELSE rows[s]]
    /\ hist' = [s \in Slot |-> IF s \in slots THEN <<>> ELSE hist[s]]
    /\ writing' = writing \ slots
    /\ plans' = [plans EXCEPT ![l] = NoPlan]
    /\ UNCHANGED <<prefixes, cells>>

\* release of an idle slot.
ReleaseSlot(s) ==
    /\ s \notin writing
    /\ pages[s] # <<>>
    /\ Release(pages[s], references)
    /\ pages' = [pages EXCEPT ![s] = <<>>]
    /\ rows' = [rows EXCEPT ![s] = 0]
    /\ hist' = [hist EXCEPT ![s] = <<>>]
    /\ UNCHANGED <<writing, plans, prefixes, cells>>

Prefix(list, n, content) ==
    [live |-> TRUE, pages |-> list, rows |-> n, hist |-> content]

\* retain_prefix, which its caller asks for the committed rows of an idle slot.
RetainPrefix(h, s) ==
    /\ ~prefixes[h].live
    /\ s \notin writing
    /\ rows[s] > 0
    /\ references' = AddTo(references, pages[s])
    /\ prefixes' = [prefixes EXCEPT ![h] = Prefix(pages[s], rows[s], hist[s])]
    /\ UNCHANGED <<free, pages, rows, writing, plans, cells, hist>>

\* Drop of a SourcePrefix: its snapshot left the device.
DropPrefix(h) ==
    /\ prefixes[h].live
    /\ Release(prefixes[h].pages, references)
    /\ prefixes' = [prefixes EXCEPT ![h] = NoPrefix]
    /\ UNCHANGED <<pages, rows, writing, plans, cells, hist>>

\* restore_prefix of the first n rows into a fresh slot.  A shorter frontier is
\* attached through a truncated prefix that is dropped once the table has its
\* own references (restore_compressed_prefix).
RestorePrefix(s, h, n) ==
    LET list == SubSeq(prefixes[h].pages, 1, PagesFor(n)) IN
    /\ prefixes[h].live
    /\ s \notin writing
    /\ pages[s] = <<>>
    /\ n \in 1..prefixes[h].rows
    /\ references' = AddTo(references, list)
    /\ pages' = [pages EXCEPT ![s] = list]
    /\ rows' = [rows EXCEPT ![s] = n]
    /\ hist' = [hist EXCEPT ![s] = SubSeq(prefixes[h].hist, 1, n)]
    /\ UNCHANGED <<free, writing, plans, prefixes, cells>>

\* allocate_prefix, and the host cache's upload that fills it before use.
AllocatePrefix(h, content) ==
    LET n == Len(content)
        count == PagesFor(n)
        list == SubSeq(free, Len(free) - count + 1, Len(free))
    IN
    /\ ~prefixes[h].live
    /\ count <= Len(free)
    /\ free' = SubSeq(free, 1, Len(free) - count)
    /\ references' = AddTo(references, list)
    /\ prefixes' = [prefixes EXCEPT ![h] = Prefix(list, n, content)]
    /\ cells' = [p \in Page |-> [i \in 0..PAGE_ROWS - 1 |->
            LET at == {r \in 1..n : list[(r - 1) \div PAGE_ROWS + 1] = p
                                    /\ (r - 1) % PAGE_ROWS = i}
            IN  IF at = {} THEN cells[p][i] ELSE content[CHOOSE r \in at : TRUE]]]
    /\ UNCHANGED <<pages, rows, writing, plans, hist>>

Next ==
    \/ \E l \in Lane \ InFlight, a \in Appends : Reserve(l, a)
    \/ \E l \in InFlight :
        CopySharedTails(l) \/ WriteRows(l) \/ Apply(l) \/ Abort(l)
    \/ \E s \in Slot : ReleaseSlot(s)
    \/ \E h \in Handle, s \in Slot : RetainPrefix(h, s)
    \/ \E h \in Handle : DropPrefix(h)
    \/ \E s \in Slot, h \in Handle, n \in Rows : RestorePrefix(s, h, n)
    \/ \E h \in Handle, n \in 1..MaxRows : \E v \in Value :
          AllocatePrefix(h, [i \in 1..n |-> v])

Spec == Init /\ [][Next]_vars

-----------------------------------------------------------------------------
(* Properties. *)

LivePrefixes == {h \in Handle : prefixes[h].live}

\* The first n rows a table shows.
Read(list, n) ==
    [r \in 1..n |-> cells[list[(r - 1) \div PAGE_ROWS + 1]][(r - 1) % PAGE_ROWS]]

TypeOK ==
    /\ free \in Seq(Page)
    /\ references \in [Page -> Nat]
    /\ pages \in [Slot -> Seq(Page)]
    /\ rows \in [Slot -> Rows]
    /\ writing \subseteq Slot
    /\ \A l \in InFlight :
          /\ plans[l].stage \in {"reserved", "copied", "written"}
          /\ plans[l].appends \in Seq([slot : Slot, new : Rows, value : Value])
          /\ plans[l].claimed \in Seq(Page)
    /\ \A h \in LivePrefixes : /\ prefixes[h].pages \in Seq(Page)
                               /\ prefixes[h].rows \in Rows
                               /\ prefixes[h].hist \in Seq(Value)
    /\ cells \in [Page -> [0..PAGE_ROWS - 1 -> Value]]
    /\ hist \in [Slot -> Seq(Value)]

Owners(p) ==
    Cardinality({s \in Slot : p \in ToSet(pages[s])})
    + Cardinality({h \in LivePrefixes : p \in ToSet(prefixes[h].pages)})

\* Whatever mix of lanes, aborts, forks and drops: the count of a page is the
\* number of tables and prefixes it is in, and a page without an owner is on
\* the free list once or claimed by exactly one transaction (ownership.rs and
\* reservation.rs).
PagesAccounted ==
    \A p \in Page :
        /\ references[p] = Owners(p)
        /\ (IF references[p] > 0 THEN 0 ELSE 1)
              = Mentions(free, p)
                + Cardinality({l \in InFlight : p \in ToSet(plans[l].claimed)})

\* A retained prefix reads the rows it was taken with until it is dropped,
\* whatever its sharers append, abort or release meanwhile (ownership.rs:1
\* "immutable source prefixes").
PrefixesKeepTheirRows ==
    \A h \in LivePrefixes :
        Read(prefixes[h].pages, prefixes[h].rows) = prefixes[h].hist

\* A slot with no append in flight reads exactly the rows committed to it:
\* another transaction's tail copies and in-place appends never reach it.
IdleSlotsReadTheirRows ==
    \A s \in Slot \ writing : Read(pages[s], rows[s]) = hist[s]

\* The precondition `reserve` refuses with "index history binding differs"
\* holds in every reachable state, so a caller that passes the committed end
\* is only ever refused for lack of pages.
TablesCoverTheirRows ==
    \A s \in Slot : Len(pages[s]) = PagesFor(rows[s])

\* Two transactions in flight at once, or two appends of one, never store to
\* the same row, and a transaction never stores to a row some prefix, or some
\* table outside it, shows.
Stored(l) ==
    UNION {{<<a.slot, Destination(plans[l], a.slot, r), r % PAGE_ROWS>> :
               r \in rows[a.slot]..a.new - 1} :
           a \in {plans[l].appends[i] : i \in DOMAIN plans[l].appends}}

Shown(list, n) ==
    {<<list[(r - 1) \div PAGE_ROWS + 1], (r - 1) % PAGE_ROWS>> : r \in 1..n}

WritesArePrivate ==
    \A l \in InFlight : \A w \in Stored(l) :
        /\ \A k \in InFlight : \A x \in Stored(k) :
              x[1] # w[1] => <<x[2], x[3]>> # <<w[2], w[3]>>
        /\ \A h \in LivePrefixes :
              <<w[2], w[3]>> \notin Shown(prefixes[h].pages, prefixes[h].rows)
        /\ \A s \in Slot \ SlotsOf(plans[l].appends) :
              <<w[2], w[3]>> \notin Shown(pages[s], rows[s])

=============================================================================
