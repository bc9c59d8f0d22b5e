---------------------------- MODULE Scheduler -----------------------------
(* The serving loop (v41_native_serve/scheduler.rs): admission from the     *)
(* bounded queue at completed boundaries, prefill, decode rounds on two     *)
(* lanes that run on their own until one stops them, and the clients at the *)
(* other end of each request's channel.                                     *)
(*                                                                          *)
(* Tokens are counted, not named. The pool of source pages is the module    *)
(* SourceCache's; here a page is free, spare (only evictable snapshots hold *)
(* it) or in use by a request, and a request's partly filled last page may  *)
(* be shared with a snapshot, so that its next append copies the page.      *)

EXTENDS Naturals, Sequences, FiniteSets

CONSTANTS
    Request,
    NoRequest,
    SLOTS,          \* --concurrency
    QUEUE,          \* capacity of the queue in front of the loop
    CHANNEL,        \* capacity of a request's channel to its client
    PoolSizes,      \* source pages the pool may have
    PAGE_ROWS,      \* rows of a source page
    VERIFY,         \* rows of a verification round, 1 without a draft
    Layouts,        \* layouts the program may be started with
    Prompt,         \* tokens of a request's prompt
    Output,         \* its max_tokens
    Leavers         \* clients that may disconnect early

ASSUME SchedulerAssumption ==
    /\ NoRequest \notin Request
    /\ {SLOTS, QUEUE, CHANNEL, PAGE_ROWS, VERIFY} \subseteq Nat \ {0}
    /\ PoolSizes \subseteq Nat
    /\ Layouts \subseteq {"TargetPass", "DistributedTargetPass"}
    /\ Prompt \in [Request -> Nat \ {0}]
    /\ Output \in [Request -> Nat \ {0}]
    /\ Leavers \subseteq Request

Lane == {0, 1}

VARIABLES
    layout,     \* the layout of this process
    door,       \* the front door holds a sender of the queue
    queue,      \* submitted requests
    pending,    \* the blocked request, or NoRequest
    blocked_at, \* active_when_blocked
    closed,     \* the loop has seen the queue disconnected
    phase,      \* where a request is
    lane,       \* the lane of an active request
    finished,   \* requests to retire
    rows,       \* committed source rows of a request's lease
    pool,       \* [size, free, spare, tails]
    client,     \* what a request's client does
    mail,       \* unread messages of its channel
    at,         \* the serve thread: boundary, admission, prefill, round, solo (a
                \* round of one lane on the thread itself), failing, stopped
    lane_at,    \* a lane: top, retain, enter, verify, deliver, out, failed
    todo,       \* members a lane, or the failing loop, has yet to handle
    drain       \* who stopped the lanes; kept until the loop takes a request

queueVars == <<layout, door, queue, pending, blocked_at, closed>>
clientVars == <<client, mail>>
requestVars == <<phase, lane, finished, rows>>
laneVars == <<lane_at, todo, drain>>
vars == <<queueVars, clientVars, requestVars, laneVars, pool, at>>

Phase == {"new", "queued", "admitting", "active", "retiring", "gone"}

----------------------------------------------------------------------------
(* Source pages.                                                            *)

Pages(n) == (n + PAGE_ROWS - 1) \div PAGE_ROWS

\* The pages of the requests S, each named by its request and its place.
PagesOf(S, held) == UNION {{r} \X (1..Pages(held[r])) : r \in S}

\* The ones an append of `work[r]` rows to each request adds, and the requests
\* whose last page it copies because a snapshot shares it.
Added(work, held) ==
    UNION {{r} \X (Pages(held[r]) + 1..Pages(held[r] + work[r])) : r \in DOMAIN work}
Copied(work, tails) == {r \in DOMAIN work \intersect tails : work[r] > 0}

\* Pages the append takes from the pool.
Demand(work, held, tails) ==
    Cardinality(Added(work, held)) + Cardinality(Copied(work, tails))

\* What evicting snapshots may leave: any of their pages, any of their tails.
Evicted(p) ==
    UNION {{[p EXCEPT !.free = @ + k, !.spare = @ - k, !.tails = @ \ t] :
               t \in SUBSET p.tails} : k \in 0..p.spare}

Emptied(p) == [p EXCEPT !.free = @ + p.spare, !.spare = 0, !.tails = {}]

\* make_room: nothing is evicted if the work fits, snapshots are evicted until
\* it does, and if it never does they are all gone. It checks; it keeps nothing.
Fits(work, held, p) == Demand(work, held, p.tails) <= p.free
Rooms(work, held, p) ==
    IF Fits(work, held, p) THEN {p} ELSE {q \in Evicted(p) : Fits(work, held, q)}

\* Mutant: the page that was copied is forgotten.
AppendedForgetful(work, p) ==
    [p EXCEPT !.free = @ - Demand(work, rows, p.tails), !.tails = @ \ DOMAIN work]

Appended(work, p) ==
    [p EXCEPT !.free = @ - Demand(work, rows, p.tails),
              !.spare = @ + Cardinality(Copied(work, p.tails)),
              !.tails = @ \ Copied(work, p.tails)]

\* Pages of requests that leave: a snapshot may hold on to any of them.
Released(p, over) ==
    LET u == Cardinality(PagesOf(over, rows)) IN
    {[p EXCEPT !.free = @ + u - k, !.spare = @ + k, !.tails = @ \ over] : k \in 0..u}

\* Mutant: the prompt-only admission of earlier versions.
RemainingPrompt(r, held) == IF held[r] < Prompt[r] THEN Prompt[r] - held[r] ELSE 0

\* remaining_budget: all rows a request may still append.
Remaining(r, held) == Prompt[r] + Output[r] - held[r]
Generated(r) == rows[r] + 1 - Prompt[r]
NextRows(r) ==
    IF Output[r] - Generated(r) < VERIFY THEN Output[r] - Generated(r) ELSE VERIFY

----------------------------------------------------------------------------
(* Requests, lanes and channels.                                            *)

\* A client waits for more, has the terminal message of its request to read, or
\* has hung up.
Client == {"waits", "told", "left"}
Gone(r) == client[r] = "left"

Active == {r \in Request : phase[r] = "active"}
Over == {r \in Active : r \in finished \/ Gone(r)}
OnLane(l) == {r \in Active : lane[r] = l}
Load(l) == Cardinality(OnLane(l))
Members(l) == OnLane(l) \ Over

\* Mutant: the comparison swapped.
HeavierLane == IF Load(1) > Load(0) THEN 1 ELSE 0

\* The lane of the next request.
LighterLane == IF Load(1) < Load(0) THEN 1 ELSE 0

Sendable(r) == ~Gone(r) => mail[r] < CHANNEL

\* A message behind the terminal one is never read: the client hangs up first.
Tell(r, terminal) ==
    /\ mail' = IF client[r] = "waits" THEN [mail EXCEPT ![r] = @ + 1] ELSE mail
    /\ client' = IF client[r] = "waits" /\ terminal THEN [client EXCEPT ![r] = "told"]
                 ELSE client

\* The sender of the channel is dropped: what is in it is the client's to read.
\* One that still waits would read the end of the channel and no answer.
Dropped(over) ==
    /\ mail' = [r \in Request |-> IF r \in over THEN 0 ELSE mail[r]]
    /\ client' = [r \in Request |-> IF r \in over /\ client[r] # "waits" THEN "left"
                                    ELSE client[r]]

\* An error is sent and the sender dropped.
Dismiss(r) ==
    /\ mail' = [mail EXCEPT ![r] = 0]
    /\ client' = [client EXCEPT ![r] = "left"]

Init ==
    /\ layout \in Layouts
    /\ door = TRUE
    /\ queue = <<>>
    /\ pending = NoRequest
    /\ blocked_at = 0
    /\ closed = FALSE
    /\ phase = [r \in Request |-> "new"]
    /\ lane = [r \in Request |-> 0]
    /\ finished = {}
    /\ rows = [r \in Request |-> 0]
    /\ pool \in {[size |-> n, free |-> n, spare |-> 0, tails |-> {}] : n \in PoolSizes}
    /\ client = [r \in Request |-> "waits"]
    /\ mail = [r \in Request |-> 0]
    /\ at = "boundary"
    /\ lane_at = [l \in Lane |-> "out"]
    /\ todo = [l \in Lane |-> {}]
    /\ drain = "no"

----------------------------------------------------------------------------
(* Clients and the front door.                                              *)

Submit(r) ==
    /\ door
    /\ phase[r] = "new"
    /\ Len(queue) < QUEUE
    /\ queue' = Append(queue, r)
    /\ phase' = [phase EXCEPT ![r] = "queued"]
    /\ UNCHANGED <<layout, door, pending, blocked_at, closed, clientVars, lane, finished, rows,
                   laneVars, pool, at>>

\* The queue stayed full for the whole wait, or too many wait already.
Overloaded(r) ==
    /\ door
    /\ phase[r] = "new"
    /\ Len(queue) = QUEUE
    /\ phase' = [phase EXCEPT ![r] = "gone"]
    /\ Dismiss(r)
    /\ UNCHANGED <<queueVars, lane, finished, rows, laneVars, pool, at>>

\* The client reads until the first terminal message and then hangs up.
Read(r) ==
    /\ mail[r] > 0
    /\ mail' = [mail EXCEPT ![r] = @ - 1]
    /\ client' = IF mail[r] = 1 /\ client[r] = "told" THEN [client EXCEPT ![r] = "left"]
                 ELSE client
    /\ UNCHANGED <<queueVars, requestVars, laneVars, pool, at>>

Disconnect(r) ==
    /\ r \in Leavers
    /\ ~Gone(r)
    /\ phase[r] \notin {"new", "gone"}
    /\ client' = [client EXCEPT ![r] = "left"]
    /\ mail' = [mail EXCEPT ![r] = 0]
    /\ UNCHANGED <<queueVars, requestVars, laneVars, pool, at>>

CloseDoor ==
    /\ door
    /\ door' = FALSE
    /\ UNCHANGED <<layout, queue, pending, blocked_at, closed, clientVars, requestVars, laneVars,
                   pool, at>>

----------------------------------------------------------------------------
(* The serve thread at a boundary.                                          *)

\* Retire what is over, then even out the lanes.
Boundary ==
    /\ at = "boundary"
    /\ LET kept == Active \ Over
           load(l) == Cardinality({r \in kept : lane[r] = l})
           heavy == IF load(1) > load(0) THEN 1 ELSE 0
           moves == (load(heavy) - load(1 - heavy)) \div 2
       IN  \E moved \in SUBSET {r \in kept : lane[r] = heavy} :
               /\ Cardinality(moved) = moves
               /\ lane' = [r \in Request |-> IF r \in moved THEN 1 - heavy
                                             ELSE IF r \in Over THEN 0 ELSE lane[r]]
    /\ pool' \in Released(pool, Over)
    /\ phase' = [r \in Request |-> IF r \in Over THEN "gone" ELSE phase[r]]
    /\ rows' = [r \in Request |-> IF r \in Over THEN 0 ELSE rows[r]]
    /\ finished' = finished \ Over
    /\ Dropped(Over)
    /\ at' = "admission"
    /\ UNCHANGED <<queueVars, laneVars>>

FreeSlot == Cardinality(Active) < SLOTS
\* Mutant: a request that retires does not let the blocked one try again.
BlockedForGood == pending # NoRequest /\ blocked_at >= Cardinality(Active) /\ ~Gone(pending)

\* The blocked request is tried again only when requests have retired.
Blocked == pending # NoRequest /\ blocked_at = Cardinality(Active) /\ ~Gone(pending)

\* The admission loop ends: no slot, the blocked request has nothing to hope
\* for, or there is nothing to take. An idle loop waits in blocking_recv.
NothingToAdmit ==
    \/ ~FreeSlot
    \/ Blocked
    \/ pending = NoRequest /\ queue = <<>> /\ (door => Active # {})

\* The request the loop takes next: the blocked one first.
Candidate ==
    IF ~FreeSlot \/ Blocked THEN NoRequest
    ELSE IF pending # NoRequest THEN pending
    ELSE IF queue # <<>> THEN Head(queue) ELSE NoRequest

TakeCandidate ==
    /\ at = "admission"
    /\ pending' = NoRequest
    /\ queue' = IF pending = NoRequest THEN Tail(queue) ELSE queue
    /\ blocked_at' = 0
    /\ drain' = "no"
    /\ UNCHANGED <<layout, door, closed, lane_at, todo>>

\* Its client is gone, or its prompt, its budget or its restore is in error.
DropCandidate(r) ==
    /\ TakeCandidate
    /\ phase' = [phase EXCEPT ![r] = "gone"]
    /\ Dismiss(r)
    /\ UNCHANGED <<lane, finished, rows, pool, at>>

\* Restore a prefix of `c` tokens, then check the lifetime of every active
\* request and of this one against the pool.
Admit(r, c) ==
    LET held == [rows EXCEPT ![r] = c]
        work == [s \in Active \union {r} |-> Remaining(s, held)]
        restored == [pool EXCEPT !.spare = @ - Pages(c),
                                 !.tails = IF c % PAGE_ROWS = 0 THEN @ ELSE @ \union {r}]
        rooms == Rooms(work, held, restored)
    IN
    /\ ~Gone(r)
    /\ TakeCandidate
    /\ pool' \in rooms
    /\ rows' = held
    /\ phase' = [phase EXCEPT ![r] = "admitting"]
    /\ lane' = [lane EXCEPT ![r] = LighterLane]
    /\ at' = "prefill"
    /\ UNCHANGED <<clientVars, finished>>

\* It does not fit, with every snapshot evicted: it waits for a retirement, or
\* is refused when there is none to wait for.
DoesNotFit(r, c) ==
    LET held == [rows EXCEPT ![r] = c]
        work == [s \in Active \union {r} |-> Remaining(s, held)]
    IN
    /\ ~Gone(r)
    /\ at = "admission"
    /\ ~Fits(work, held, [Emptied(pool) EXCEPT !.free = @ - Pages(c)])
    /\ pool' = Emptied(pool)
    /\ queue' = IF pending = NoRequest THEN Tail(queue) ELSE queue
    /\ drain' = "no"
    /\ IF Active # {}
       THEN /\ pending' = r
            /\ blocked_at' = Cardinality(Active)
            /\ UNCHANGED <<phase, clientVars>>
       ELSE /\ pending' = NoRequest
            /\ blocked_at' = 0
            /\ phase' = [phase EXCEPT ![r] = "gone"]
            /\ Dismiss(r)
    /\ UNCHANGED <<layout, door, closed, lane, finished, rows, lane_at, todo, at>>

AdmitCandidate ==
    /\ at = "admission"
    /\ Candidate # NoRequest
    /\ \/ DropCandidate(Candidate)
       \/ \E c \in {n \in 0..Prompt[Candidate] : Pages(n) <= pool.spare} :
              Admit(Candidate, c) \/ DoesNotFit(Candidate, c)

----------------------------------------------------------------------------
(* Prefill owns both lanes and takes long; the client may go meanwhile.     *)

\* The first token is sampled, sent, and kept as the anchor; the prompt's
\* snapshot shares the last page unless it is full.
Prefilled(r, last_token) ==
    LET work == [s \in {r} |-> Prompt[r] - rows[r]]
        p == Appended(work, pool)
        retained == rows[r] < Prompt[r] /\ Prompt[r] % PAGE_ROWS # 0
    IN
    /\ Demand(work, rows, pool.tails) <= pool.free
    /\ pool' = IF retained THEN [p EXCEPT !.tails = @ \union {r}] ELSE p
    /\ rows' = [rows EXCEPT ![r] = Prompt[r]]
    /\ phase' = [phase EXCEPT ![r] = "active"]
    /\ finished' = IF last_token \/ Gone(r) THEN finished \union {r} ELSE finished
    /\ Tell(r, last_token)
    /\ at' = "admission"
    /\ UNCHANGED <<queueVars, lane, laneVars>>

PrefillFailed(r) ==
    /\ pool' \in Released(pool, {r})
    /\ rows' = [rows EXCEPT ![r] = 0]
    /\ phase' = [phase EXCEPT ![r] = "gone"]
    /\ Dismiss(r)
    /\ lane' = [lane EXCEPT ![r] = 0]
    /\ at' = "admission"
    /\ UNCHANGED <<queueVars, finished, laneVars>>

Prefill ==
    /\ at = "prefill"
    /\ \E r \in {s \in Request : phase[s] = "admitting"} :
        \/ PrefillFailed(r)
        \/ \E last_token \in {TRUE, Output[r] = 1} : Prefilled(r, last_token)

----------------------------------------------------------------------------
(* A decode round.                                                          *)

\* With one lane empty TargetPass runs a single round on the serve thread.
Dispatch ==
    /\ at = "admission"
    /\ NothingToAdmit
    /\ closed' = (closed \/ (FreeSlot /\ pending = NoRequest /\ ~door))
    /\ LET members == Members(0) \union Members(1)
           work == [r \in members |-> NextRows(r)]
           rooms == Rooms(work, rows, pool)
           solo == layout = "TargetPass" /\ \E l \in Lane : Members(l) = {}
       IN
       IF members = {}
       THEN /\ at' = IF Active = {} /\ closed' THEN "stopped" ELSE "boundary"
            /\ UNCHANGED <<laneVars, pool, finished, clientVars>>
       ELSE IF rooms = {}
       THEN \E r \in members :
            /\ Sendable(r)
            /\ Tell(r, TRUE)
            /\ finished' = finished \union {r}
            /\ pool' = Emptied(pool)
            /\ at' = "boundary"
            /\ UNCHANGED laneVars
       ELSE /\ pool' \in rooms
            /\ drain' = "no"
            /\ at' = IF solo THEN "solo" ELSE "round"
            /\ lane_at' = [l \in Lane |-> IF ~solo THEN "top"
                              ELSE IF Members(l) = {} THEN "out" ELSE "verify"]
            /\ todo' = [l \in Lane |-> IF solo THEN Members(l) ELSE {}]
            /\ UNCHANGED <<finished, clientVars>>
    /\ UNCHANGED <<layout, door, queue, pending, blocked_at, phase, lane, rows>>

\* A lane between two of its rounds, when anyone stopped the lanes.
LaneStops(l) ==
    /\ lane_at[l] = "top"
    /\ drain # "no"
    /\ lane_at' = [lane_at EXCEPT ![l] = "out"]
    /\ UNCHANGED <<queueVars, clientVars, requestVars, todo, drain, pool, at>>

\* What was over at the top of the loop is retired one by one. A request leaves
\* its slot at once; its lease and pages are held until the snapshot of its turn
\* is published.
RetireFrom(l, over, before) ==
    IF over = {}
    THEN lane_at' = [lane_at EXCEPT ![l] = "enter"] /\ phase' = before /\ UNCHANGED todo
    ELSE \E r \in over :
         /\ phase' = [before EXCEPT ![r] = "retiring"]
         /\ todo' = [todo EXCEPT ![l] = over \ {r}]
         /\ lane_at' = [lane_at EXCEPT ![l] = "retain"]

LaneRetires(l) ==
    /\ lane_at[l] = "top"
    /\ drain = "no"
    /\ OnLane(l) \intersect Over # {}
    /\ RetireFrom(l, OnLane(l) \intersect Over, phase)
    /\ UNCHANGED <<queueVars, clientVars, lane, finished, rows, drain, pool, at>>

LaneReleases(l) ==
    /\ lane_at[l] = "retain"
    /\ \E r \in {s \in Request : phase[s] = "retiring" /\ lane[s] = l} :
        /\ pool' \in Released(pool, {r})
        /\ rows' = [rows EXCEPT ![r] = 0]
        /\ lane' = [lane EXCEPT ![r] = 0]
        /\ finished' = finished \ {r}
        /\ Dropped({r})
        /\ RetireFrom(l, todo[l], [phase EXCEPT ![r] = "gone"])
    /\ UNCHANGED <<queueVars, drain, at>>

\* Mutant: lanes stop although the blocked request has nothing to hope for.
WakeForQueue == FreeSlot /\ (pending # NoRequest \/ queue # <<>>)

\* Wake::ready
Wake ==
    \/ pending # NoRequest /\ Gone(pending)
    \/ /\ FreeSlot
       /\ IF pending # NoRequest THEN Cardinality(Active) < blocked_at
          ELSE queue # <<>>

\* Nothing is left to retire: stop for admission, leave an empty lane, or make
\* room for a round of every request of the lane.
LaneEnter(l) ==
    /\ \/ lane_at[l] = "enter"
       \/ lane_at[l] = "top" /\ drain = "no" /\ OnLane(l) \intersect Over = {}
    /\ LET rooms == Rooms([r \in OnLane(l) |-> NextRows(r)], rows, pool) IN
       IF Wake \/ OnLane(l) = {}
       THEN /\ drain' = IF Wake THEN "wake" ELSE drain
            /\ lane_at' = [lane_at EXCEPT ![l] = "out"]
            /\ UNCHANGED <<todo, pool>>
       ELSE IF rooms = {}
       THEN /\ drain' = "error"
            /\ lane_at' = [lane_at EXCEPT ![l] = "failed"]
            /\ pool' = Emptied(pool)
            /\ UNCHANGED todo
       ELSE /\ pool' \in rooms
            /\ lane_at' = [lane_at EXCEPT ![l] = "verify"]
            /\ todo' = [todo EXCEPT ![l] = OnLane(l)]
            /\ UNCHANGED drain
    /\ UNCHANGED <<queueVars, clientVars, requestVars, at>>

LaneFails(l) ==
    /\ lane_at' = [lane_at EXCEPT ![l] = "failed"]
    /\ todo' = [todo EXCEPT ![l] = {}]
    /\ drain' = "error"
    /\ UNCHANGED <<rows, pool>>

\* The rows are verified and as many as were accepted are committed. Only here
\* are their pages taken.
LaneCommits(l, accepted) ==
    /\ Demand(accepted, rows, pool.tails) <= pool.free
    /\ pool' = Appended(accepted, pool)
    /\ rows' = [r \in Request |-> IF r \in todo[l] THEN rows[r] + accepted[r] ELSE rows[r]]
    /\ lane_at' = [lane_at EXCEPT ![l] = "deliver"]
    /\ UNCHANGED <<todo, drain>>

LaneVerify(l) ==
    /\ lane_at[l] = "verify"
    /\ \/ LaneFails(l)
       \/ \E accepted \in [todo[l] -> 1..VERIFY] :
              /\ \A r \in todo[l] : accepted[r] <= NextRows(r)
              /\ LaneCommits(l, accepted)
    /\ UNCHANGED <<queueVars, clientVars, phase, lane, finished, at>>

\* One member's tokens go to its client, and the last of them is followed by
\* the finish. A client that has gone, or a token that cannot be emitted, ends
\* the request.
LaneDeliver(l) ==
    /\ lane_at[l] = "deliver"
    /\ \E r \in todo[l] :
        /\ Sendable(r)
        /\ \/ /\ Tell(r, TRUE)
              /\ finished' = finished \union {r}
           \/ /\ ~Gone(r)
              /\ \E last_token \in {TRUE, Generated(r) = Output[r]} :
                     /\ Tell(r, last_token)
                     /\ finished' = IF last_token THEN finished \union {r} ELSE finished
        /\ todo' = [todo EXCEPT ![l] = @ \ {r}]
    /\ lane_at' = [lane_at EXCEPT ![l] =
           IF todo'[l] # {} THEN "deliver" ELSE IF at = "solo" THEN "out" ELSE "top"]
    /\ UNCHANGED <<queueVars, phase, lane, rows, drain, pool, at>>

LaneStep(l) ==
    \/ LaneStops(l) \/ LaneRetires(l) \/ LaneReleases(l) \/ LaneEnter(l)
    \/ LaneVerify(l) \/ LaneDeliver(l)

\* Both lanes are waited for; an error of either fails every active request.
Join ==
    /\ at \in {"round", "solo"}
    /\ \A l \in Lane : lane_at[l] \in {"out", "failed"}
    /\ IF \E l \in Lane : lane_at[l] = "failed"
       THEN at' = "failing" /\ todo' = [todo EXCEPT ![0] = Active]
       ELSE at' = "boundary" /\ UNCHANGED todo
    /\ lane_at' = [l \in Lane |-> "out"]
    /\ UNCHANGED <<queueVars, clientVars, requestVars, drain, pool>>

\* Mutant: the active requests are only marked.
FailQuietly ==
    /\ at = "failing"
    /\ finished' = finished \union todo[0]
    /\ todo' = [todo EXCEPT ![0] = {}]
    /\ at' = "boundary"
    /\ UNCHANGED <<queueVars, clientVars, phase, lane, rows, lane_at, drain, pool>>

FailRequest ==
    /\ at = "failing"
    /\ IF todo[0] = {}
       THEN at' = "boundary" /\ UNCHANGED <<todo, finished, clientVars>>
       ELSE \E r \in todo[0] :
            /\ Sendable(r)
            /\ Tell(r, TRUE)
            /\ finished' = finished \union {r}
            /\ todo' = [todo EXCEPT ![0] = @ \ {r}]
            /\ UNCHANGED at
    /\ UNCHANGED <<queueVars, phase, lane, rows, lane_at, drain, pool>>

ServeStep ==
    \/ Boundary \/ AdmitCandidate \/ Prefill \/ Dispatch \/ Join
    \/ FailRequest

Next ==
    \/ \E r \in Request : Submit(r) \/ Overloaded(r) \/ Read(r) \/ Disconnect(r)
    \/ CloseDoor
    \/ ServeStep
    \/ \E l \in Lane : LaneStep(l)

Spec == Init /\ [][Next]_vars

\* The serve thread runs, tokio polls both lanes, and clients that stay read.
Fairness ==
    /\ WF_vars(ServeStep)
    /\ \A l \in Lane : WF_vars(LaneStep(l))
    /\ \A r \in Request : WF_vars(Read(r))

FairSpec == Spec /\ Fairness

----------------------------------------------------------------------------
(* Properties.                                                              *)

SchedulerTypeOK ==
    /\ layout \in Layouts /\ door \in BOOLEAN /\ closed \in BOOLEAN
    /\ queue \in Seq(Request) /\ Len(queue) <= QUEUE
    /\ pending \in Request \union {NoRequest}
    /\ blocked_at \in 0..SLOTS
    /\ phase \in [Request -> Phase]
    /\ lane \in [Request -> Lane]
    /\ finished \subseteq Request
    /\ rows \in [Request -> Nat]
    /\ pool.size \in PoolSizes /\ pool.free \in Nat /\ pool.spare \in Nat
    /\ pool.tails \subseteq {r \in Request : rows[r] % PAGE_ROWS # 0}
    /\ pool.free + pool.spare + Cardinality(PagesOf(Request, rows)) = pool.size
    /\ client \in [Request -> Client]
    /\ mail \in [Request -> 0..CHANNEL]
    /\ at \in {"boundary", "admission", "prefill", "round", "solo", "failing",
               "stopped"}
    /\ lane_at \in [Lane -> {"top", "retain", "enter", "verify", "deliver", "out", "failed"}]
    /\ todo \in [Lane -> SUBSET Request]
    /\ drain \in {"no", "wake", "error"}

\* No round starts or goes on with more requests on a lane than half the slots,
\* rounded up: with sixteen slots a lane's batch of eight is never exceeded,
\* however requests were admitted, retired and failed.
LanesWithinBatch ==
    at \in {"round", "solo"} => \A l \in Lane : Load(l) <= (SLOTS + 1) \div 2

\* The free pages and those that evicting every snapshot would give back cover
\* the whole declared lifetime of every request that holds a lease, so making
\* room never fails once a request is admitted (the budget check of admission).
BudgetsCovered ==
    LET holders == {r \in Request : phase[r] \in {"admitting", "active"}}
        lifetime == [r \in holders |-> Prompt[r] + Output[r] - rows[r]]
    IN  Demand(lifetime, rows, {}) <= pool.free + pool.spare

\* Lanes that stopped for admission were not stopped for nothing: the loop has
\* taken a request before the next round starts (admission.rs, Wake).
DrainsAdmit ==
    [][at = "admission" /\ at' # "admission" => at' = "prefill" \/ drain # "wake"]_at

\* A request leaves only when its client has been told a finish or an error or
\* has gone, whichever of the loop, a lane or a failure ended it.
AnsweredWhenGone == \A r \in Request : phase[r] = "gone" => client[r] # "waits"

\* The loop implements the line that its clients see: first come first served,
\* the blocked request included, and every one that was queued is done in the end.
ServingLine ==
    INSTANCE ServiceLine WITH
        line <- (IF pending = NoRequest THEN <<>> ELSE <<pending>>) \o queue,
        serving <- {r \in Request : phase[r] \in {"admitting", "active", "retiring"}},
        done <- {r \in Request : phase[r] = "gone"}
KeepsTheLine == ServingLine!FairSpec

\* Once a lane has made room for its round, its commit finds the pages
\* ("Reserve target capacity ...", independent.rs).
CheckedRoomHolds ==
    \A l \in Lane : lane_at[l] = "verify" =>
        Demand([r \in todo[l] |-> NextRows(r)], rows, pool.tails) <= pool.free
=============================================================================
