-------------------------- MODULE SchedulerProofs ---------------------------
(***************************************************************************)
(* Lanes stay within their batch and never stop for nothing, and the loop  *)
(* keeps the line that its clients see; no request leaves it without an    *)
(* answer, the pages of every admitted one are covered to the end of its   *)
(* declared lifetime, and no channel or queue overflows, for any number of *)
(* requests, slots, pages and clients.                                     *)
(***************************************************************************)
EXTENDS Scheduler, LibraryLemmas

(***************************************************************************)
(* Where requests are: the line holds queued requests, each once; at most  *)
(* one is being admitted, and only during prefill; lanes are out unless a  *)
(* round runs; a lane that retires has active requests of its own on its   *)
(* list.                                                                   *)
(***************************************************************************)
Types ==
    /\ phase \in [Request -> Phase]
    /\ lane \in [Request -> Lane]
    /\ DOMAIN client = Request
    /\ DOMAIN lane_at = Lane /\ DOMAIN todo = Lane
    /\ queue \in Seq(Request)
    /\ pending \in Request \union {NoRequest}

LineQueued ==
    /\ \A i \in 1..Len(queue) : phase[queue[i]] = "queued"
    /\ \A i, j \in 1..Len(queue) : queue[i] = queue[j] => i = j
    /\ pending \in Request =>
          phase[pending] = "queued" /\ \A i \in 1..Len(queue) : queue[i] # pending

OneAdmitting ==
    /\ \A r \in Request : phase[r] = "admitting" => at = "prefill"
    /\ \A r, s \in Request : phase[r] = "admitting" /\ phase[s] = "admitting" => r = s

LanesIdle == at \notin {"round", "solo"} => \A l \in Lane : lane_at[l] = "out"

ListsAreActive == \A l \in Lane : lane_at[l] = "retain" => todo[l] \subseteq OnLane(l)

PlacesInv == Types /\ LineQueued /\ OneAdmitting /\ LanesIdle /\ ListsAreActive

-----------------------------------------------------------------------------

\* Initially nobody is anywhere.
LEMMA InitPlaces == Init => PlacesInv
  BY SchedulerAssumption
     DEF Init, PlacesInv, Types, LineQueued, OneAdmitting, LanesIdle, ListsAreActive, Lane, Phase

\* A request leaves the line when it is queued, and nobody else moves.
LEMMA SubmitPlaces ==
    ASSUME PlacesInv, NEW r \in Request, Submit(r)
    PROVE  PlacesInv'
<1>1. /\ phase[r] = "new"
      /\ queue' = Append(queue, r)
      /\ phase' = [phase EXCEPT ![r] = "queued"]
      /\ lane' = lane /\ client' = client /\ lane_at' = lane_at /\ todo' = todo
      /\ pending' = pending /\ at' = at
  BY DEF Submit, clientVars, laneVars
<1>2. /\ queue' \in Seq(Request) /\ Len(queue') = Len(queue) + 1 /\ Len(queue) \in Nat
      /\ \A i \in 1..Len(queue) : queue'[i] = queue[i] /\ queue[i] \in Request
      /\ queue'[Len(queue) + 1] = r
  BY <1>1 DEF PlacesInv, Types
<1>3. Types'
  BY <1>1, <1>2 DEF PlacesInv, Types, Phase
<1>4. LineQueued'
  BY <1>1, <1>2 DEF PlacesInv, Types, LineQueued
<1>5. OneAdmitting' /\ LanesIdle'
  BY <1>1 DEF PlacesInv, Types, OneAdmitting, LanesIdle
<1>6. ListsAreActive'
  BY <1>1 DEF PlacesInv, Types, ListsAreActive, OnLane, Active
<1> QED
  BY <1>3, <1>4, <1>5, <1>6 DEF PlacesInv

\* What a client does after submitting, or instead of it, moves nobody.
LEMMA OtherClientPlaces ==
    ASSUME PlacesInv, NEW r \in Request, Overloaded(r) \/ Read(r) \/ Disconnect(r)
    PROVE  PlacesInv'
<1>1. /\ \/ phase' = phase
         \/ phase[r] = "new" /\ phase' = [phase EXCEPT ![r] = "gone"]
      /\ DOMAIN client' = Request
      /\ lane' = lane /\ lane_at' = lane_at /\ todo' = todo
      /\ queue' = queue /\ pending' = pending /\ at' = at
  BY DEF Overloaded, Read, Disconnect, Dismiss, PlacesInv, Types, queueVars, laneVars, requestVars
<1>3. Types'
  BY <1>1 DEF PlacesInv, Types, Phase
<1>4. LineQueued'
  BY <1>1 DEF PlacesInv, Types, LineQueued
<1>5. OneAdmitting' /\ LanesIdle'
  BY <1>1 DEF PlacesInv, Types, OneAdmitting, LanesIdle
<1>6. ListsAreActive'
  BY <1>1 DEF PlacesInv, Types, ListsAreActive, OnLane, Active
<1> QED
  BY <1>3, <1>4, <1>5, <1>6 DEF PlacesInv

On(A, f, l) == {x \in A : f[x] = l}

\* Retiring and evening out, with the lane that had more requests.
LEMMA BoundaryMoves ==
    ASSUME Boundary
    PROVE  \E h \in Lane : \E moved \in SUBSET On(Active \ Over, lane, h) :
               /\ h = IF Cardinality(On(Active \ Over, lane, 1))
                         > Cardinality(On(Active \ Over, lane, 0)) THEN 1 ELSE 0
               /\ Cardinality(moved)
                  = (Cardinality(On(Active \ Over, lane, h))
                     - Cardinality(On(Active \ Over, lane, 1 - h))) \div 2
               /\ lane' = [r \in Request |-> IF r \in moved THEN 1 - h
                                             ELSE IF r \in Over THEN 0 ELSE lane[r]]
<1> DEFINE kept == Active \ Over
           h == IF Cardinality(On(kept, lane, 1)) > Cardinality(On(kept, lane, 0))
                THEN 1 ELSE 0
<1>1. h \in Lane
  BY DEF Lane
<1>2. \E moved \in SUBSET On(kept, lane, h) :
          /\ Cardinality(moved) = (Cardinality(On(kept, lane, h))
                                   - Cardinality(On(kept, lane, 1 - h))) \div 2
          /\ lane' = [r \in Request |-> IF r \in moved THEN 1 - h
                                        ELSE IF r \in Over THEN 0 ELSE lane[r]]
  BY DEF Boundary, On
<1>3. h = IF Cardinality(On(kept, lane, 1)) > Cardinality(On(kept, lane, 0)) THEN 1 ELSE 0
  OBVIOUS
<1> HIDE DEF h
<1> QED
  BY <1>1, <1>2, <1>3

\* The start of an iteration ends whoever is over and evens out the two lanes.
LEMMA BoundaryPlaces ==
    ASSUME PlacesInv, Boundary
    PROVE  PlacesInv'
<1>1. /\ phase' = [r \in Request |-> IF r \in Over THEN "gone" ELSE phase[r]]
      /\ lane' \in [Request -> Lane]
      /\ DOMAIN client' = Request
      /\ lane_at' = lane_at /\ todo' = todo
      /\ queue' = queue /\ pending' = pending
      /\ at = "boundary" /\ at' = "admission"
  <2>1. lane' \in [Request -> Lane]
    BY BoundaryMoves DEF PlacesInv, Types, Lane
  <2> QED
    BY <2>1 DEF Boundary, Dropped, queueVars, laneVars
<1>2. \A r \in Over : phase[r] = "active"
  BY DEF Over, Active
<1>3. Types'
  BY <1>1 DEF PlacesInv, Types, Phase
<1>4. LineQueued'
  BY <1>1, <1>2 DEF PlacesInv, Types, LineQueued
<1>5. OneAdmitting' /\ LanesIdle'
  BY <1>1 DEF PlacesInv, Types, OneAdmitting, LanesIdle
<1>6. ListsAreActive'
  BY <1>1 DEF PlacesInv, LanesIdle, ListsAreActive
<1> QED
  BY <1>3, <1>4, <1>5, <1>6 DEF PlacesInv

\* The candidate is the request that waits, or the first one of the queue, and
\* without it the line is still in order.
LEMMA CandidateIsQueued ==
    ASSUME PlacesInv, Candidate # NoRequest,
           queue' = IF pending = NoRequest THEN Tail(queue) ELSE queue
    PROVE  /\ Candidate \in Request /\ phase[Candidate] = "queued" /\ FreeSlot /\ ~Blocked
           /\ queue' \in Seq(Request)
           /\ \A i \in 1..Len(queue') : phase[queue'[i]] = "queued" /\ queue'[i] # Candidate
           /\ \A i, j \in 1..Len(queue') : queue'[i] = queue'[j] => i = j
<1>1. CASE pending # NoRequest
  BY <1>1 DEF Candidate, PlacesInv, Types, LineQueued
<1>2. CASE pending = NoRequest
  <2>1. queue # <<>> /\ Candidate = Head(queue) /\ FreeSlot /\ ~Blocked
    BY <1>2 DEF Candidate
  <2>2. /\ queue \in Seq(Request) /\ queue' = Tail(queue)
        /\ Head(queue) = queue[1] /\ Len(queue) \in Nat /\ Len(queue) > 0
        /\ Len(queue') = Len(queue) - 1 /\ queue' \in Seq(Request)
        /\ \A i \in 1..Len(queue') : queue'[i] = queue[i + 1]
    BY <1>2, <2>1 DEF PlacesInv, Types
  <2>3. queue[1] \in Request
    BY <2>2
  <2> QED
    BY <2>1, <2>2, <2>3 DEF PlacesInv, LineQueued
<1> QED
  BY <1>1, <1>2

\* Admission gives its candidate a slot, ends it, or makes it wait for a retirement.
LEMMA AdmissionPlaces ==
    ASSUME PlacesInv, AdmitCandidate
    PROVE  PlacesInv'
<1> DEFINE r == Candidate
<1>0. Candidate # NoRequest /\ at = "admission"
  BY DEF AdmitCandidate
<1>1. /\ queue' = IF pending = NoRequest THEN Tail(queue) ELSE queue
      /\ lane_at' = lane_at /\ todo' = todo
      /\ DOMAIN client' = Request
      /\ \/ /\ pending' = NoRequest /\ at' = at /\ lane' = lane
            /\ phase' = [phase EXCEPT ![r] = "gone"]
         \/ /\ pending' = NoRequest /\ at' = "prefill"
            /\ phase' = [phase EXCEPT ![r] = "admitting"]
            /\ lane' = [lane EXCEPT ![r] = LighterLane]
         \/ pending' = r /\ at' = at /\ phase' = phase /\ lane' = lane
  <2>1. CASE DropCandidate(r)
    BY <2>1 DEF DropCandidate, TakeCandidate, Dismiss, PlacesInv, Types
  <2>2. ASSUME NEW c, Admit(r, c) PROVE <1>1
    BY <2>2 DEF Admit, TakeCandidate, clientVars, PlacesInv, Types
  <2>3. ASSUME NEW c, DoesNotFit(r, c) PROVE <1>1
    BY <2>3 DEF DoesNotFit, Dismiss, clientVars, PlacesInv, Types
  <2> QED
    BY <2>1, <2>2, <2>3 DEF AdmitCandidate
<1>2. /\ r \in Request /\ phase[r] = "queued"
      /\ queue' \in Seq(Request)
      /\ \A i \in 1..Len(queue') : phase[queue'[i]] = "queued" /\ queue'[i] # r
      /\ \A i, j \in 1..Len(queue') : queue'[i] = queue'[j] => i = j
  BY <1>0, <1>1, CandidateIsQueued
<1> HIDE DEF r
<1>3. Types'
  BY <1>1, <1>2 DEF PlacesInv, Types, Phase, Lane, LighterLane
<1>4. LineQueued'
  <2>1. \A i \in 1..Len(queue') : queue'[i] \in Request
    BY <1>2
  <2>2. \A q \in Request : q # r => phase'[q] = phase[q]
    BY <1>1 DEF PlacesInv, Types
  <2>3. \A i \in 1..Len(queue') : phase'[queue'[i]] = "queued"
    BY <1>2, <2>1, <2>2
  <2>4. pending' = NoRequest \/ (pending' = r /\ phase' = phase)
    BY <1>1
  <2>5. pending' \in Request =>
            phase'[pending'] = "queued" /\ \A i \in 1..Len(queue') : queue'[i] # pending'
    BY <1>2, <2>4, SchedulerAssumption
  <2> QED
    BY <1>2, <2>3, <2>5 DEF LineQueued
<1>5. OneAdmitting' /\ LanesIdle'
  BY <1>0, <1>1, <1>2 DEF PlacesInv, Types, OneAdmitting, LanesIdle
<1>6. ListsAreActive'
  BY <1>0, <1>1 DEF PlacesInv, LanesIdle, ListsAreActive
<1> QED
  BY <1>3, <1>4, <1>5, <1>6 DEF PlacesInv

\* A prefill makes the admitted request active or ends it.
LEMMA PrefillPlaces ==
    ASSUME PlacesInv, Prefill
    PROVE  PlacesInv'
<1>1. PICK r \in Request :
        /\ phase[r] = "admitting"
        /\ \/ phase' = [phase EXCEPT ![r] = "gone"] /\ lane' = [lane EXCEPT ![r] = 0]
           \/ phase' = [phase EXCEPT ![r] = "active"] /\ lane' = lane
        /\ DOMAIN client' = Request
        /\ lane_at' = lane_at /\ todo' = todo
        /\ queue' = queue /\ pending' = pending
        /\ at = "prefill" /\ at' = "admission"
  BY DEF Prefill, PrefillFailed, Prefilled, Dismiss, Tell, PlacesInv, Types, queueVars, laneVars
<1>3. Types'
  BY <1>1 DEF PlacesInv, Types, Phase, Lane
<1>4. LineQueued'
  BY <1>1 DEF PlacesInv, Types, LineQueued
<1>5. OneAdmitting' /\ LanesIdle'
  BY <1>1 DEF PlacesInv, Types, OneAdmitting, LanesIdle
<1>6. ListsAreActive'
  BY <1>1 DEF PlacesInv, LanesIdle, ListsAreActive
<1> QED
  BY <1>3, <1>4, <1>5, <1>6 DEF PlacesInv

\* Steps of a round that move no request.
LEMMA RoundPlaces ==
    ASSUME PlacesInv,
           phase' = phase, lane' = lane, DOMAIN client' = Request,
           DOMAIN lane_at' = Lane, DOMAIN todo' = Lane,
           queue' = queue, pending' = pending, at' # "prefill", at # "prefill",
           LanesIdle',
           \A l \in Lane : lane_at'[l] = "retain" =>
               lane_at[l] = "retain" /\ todo'[l] \subseteq todo[l]
    PROVE  PlacesInv'
<1>3. Types' /\ LineQueued' /\ OneAdmitting'
  BY DEF PlacesInv, Types, LineQueued, OneAdmitting
<1>6. ListsAreActive'
  BY DEF PlacesInv, ListsAreActive, OnLane, Active
<1> QED
  BY <1>3, <1>6 DEF PlacesInv

\* Telling a client something keeps the clients what they are.
LEMMA TellKeepsDomain ==
    ASSUME NEW r, NEW terminal, DOMAIN client = Request, Tell(r, terminal)
    PROVE  DOMAIN client' = Request
  BY DEF Tell

\* Starting a round moves nobody.
LEMMA DispatchPlaces ==
    ASSUME PlacesInv, Dispatch
    PROVE  PlacesInv'
<1>1. /\ phase' = phase /\ lane' = lane /\ queue' = queue /\ pending' = pending
      /\ at = "admission" /\ at' # "prefill"
      /\ \/ client' = client
         \/ \E r : Tell(r, TRUE)
      /\ \/ lane_at' = lane_at /\ todo' = todo
         \/ /\ at' \in {"round", "solo"}
            /\ DOMAIN lane_at' = Lane /\ DOMAIN todo' = Lane
            /\ \A l \in Lane : lane_at'[l] # "retain"
  BY DEF Dispatch, clientVars, laneVars
<1>2. DOMAIN client' = Request
  BY <1>1, TellKeepsDomain DEF PlacesInv, Types
<1>3. LanesIdle'
  BY <1>1 DEF PlacesInv, LanesIdle
<1> QED
  BY <1>1, <1>2, <1>3, RoundPlaces DEF PlacesInv, Types, LanesIdle

\* Ending a round moves nobody.
LEMMA JoinPlaces ==
    ASSUME PlacesInv, Join
    PROVE  PlacesInv'
<1>1. /\ phase' = phase /\ lane' = lane /\ queue' = queue /\ pending' = pending
      /\ at # "prefill" /\ at' # "prefill" /\ client' = client
      /\ DOMAIN lane_at' = Lane /\ DOMAIN todo' = Lane
      /\ \A l \in Lane : lane_at'[l] = "out"
  BY DEF Join, clientVars, requestVars, queueVars, PlacesInv, Types
<1>2. LanesIdle'
  BY <1>1 DEF LanesIdle
<1> QED
  BY <1>1, <1>2, RoundPlaces DEF PlacesInv, Types

\* Telling a request of a broken round moves nobody.
LEMMA FailRequestPlaces ==
    ASSUME PlacesInv, FailRequest
    PROVE  PlacesInv'
<1>1. /\ phase' = phase /\ lane' = lane /\ queue' = queue /\ pending' = pending
      /\ at = "failing" /\ at' \in {"failing", "boundary"}
      /\ client' = client \/ \E r : Tell(r, TRUE)
      /\ lane_at' = lane_at /\ DOMAIN todo' = Lane
  BY DEF FailRequest, queueVars, clientVars, PlacesInv, Types
<1>2. DOMAIN client' = Request
  BY <1>1, TellKeepsDomain DEF PlacesInv, Types
<1>3. LanesIdle' /\ \A l \in Lane : lane_at'[l] # "retain"
  BY <1>1 DEF PlacesInv, LanesIdle
<1> QED
  BY <1>1, <1>2, <1>3, RoundPlaces DEF PlacesInv, Types

\* A lane's steps inside a round move nobody.
LEMMA QuietLanePlaces ==
    ASSUME PlacesInv, NEW l \in Lane, at \in {"round", "solo"},
           LaneStops(l) \/ LaneEnter(l) \/ LaneVerify(l) \/ LaneDeliver(l)
    PROVE  PlacesInv'
<1>0. DOMAIN client = Request /\ DOMAIN lane_at = Lane /\ DOMAIN todo = Lane
  BY DEF PlacesInv, Types
<1>1. /\ phase' = phase /\ lane' = lane /\ queue' = queue /\ pending' = pending
      /\ at' = at
      /\ client' = client \/ \E r : \E terminal : Tell(r, terminal)
      /\ \E step \in {"out", "failed", "verify", "deliver", "top"} :
             lane_at' = [lane_at EXCEPT ![l] = step]
      /\ todo' = todo \/ \E S : todo' = [todo EXCEPT ![l] = S]
  <2>1. CASE LaneStops(l)
    BY <2>1 DEF LaneStops, queueVars, clientVars, requestVars
  <2>2. CASE LaneEnter(l)
    BY <2>2 DEF LaneEnter, queueVars, clientVars, requestVars
  <2>3. CASE LaneVerify(l)
    BY <2>3 DEF LaneVerify, LaneFails, LaneCommits, queueVars, clientVars
  <2>4. CASE LaneDeliver(l)
    BY <2>4 DEF LaneDeliver, queueVars
  <2> QED
    BY <2>1, <2>2, <2>3, <2>4
<1>2. DOMAIN client' = Request
  BY <1>0, <1>1, TellKeepsDomain
<1>3. /\ DOMAIN lane_at' = Lane /\ DOMAIN todo' = Lane
      /\ \A k \in Lane : lane_at'[k] = "retain" =>
             lane_at[k] = "retain" /\ todo'[k] \subseteq todo[k]
  BY <1>0, <1>1
<1>4. LanesIdle'
  BY <1>1 DEF LanesIdle
<1> QED
  BY <1>1, <1>2, <1>3, <1>4, RoundPlaces

\* The next request of a list is retired and the others stay on the list, or
\* the list is empty and nobody moves.
LEMMA RetireFromMoves ==
    ASSUME Types, NEW l \in Lane, NEW over, over \subseteq Request,
           NEW before \in [Request -> Phase], RetireFrom(l, over, before)
    PROVE  /\ phase' \in [Request -> Phase]
           /\ DOMAIN lane_at' = Lane /\ DOMAIN todo' = Lane
           /\ \A k \in Lane : k # l => lane_at'[k] = lane_at[k] /\ todo'[k] = todo[k]
           /\ \/ phase' = before /\ lane_at'[l] # "retain"
              \/ \E r \in over :
                     /\ phase'[r] = "retiring"
                     /\ \A q \in Request : q # r => phase'[q] = before[q]
                     /\ \A q \in todo'[l] : q \in over /\ q # r
<1>1. CASE over = {}
  BY <1>1 DEF RetireFrom, Types
<1>2. CASE over # {}
  <2>1. PICK r \in over :
          /\ phase' = [before EXCEPT ![r] = "retiring"]
          /\ todo' = [todo EXCEPT ![l] = over \ {r}]
          /\ lane_at' = [lane_at EXCEPT ![l] = "retain"]
    BY <1>2 DEF RetireFrom
  <2> QED
    BY <2>1 DEF Types, Phase
<1> QED
  BY <1>1, <1>2

\* What a lane does when it retires: active requests of its own may leave,
\* retiring ones go, and nobody else moves.
LaneMoves(l) ==
    /\ lane_at[l] \in {"top", "retain"}
    /\ phase' \in [Request -> Phase]
    /\ lane' \in [Request -> Lane]
    /\ DOMAIN lane_at' = Lane /\ DOMAIN todo' = Lane
    /\ \A k \in Lane : k # l => lane_at'[k] = lane_at[k] /\ todo'[k] = todo[k]
    /\ \A q \in Request :
           \/ phase'[q] = phase[q] /\ lane'[q] = lane[q]
           \/ phase[q] = "retiring" /\ phase'[q] = "gone"
           \/ phase[q] = "active" /\ phase'[q] = "retiring" /\ lane[q] = l
    /\ lane_at'[l] = "retain" =>
          todo'[l] \subseteq OnLane(l) /\ \A q \in todo'[l] : q \in OnLane(l)'

\* A lane's retiring and releasing steps move requests of that lane out, and nobody else.
LEMMA RetireAndReleaseMove ==
    ASSUME PlacesInv, NEW l \in Lane, LaneRetires(l) \/ LaneReleases(l)
    PROVE  LaneMoves(l)
<1>0. Types
  BY DEF PlacesInv
<1>1. CASE LaneRetires(l)
  <2> DEFINE over == OnLane(l) \intersect Over
  <2>1. /\ lane_at[l] = "top" /\ RetireFrom(l, over, phase)
        /\ lane' = lane
    BY <1>1 DEF LaneRetires
  <2>2. PICK r \in over : /\ phase' = [phase EXCEPT ![r] = "retiring"]
                          /\ todo' = [todo EXCEPT ![l] = over \ {r}]
                          /\ lane_at' = [lane_at EXCEPT ![l] = "retain"]
    BY <1>1, <2>1 DEF RetireFrom, LaneRetires
  <2>3. \A q \in over : q \in Request /\ q \in OnLane(l) /\ phase[q] = "active" /\ lane[q] = l
    BY DEF OnLane, Active
  <2> HIDE DEF over
  <2>4. /\ phase' \in [Request -> Phase] /\ lane' \in [Request -> Lane]
        /\ DOMAIN lane_at' = Lane /\ DOMAIN todo' = Lane
        /\ \A k \in Lane : k # l => lane_at'[k] = lane_at[k] /\ todo'[k] = todo[k]
        /\ todo'[l] = over \ {r}
    BY <1>0, <2>1, <2>2 DEF Types, Phase
  <2>5. /\ phase'[r] = "retiring"
        /\ \A q \in Request : q # r => phase'[q] = phase[q]
    BY <1>0, <2>2, <2>3 DEF Types
  <2>6. \A q \in todo'[l] : q \in OnLane(l)'
    BY <2>1, <2>3, <2>4, <2>5 DEF OnLane, Active
  <2> QED
    BY <2>1, <2>3, <2>4, <2>5, <2>6 DEF LaneMoves
<1>2. CASE LaneReleases(l)
  <2> DEFINE over == todo[l]
  <2>0. PICK s \in Request : /\ phase[s] = "retiring" /\ lane[s] = l
                             /\ lane' = [lane EXCEPT ![s] = 0]
                             /\ RetireFrom(l, over, [phase EXCEPT ![s] = "gone"])
    BY <1>2 DEF LaneReleases
  <2> DEFINE before == [phase EXCEPT ![s] = "gone"]
  <2>1. lane_at[l] = "retain" /\ RetireFrom(l, over, before)
    BY <1>2, <2>0 DEF LaneReleases
  <2>2. over \subseteq Request /\ over \subseteq OnLane(l) /\ \A q \in over : phase[q] = "active" /\ lane[q] = l
    BY <2>1 DEF PlacesInv, ListsAreActive, OnLane, Active
  <2>3. /\ phase \in [Request -> Phase] /\ lane \in [Request -> Lane]
        /\ before \in [Request -> Phase] /\ before[s] = "gone"
        /\ \A q \in Request : q # s => before[q] = phase[q]
    BY <1>0 DEF Types, Phase
  <2>4. lane' \in [Request -> Lane] /\ \A q \in Request : q # s => lane'[q] = lane[q]
    BY <2>0, <2>3 DEF Lane
  <2>5. /\ phase' \in [Request -> Phase]
        /\ DOMAIN lane_at' = Lane /\ DOMAIN todo' = Lane
        /\ \A k \in Lane : k # l => lane_at'[k] = lane_at[k] /\ todo'[k] = todo[k]
        /\ \/ phase' = before /\ lane_at'[l] # "retain"
           \/ \E r \in over :
                  /\ phase'[r] = "retiring"
                  /\ \A q \in Request : q # r => phase'[q] = before[q]
                  /\ \A q \in todo'[l] : q \in over /\ q # r
    BY <1>0, <2>1, <2>2, <2>3, RetireFromMoves
  <2> HIDE DEF over, before
  <2>6. CASE phase' = before /\ lane_at'[l] # "retain"
    BY <2>0, <2>1, <2>3, <2>4, <2>5, <2>6 DEF LaneMoves
  <2>7. ASSUME NEW r \in over, phase'[r] = "retiring",
               \A q \in Request : q # r => phase'[q] = before[q],
               \A q \in todo'[l] : q \in over /\ q # r
        PROVE  LaneMoves(l)
    <3>1. r # s /\ \A q \in over : q # s /\ q \in Request
      BY <2>0, <2>2 DEF OnLane, Active
    <3>2. \A q \in todo'[l] : q \in OnLane(l)'
      BY <2>2, <2>3, <2>4, <2>7, <3>1 DEF OnLane, Active
    <3> QED
      BY <2>0, <2>1, <2>2, <2>3, <2>4, <2>5, <2>7, <3>1, <3>2 DEF LaneMoves
  <2> QED
    BY <2>5, <2>6, <2>7
<1> QED
  BY <1>1, <1>2

\* A lane's retiring and releasing steps keep everybody's place.
LEMMA LaneMovesPlaces ==
    ASSUME PlacesInv, NEW l \in Lane, LaneRetires(l) \/ LaneReleases(l)
    PROVE  PlacesInv'
<1>1. LaneMoves(l)
  BY RetireAndReleaseMove
<1>2. /\ queue' = queue /\ pending' = pending /\ at' = at /\ at \in {"round", "solo"}
      /\ DOMAIN client' = Request
  <2>1. queue' = queue /\ pending' = pending /\ at' = at /\ DOMAIN client' = Request
    BY DEF LaneRetires, LaneReleases, queueVars, clientVars, Dropped, PlacesInv, Types
  <2>2. at \in {"round", "solo"}
    BY <1>1 DEF LaneMoves, PlacesInv, LanesIdle
  <2> QED
    BY <2>1, <2>2
<1>3. Types'
  BY <1>1, <1>2 DEF PlacesInv, Types, LaneMoves
<1>4. LineQueued'
  <2>1. \A q \in Request : phase[q] = "queued" => phase'[q] = "queued"
    BY <1>1 DEF LaneMoves
  <2>2. \A i \in 1..Len(queue) : queue[i] \in Request
    BY DEF PlacesInv, Types
  <2> QED
    BY <1>2, <2>1, <2>2 DEF PlacesInv, LineQueued
<1>5. OneAdmitting' /\ LanesIdle'
  BY <1>1, <1>2 DEF LaneMoves, PlacesInv, OneAdmitting, LanesIdle
<1>6. ListsAreActive'
  <2>1. \A k \in Lane : k # l => \A q \in OnLane(k) : q \in OnLane(k)'
    BY <1>1 DEF LaneMoves, OnLane, Active
  <2> QED
    BY <1>1, <2>1 DEF LaneMoves, PlacesInv, ListsAreActive
<1> QED
  BY <1>3, <1>4, <1>5, <1>6 DEF PlacesInv

\* Lanes step only inside a round.
LEMMA LaneStepInRound ==
    ASSUME PlacesInv, NEW l \in Lane, LaneStep(l)
    PROVE  at \in {"round", "solo"}
  BY DEF LaneStep, LaneStops, LaneRetires, LaneReleases, LaneEnter, LaneVerify, LaneDeliver,
     PlacesInv, LanesIdle

\* Every step keeps everybody's place.
LEMMA StepKeepsPlaces == PlacesInv /\ [Next]_vars => PlacesInv'
<1> SUFFICES ASSUME PlacesInv, [Next]_vars
             PROVE  PlacesInv'
  OBVIOUS
<1>1. ASSUME NEW r \in Request, Submit(r) \/ Overloaded(r) \/ Read(r) \/ Disconnect(r)
      PROVE  PlacesInv'
  BY <1>1, SubmitPlaces, OtherClientPlaces
<1>2. CASE CloseDoor \/ UNCHANGED vars
  <2>1. /\ phase' = phase /\ lane' = lane /\ client' = client /\ lane_at' = lane_at
        /\ todo' = todo /\ queue' = queue /\ pending' = pending /\ at' = at
    BY <1>2 DEF CloseDoor, vars, queueVars, clientVars, requestVars, laneVars
  <2> QED
    BY <2>1 DEF PlacesInv, Types, LineQueued, OneAdmitting, LanesIdle, ListsAreActive, OnLane,
       Active
<1>3. CASE ServeStep
  BY <1>3, BoundaryPlaces, AdmissionPlaces, PrefillPlaces, DispatchPlaces, JoinPlaces,
     FailRequestPlaces DEF ServeStep
<1>4. ASSUME NEW l \in Lane, LaneStep(l)
      PROVE  PlacesInv'
  BY <1>4, LaneStepInRound, LaneMovesPlaces, QuietLanePlaces DEF LaneStep
<1> QED
  BY <1>1, <1>2, <1>3, <1>4 DEF Next

-----------------------------------------------------------------------------
(* Cardinalities of lanes. *)

\* The two lanes split a set of requests on lanes, and their sizes add up.
LEMMA LanesPartition ==
    ASSUME NEW A, NEW f, IsFiniteSet(A), \A x \in A : f[x] \in Lane
    PROVE  /\ \A l \in Lane : IsFiniteSet(On(A, f, l)) /\ Cardinality(On(A, f, l)) \in Nat
           /\ Cardinality(A) \in Nat
           /\ Cardinality(On(A, f, 0)) + Cardinality(On(A, f, 1)) = Cardinality(A)
<1>1. \A l \in Lane : On(A, f, l) \in SUBSET A
  BY DEF On
<1>2. /\ \A l \in Lane : IsFiniteSet(On(A, f, l)) /\ Cardinality(On(A, f, l)) \in Nat
      /\ Cardinality(A) \in Nat
  BY <1>1, FS_Subset, FS_CardinalityType
<1>3. On(A, f, 0) \union On(A, f, 1) = A /\ On(A, f, 0) \intersect On(A, f, 1) = {}
  BY DEF On, Lane
<1>4. Cardinality(On(A, f, 0) \union On(A, f, 1))
      = Cardinality(On(A, f, 0)) + Cardinality(On(A, f, 1))
        - Cardinality(On(A, f, 0) \intersect On(A, f, 1))
  BY <1>2, FS_Union DEF Lane
<1>5. Cardinality(On(A, f, 0) \intersect On(A, f, 1)) = 0
  BY <1>3, FS_EmptySet
<1>6. Cardinality(On(A, f, 0)) \in Nat /\ Cardinality(On(A, f, 1)) \in Nat
  BY <1>2 DEF Lane
<1>7. Cardinality(On(A, f, 0)) + Cardinality(On(A, f, 1)) = Cardinality(A)
  <2> DEFINE a == Cardinality(On(A, f, 0))
             b == Cardinality(On(A, f, 1))
             c == Cardinality(On(A, f, 0) \intersect On(A, f, 1))
  <2>1. Cardinality(A) = a + b - c
    BY <1>3, <1>4
  <2>2. c = 0 /\ a \in Nat /\ b \in Nat
    BY <1>5, <1>6
  <2> HIDE DEF a, b, c
  <2>3. a + b = Cardinality(A)
    BY <2>1, <2>2
  <2> QED BY <2>3 DEF a, b
<1> QED
  BY <1>2, <1>7

\* A part of a set of requests has at most as many on each lane.
LEMMA LanesShrink ==
    ASSUME NEW A, NEW f, IsFiniteSet(A), NEW B \in SUBSET A, NEW g,
           \A x \in B : g[x] = f[x]
    PROVE  /\ IsFiniteSet(B) /\ Cardinality(B) \in Nat /\ Cardinality(A) \in Nat
           /\ Cardinality(B) <= Cardinality(A)
           /\ \A l \in Lane : /\ Cardinality(On(A, f, l)) \in Nat
                              /\ Cardinality(On(B, g, l)) \in Nat
                              /\ Cardinality(On(B, g, l)) <= Cardinality(On(A, f, l))
<1>1. \A l \in Lane : On(A, f, l) \in SUBSET A /\ On(B, g, l) \in SUBSET On(A, f, l)
  BY DEF On
<1>2. \A l \in Lane : IsFiniteSet(On(A, f, l))
  BY <1>1, FS_Subset
<1>3. \A l \in Lane : /\ IsFiniteSet(On(B, g, l))
                      /\ Cardinality(On(B, g, l)) <= Cardinality(On(A, f, l))
  BY <1>1, <1>2, FS_Subset
<1>4. IsFiniteSet(B) /\ Cardinality(B) <= Cardinality(A)
  BY FS_Subset
<1> QED
  BY <1>2, <1>3, <1>4, FS_CardinalityType

\* Half of the difference, rounded down, moves to the other lane.
LEMMA LanesEven ==
    ASSUME NEW A, NEW f, NEW g, IsFiniteSet(A), \A x \in A : f[x] \in Lane,
           NEW h \in Lane, Cardinality(On(A, f, 1 - h)) <= Cardinality(On(A, f, h)),
           NEW moved \in SUBSET On(A, f, h),
           Cardinality(moved)
               = (Cardinality(On(A, f, h)) - Cardinality(On(A, f, 1 - h))) \div 2,
           \A x \in A : g[x] = IF x \in moved THEN 1 - h ELSE f[x]
    PROVE  /\ Cardinality(On(A, g, 0)) <= Cardinality(On(A, g, 1)) + 1
           /\ Cardinality(On(A, g, 1)) <= Cardinality(On(A, g, 0)) + 1
<1> DEFINE a == Cardinality(On(A, f, h))
           b == Cardinality(On(A, f, 1 - h))
           m == Cardinality(moved)
<1>0. h \in {0, 1} /\ 1 - h \in {0, 1} /\ 1 - h \in Lane
  BY DEF Lane
<1>1. /\ IsFiniteSet(On(A, f, h)) /\ IsFiniteSet(On(A, f, 1 - h))
      /\ a \in Nat /\ b \in Nat
  BY <1>0, LanesPartition
<1>2. IsFiniteSet(moved) /\ m \in Nat
  BY <1>1, FS_Subset, FS_CardinalityType
<1>3. On(A, g, h) = On(A, f, h) \ moved
  BY <1>0 DEF On
<1>4. On(A, g, 1 - h) = On(A, f, 1 - h) \union moved
  BY <1>0 DEF On
<1>5. On(A, f, h) \intersect moved = moved /\ On(A, f, 1 - h) \intersect moved = {}
  BY <1>0 DEF On
<1>6. Cardinality(On(A, f, h) \ moved) = a - m
  BY <1>1, <1>5, FS_Difference
<1>7. Cardinality(On(A, f, 1 - h) \union moved) = b + m
  <2>1. Cardinality(On(A, f, 1 - h) \union moved) = b + m - Cardinality(On(A, f, 1 - h) \intersect moved)
    BY <1>1, <1>2, FS_Union
  <2>2. Cardinality(On(A, f, 1 - h) \intersect moved) = 0
    BY <1>5, FS_EmptySet
  <2> QED
    BY <1>1, <1>2, <2>1, <2>2
<1>8. a - m <= b + m + 1 /\ b + m <= a - m + 1
  <2>1. m = (a - b) \div 2 /\ b <= a
    OBVIOUS
  <2> HIDE DEF a, b, m
  <2> QED
    BY <1>1, <1>2, <2>1
<1>9. /\ Cardinality(On(A, g, h)) <= Cardinality(On(A, g, 1 - h)) + 1
      /\ Cardinality(On(A, g, 1 - h)) <= Cardinality(On(A, g, h)) + 1
  BY <1>3, <1>4, <1>6, <1>7, <1>8
<1> QED
  BY <1>0, <1>9

-----------------------------------------------------------------------------
(* Lanes within their batch: they are even when a round starts and only      *)
(* lose requests while it runs.                                              *)

ActiveBounded == IsFiniteSet(Active) /\ Cardinality(Active) <= SLOTS

LanesBalanced ==
    at \in {"admission", "prefill"} => Load(0) <= Load(1) + 1 /\ Load(1) <= Load(0) + 1

RoomToPrefill ==
    \A r \in Request : phase[r] = "admitting" =>
        lane[r] = LighterLane /\ Cardinality(Active) < SLOTS

CountsInv == ActiveBounded /\ LanesBalanced /\ RoomToPrefill /\ LanesWithinBatch

\* Initially the slots are free.
LEMMA InitCounts == Init => CountsInv
<1> SUFFICES ASSUME Init PROVE CountsInv
  OBVIOUS
<1>1. Active = {} /\ \A r \in Request : phase[r] # "admitting"
  BY DEF Init, Active
<1>2. at = "boundary"
  BY DEF Init
<1> QED
  BY <1>1, <1>2, FS_EmptySet, SchedulerAssumption
     DEF CountsInv, ActiveBounded, LanesBalanced, RoomToPrefill, LanesWithinBatch

\* The load of a lane is the number of active requests on it.
LEMMA LoadIsOn == \A l : Load(l) = Cardinality(On(Active, lane, l))
  BY DEF Load, OnLane, On

\* The same, in the next state.
LEMMA LoadIsOnNext == \A l : Load(l)' = Cardinality(On(Active', lane', l))
  BY DEF Load, OnLane, On

\* Every active request is on a lane.
LEMMA ActiveOnLanes == PlacesInv => \A x \in Active : lane[x] \in Lane
  BY DEF PlacesInv, Types, Active

\* Nobody becomes active, leaves or changes lane.
LEMMA StayCounts ==
    ASSUME CountsInv, PlacesInv, Active' = Active,
           \A x \in Active : lane'[x] = lane[x]
    PROVE  /\ ActiveBounded' /\ LighterLane' = LighterLane
           /\ \A l \in Lane : Load(l)' = Load(l)
           /\ Load(0)' = Load(0) /\ Load(1)' = Load(1)
<1>1. \A l : On(Active', lane', l) = On(Active, lane, l)
  BY DEF On
<1>2. \A l : Load(l)' = Load(l)
  BY <1>1, LoadIsOn, LoadIsOnNext
<1> QED
  BY <1>2 DEF CountsInv, ActiveBounded, LighterLane

\* In the middle of a round requests only leave.
LEMMA LeaveCounts ==
    ASSUME CountsInv, PlacesInv, PlacesInv', Active' \in SUBSET Active,
           \A x \in Active' : lane'[x] = lane[x],
           at' \notin {"admission", "prefill"},
           at' \in {"round", "solo"} => at \in {"round", "solo"}
    PROVE  CountsInv'
<1>1. /\ IsFiniteSet(Active') /\ Cardinality(Active') <= Cardinality(Active)
      /\ Cardinality(Active') \in Nat /\ Cardinality(Active) \in Nat
      /\ \A l \in Lane : /\ Cardinality(On(Active, lane, l)) \in Nat
                         /\ Cardinality(On(Active', lane', l)) \in Nat
                         /\ Cardinality(On(Active', lane', l)) <= Cardinality(On(Active, lane, l))
  BY LanesShrink DEF CountsInv, ActiveBounded
<1>2. ActiveBounded'
  BY <1>1, SchedulerAssumption DEF CountsInv, ActiveBounded
<1>3. LanesBalanced' /\ RoomToPrefill'
  BY DEF LanesBalanced, RoomToPrefill, PlacesInv, OneAdmitting
<1>4. LanesWithinBatch'
  <2>1. \A l \in Lane : /\ Load(l) \in Nat /\ Load(l)' \in Nat /\ Load(l)' <= Load(l)
    BY <1>1, LoadIsOn, LoadIsOnNext
  <2>2. (SLOTS + 1) \div 2 \in Int
    BY SchedulerAssumption
  <2> QED
    BY <2>1, <2>2 DEF CountsInv, LanesWithinBatch
<1> QED
  BY <1>2, <1>3, <1>4 DEF CountsInv

\* Steps at which requests and lanes stay as they are.
LEMMA QuietCounts ==
    ASSUME CountsInv, PlacesInv, PlacesInv', Active' = Active,
           \A x \in Active : lane'[x] = lane[x],
           at' = at,
           \A r \in Request : phase'[r] = "admitting" =>
               phase[r] = "admitting" /\ lane'[r] = lane[r]
    PROVE  CountsInv'
<1>1. /\ ActiveBounded' /\ LighterLane' = LighterLane
      /\ \A l \in Lane : Load(l)' = Load(l)
      /\ Load(0)' = Load(0) /\ Load(1)' = Load(1)
  BY StayCounts
<1>2. LanesBalanced' /\ LanesWithinBatch'
  BY <1>1 DEF CountsInv, LanesBalanced, LanesWithinBatch
<1>3. RoomToPrefill'
  BY <1>1 DEF CountsInv, RoomToPrefill
<1> QED
  BY <1>1, <1>2, <1>3 DEF CountsInv

\* Clients do not change how many are active or admitted.
LEMMA ClientCounts ==
    ASSUME CountsInv, PlacesInv, PlacesInv', NEW r \in Request,
           Submit(r) \/ Overloaded(r) \/ Read(r) \/ Disconnect(r)
    PROVE  CountsInv'
<1>1. /\ \/ phase' = phase
         \/ /\ phase[r] = "new"
            /\ phase' = [phase EXCEPT ![r] = "gone"] \/ phase' = [phase EXCEPT ![r] = "queued"]
      /\ lane' = lane /\ at' = at
  BY DEF Submit, Overloaded, Read, Disconnect, requestVars
<1>2. Active' = Active
  BY <1>1 DEF Active, PlacesInv, Types
<1>3. \A q \in Request : phase'[q] = "admitting" => phase[q] = "admitting"
  BY <1>1 DEF PlacesInv, Types
<1> QED
  BY <1>1, <1>2, <1>3, QuietCounts

\* The start of an iteration frees the slots of whoever is over and evens out the two lanes.
LEMMA BoundaryCounts ==
    ASSUME CountsInv, PlacesInv, PlacesInv', Boundary
    PROVE  CountsInv'
<1> DEFINE kept == Active \ Over
<1>1. /\ phase' = [r \in Request |-> IF r \in Over THEN "gone" ELSE phase[r]]
      /\ at' = "admission"
  BY DEF Boundary
<1>2. Active' = kept
  BY <1>1 DEF Active, Over
<1>3. IsFiniteSet(kept) /\ Cardinality(kept) <= Cardinality(Active)
      /\ Cardinality(kept) \in Nat /\ Cardinality(Active) \in Nat
  <2>1. IsFiniteSet(Active) /\ kept \in SUBSET Active
    BY DEF CountsInv, ActiveBounded
  <2> QED
    BY <2>1, FS_Subset, FS_CardinalityType
<1>4. ActiveBounded'
  BY <1>2, <1>3, SchedulerAssumption DEF CountsInv, ActiveBounded
<1>5. PICK h \in Lane : \E moved \in SUBSET On(kept, lane, h) :
          /\ h = IF Cardinality(On(kept, lane, 1)) > Cardinality(On(kept, lane, 0)) THEN 1 ELSE 0
          /\ Cardinality(moved) = (Cardinality(On(kept, lane, h))
                                   - Cardinality(On(kept, lane, 1 - h))) \div 2
          /\ lane' = [r \in Request |-> IF r \in moved THEN 1 - h
                                        ELSE IF r \in Over THEN 0 ELSE lane[r]]
  BY BoundaryMoves
<1>6. PICK moved \in SUBSET On(kept, lane, h) :
          /\ Cardinality(moved) = (Cardinality(On(kept, lane, h))
                                   - Cardinality(On(kept, lane, 1 - h))) \div 2
          /\ lane' = [r \in Request |-> IF r \in moved THEN 1 - h
                                        ELSE IF r \in Over THEN 0 ELSE lane[r]]
  BY <1>5
<1>7. \A x \in kept : x \in Request /\ x \notin Over /\ lane[x] \in Lane
  BY ActiveOnLanes DEF Active
<1>8. \A x \in kept : lane'[x] = IF x \in moved THEN 1 - h ELSE lane[x]
  BY <1>6, <1>7
<1>9. Cardinality(On(kept, lane, 1 - h)) <= Cardinality(On(kept, lane, h))
  <2>1. \A l \in Lane : Cardinality(On(kept, lane, l)) \in Nat
    BY <1>3, <1>7, LanesPartition
  <2>2. Cardinality(On(kept, lane, 0)) \in Nat /\ Cardinality(On(kept, lane, 1)) \in Nat
    BY <2>1 DEF Lane
  <2>3. h = IF Cardinality(On(kept, lane, 1)) > Cardinality(On(kept, lane, 0)) THEN 1 ELSE 0
    BY <1>5
  <2>4. CASE h = 1
    BY <2>2, <2>3, <2>4
  <2>5. CASE h = 0
    BY <2>2, <2>3, <2>5
  <2> QED
    BY <2>4, <2>5 DEF Lane
<1> HIDE DEF kept
<1>10. /\ Cardinality(On(kept, lane', 0)) <= Cardinality(On(kept, lane', 1)) + 1
       /\ Cardinality(On(kept, lane', 1)) <= Cardinality(On(kept, lane', 0)) + 1
  BY <1>3, <1>6, <1>7, <1>8, <1>9, LanesEven
<1>11. LanesBalanced'
  BY <1>2, <1>10, LoadIsOnNext DEF LanesBalanced
<1>12. RoomToPrefill' /\ LanesWithinBatch'
  BY <1>1 DEF PlacesInv, OneAdmitting, RoomToPrefill, LanesWithinBatch
<1> QED
  BY <1>4, <1>11, <1>12 DEF CountsInv

\* Admission fills a slot only when one is free.
LEMMA AdmissionCounts ==
    ASSUME CountsInv, PlacesInv, PlacesInv', AdmitCandidate
    PROVE  CountsInv'
<1> DEFINE r == Candidate
<1>1. /\ at = "admission"
      /\ r \in Request /\ phase[r] = "queued" /\ FreeSlot
      /\ \/ phase' = phase /\ lane' = lane /\ at' = at
         \/ phase' = [phase EXCEPT ![r] = "gone"] /\ lane' = lane /\ at' = at
         \/ /\ phase' = [phase EXCEPT ![r] = "admitting"]
            /\ lane' = [lane EXCEPT ![r] = LighterLane]
            /\ at' = "prefill"
  <2>1. at = "admission" /\ Candidate # NoRequest
    BY DEF AdmitCandidate
  <2>2. queue' = IF pending = NoRequest THEN Tail(queue) ELSE queue
    BY DEF AdmitCandidate, DropCandidate, Admit, DoesNotFit, TakeCandidate
  <2>3. r \in Request /\ phase[r] = "queued" /\ FreeSlot
    BY <2>1, <2>2, CandidateIsQueued
  <2>4. \/ phase' = phase /\ lane' = lane /\ at' = at
        \/ phase' = [phase EXCEPT ![r] = "gone"] /\ lane' = lane /\ at' = at
        \/ /\ phase' = [phase EXCEPT ![r] = "admitting"]
           /\ lane' = [lane EXCEPT ![r] = LighterLane]
           /\ at' = "prefill"
    BY DEF AdmitCandidate, DropCandidate, Admit, DoesNotFit
  <2> QED
    BY <2>1, <2>3, <2>4
<1> HIDE DEF r
<1>2. Active' = Active /\ \A x \in Active : lane'[x] = lane[x]
  BY <1>1 DEF Active, PlacesInv, Types
<1>3. CASE at' = at
  <2>1. \A q \in Request : phase'[q] = "admitting" => phase[q] = "admitting" /\ lane'[q] = lane[q]
    BY <1>1, <1>3 DEF PlacesInv, Types
  <2> QED
    BY <1>2, <1>3, <2>1, QuietCounts
<1>4. CASE /\ phase' = [phase EXCEPT ![r] = "admitting"]
           /\ lane' = [lane EXCEPT ![r] = LighterLane]
           /\ at' = "prefill"
  <2>1. /\ ActiveBounded' /\ LighterLane' = LighterLane
        /\ \A l \in Lane : Load(l)' = Load(l)
        /\ Load(0)' = Load(0) /\ Load(1)' = Load(1)
    BY <1>2, StayCounts
  <2>2. LanesBalanced' /\ LanesWithinBatch'
    BY <1>1, <1>4, <2>1 DEF CountsInv, LanesBalanced, LanesWithinBatch
  <2>3. \A q \in Request : phase'[q] = "admitting" => q = r
    BY <1>1, <1>4 DEF PlacesInv, Types, OneAdmitting
  <2>4. RoomToPrefill'
    BY <1>1, <1>2, <1>4, <2>1, <2>3 DEF RoomToPrefill, FreeSlot, PlacesInv, Types
  <2> QED
    BY <2>1, <2>2, <2>4 DEF CountsInv
<1> QED
  BY <1>1, <1>3, <1>4

\* A prefilled request goes to the lane with fewer requests.
LEMMA PrefillCounts ==
    ASSUME CountsInv, PlacesInv, PlacesInv', Prefill
    PROVE  CountsInv'
<1>1. PICK r \in Request :
        /\ phase[r] = "admitting"
        /\ \/ phase' = [phase EXCEPT ![r] = "gone"] /\ lane' = [lane EXCEPT ![r] = 0]
           \/ phase' = [phase EXCEPT ![r] = "active"] /\ lane' = lane
        /\ at = "prefill" /\ at' = "admission"
  BY DEF Prefill, PrefillFailed, Prefilled
<1>2. /\ r \notin Active /\ lane[r] = LighterLane /\ Cardinality(Active) < SLOTS
      /\ IsFiniteSet(Active)
  BY <1>1 DEF Active, CountsInv, RoomToPrefill, ActiveBounded
<1>3. RoomToPrefill' /\ LanesWithinBatch'
  BY <1>1 DEF PlacesInv, OneAdmitting, RoomToPrefill, LanesWithinBatch
<1>4. CASE phase' = [phase EXCEPT ![r] = "gone"] /\ lane' = [lane EXCEPT ![r] = 0]
  <2>1. Active' = Active /\ \A x \in Active : lane'[x] = lane[x]
    BY <1>1, <1>2, <1>4 DEF Active, PlacesInv, Types
  <2>2. /\ ActiveBounded'
        /\ Load(0)' = Load(0) /\ Load(1)' = Load(1)
    BY <2>1, StayCounts
  <2>3. LanesBalanced'
    BY <1>1, <2>2 DEF CountsInv, LanesBalanced
  <2> QED
    BY <1>3, <2>2, <2>3 DEF CountsInv
<1>5. CASE phase' = [phase EXCEPT ![r] = "active"] /\ lane' = lane
  <2> DEFINE l == LighterLane
  <2>1. Active' = Active \union {r}
    BY <1>1, <1>5 DEF Active, PlacesInv, Types
  <2>2. /\ IsFiniteSet(Active') /\ Cardinality(Active') = Cardinality(Active) + 1
        /\ Cardinality(Active) \in Nat
    BY <1>2, <2>1, FS_AddElement, FS_CardinalityType
  <2>3. ActiveBounded'
    BY <1>2, <2>2, SchedulerAssumption DEF ActiveBounded
  <2>4. l \in Lane /\ 1 - l \in Lane
    BY DEF LighterLane, Lane
  <2>5. /\ \A k \in Lane : /\ IsFiniteSet(On(Active, lane, k))
                           /\ Cardinality(On(Active, lane, k)) \in Nat
    BY <1>2, ActiveOnLanes, LanesPartition
  <2>6. On(Active', lane', l) = On(Active, lane, l) \union {r} /\ r \notin On(Active, lane, l)
    BY <1>2, <1>5, <2>1 DEF On
  <2>7. On(Active', lane', 1 - l) = On(Active, lane, 1 - l)
    <3>1. l # 1 - l
      BY <2>4 DEF Lane
    <3> QED
      BY <1>2, <1>5, <2>1, <3>1 DEF On
  <2>8. Cardinality(On(Active', lane', l)) = Cardinality(On(Active, lane, l)) + 1
    BY <2>4, <2>5, <2>6, FS_AddElement
  <2>9. /\ Load(l) \in Nat /\ Load(1 - l) \in Nat
        /\ Cardinality(On(Active', lane', l)) = Load(l) + 1
        /\ Cardinality(On(Active', lane', 1 - l)) = Load(1 - l)
    BY <2>4, <2>5, <2>7, <2>8, LoadIsOn
  <2>10. Load(l) <= Load(1 - l) /\ Load(1 - l) <= Load(l) + 1
    <3>1. Load(0) <= Load(1) + 1 /\ Load(1) <= Load(0) + 1
      BY <1>1 DEF CountsInv, LanesBalanced
    <3>2. l = IF Load(1) < Load(0) THEN 1 ELSE 0
      BY DEF LighterLane
    <3>3. Load(0) \in Nat /\ Load(1) \in Nat
      BY <2>5, LoadIsOn DEF Lane
    <3> HIDE DEF l
    <3>4. CASE l = 1
      BY <3>1, <3>2, <3>3, <3>4
    <3>5. CASE l = 0
      BY <3>1, <3>2, <3>3, <3>5
    <3> QED
      BY <2>4, <3>4, <3>5 DEF Lane
  <2>11. LanesBalanced'
    <3>1. Cardinality(On(Active', lane', l)) <= Cardinality(On(Active', lane', 1 - l)) + 1
          /\ Cardinality(On(Active', lane', 1 - l)) <= Cardinality(On(Active', lane', l)) + 1
      BY <2>9, <2>10
    <3>2. /\ Cardinality(On(Active', lane', 0)) <= Cardinality(On(Active', lane', 1)) + 1
          /\ Cardinality(On(Active', lane', 1)) <= Cardinality(On(Active', lane', 0)) + 1
      BY <2>4, <3>1 DEF Lane
    <3> QED
      BY <3>2, LoadIsOnNext DEF LanesBalanced
  <2> QED
    BY <1>3, <2>3, <2>11 DEF CountsInv
<1> QED
  BY <1>1, <1>4, <1>5

\* Two lanes that differ by at most one have at most half the slots each, rounded up.
LEMMA HalfTheSlots ==
    ASSUME NEW a \in Nat, NEW b \in Nat, NEW n \in Nat, a + b <= n, a <= b + 1, b <= a + 1
    PROVE  a <= (n + 1) \div 2 /\ b <= (n + 1) \div 2
  OBVIOUS

\* Starting a round takes nobody in.
LEMMA DispatchCounts ==
    ASSUME CountsInv, PlacesInv, PlacesInv', Dispatch
    PROVE  CountsInv'
<1>1. /\ phase' = phase /\ lane' = lane /\ at = "admission"
      /\ at' \in {"stopped", "boundary", "solo", "round"}
  BY DEF Dispatch
<1>2. Active' = Active
  BY <1>1 DEF Active
<1>3. /\ ActiveBounded'
      /\ \A l \in Lane : Load(l)' = Load(l)
  BY <1>1, <1>2, StayCounts
<1>4. LanesBalanced' /\ RoomToPrefill'
  BY <1>1 DEF PlacesInv, OneAdmitting, LanesBalanced, RoomToPrefill
<1>5. \A l \in Lane : Load(l) <= (SLOTS + 1) \div 2
  <2>1. /\ Load(0) \in Nat /\ Load(1) \in Nat
        /\ Load(0) + Load(1) = Cardinality(Active)
    <3>1. IsFiniteSet(Active) /\ \A x \in Active : lane[x] \in Lane
      BY ActiveOnLanes DEF CountsInv, ActiveBounded
    <3> QED
      BY <3>1, LanesPartition, LoadIsOn DEF Lane
  <2>2. Load(0) <= Load(1) + 1 /\ Load(1) <= Load(0) + 1 /\ Cardinality(Active) <= SLOTS
    BY <1>1 DEF CountsInv, LanesBalanced, ActiveBounded
  <2>3. Load(0) <= (SLOTS + 1) \div 2 /\ Load(1) <= (SLOTS + 1) \div 2
    BY <2>1, <2>2, HalfTheSlots, SchedulerAssumption
  <2> QED
    BY <2>3 DEF Lane
<1>6. LanesWithinBatch'
  BY <1>3, <1>5 DEF LanesWithinBatch
<1> QED
  BY <1>3, <1>4, <1>6 DEF CountsInv

\* A lane's steps only take requests out.
LEMMA LaneCounts ==
    ASSUME CountsInv, PlacesInv, PlacesInv', NEW l \in Lane, LaneStep(l)
    PROVE  CountsInv'
<1>1. at \in {"round", "solo"}
  BY LaneStepInRound
<1>2. at' = at
  BY DEF LaneStep, LaneStops, LaneRetires, LaneReleases, LaneEnter, LaneVerify, LaneDeliver
<1>3. CASE LaneRetires(l) \/ LaneReleases(l)
  <2>1. LaneMoves(l)
    BY <1>3, RetireAndReleaseMove
  <2>2. Active' \in SUBSET Active /\ \A x \in Active' : lane'[x] = lane[x]
    BY <2>1 DEF LaneMoves, Active
  <2> QED
    BY <1>1, <1>2, <2>2, LeaveCounts
<1>4. CASE LaneStops(l) \/ LaneEnter(l) \/ LaneVerify(l) \/ LaneDeliver(l)
  <2>1. phase' = phase /\ lane' = lane
    BY <1>4 DEF LaneStops, LaneEnter, LaneVerify, LaneDeliver, requestVars
  <2>2. Active' \in SUBSET Active /\ \A x \in Active' : lane'[x] = lane[x]
    BY <2>1 DEF Active
  <2> QED
    BY <1>1, <1>2, <2>2, LeaveCounts
<1> QED
  BY <1>3, <1>4 DEF LaneStep

\* Ending or failing a round moves nobody.
LEMMA JoinAndFailCounts ==
    ASSUME CountsInv, PlacesInv, PlacesInv', Join \/ FailRequest
    PROVE  CountsInv'
<1>1. phase' = phase /\ lane' = lane /\ at' \in {"failing", "boundary"}
  BY DEF Join, FailRequest, requestVars
<1>2. Active' \in SUBSET Active /\ \A x \in Active' : lane'[x] = lane[x]
  BY <1>1 DEF Active
<1> QED
  BY <1>1, <1>2, LeaveCounts

\* Every step keeps the counts.
LEMMA StepKeepsCounts == PlacesInv /\ PlacesInv' /\ CountsInv /\ [Next]_vars => CountsInv'
<1> SUFFICES ASSUME PlacesInv, PlacesInv', CountsInv, [Next]_vars
             PROVE  CountsInv'
  OBVIOUS
<1>1. ASSUME NEW r \in Request, Submit(r) \/ Overloaded(r) \/ Read(r) \/ Disconnect(r)
      PROVE  CountsInv'
  BY <1>1, ClientCounts
<1>2. CASE CloseDoor \/ UNCHANGED vars
  <2>1. phase' = phase /\ lane' = lane /\ at' = at
    BY <1>2 DEF CloseDoor, vars, requestVars
  <2>2. Active' = Active
    BY <2>1 DEF Active
  <2> QED
    BY <2>1, <2>2, QuietCounts
<1>3. CASE ServeStep
  BY <1>3, BoundaryCounts, AdmissionCounts, PrefillCounts, DispatchCounts, JoinAndFailCounts
     DEF ServeStep
<1>4. ASSUME NEW l \in Lane, LaneStep(l)
      PROVE  CountsInv'
  BY <1>4, LaneCounts
<1> QED
  BY <1>1, <1>2, <1>3, <1>4 DEF Next

\* The places and the counts hold in every state of the loop.
LEMMA PlacesAndCounts == Spec => [](PlacesInv /\ CountsInv)
<1>1. PlacesInv /\ CountsInv /\ [Next]_vars => (PlacesInv /\ CountsInv)'
  BY StepKeepsPlaces, StepKeepsCounts
<1> QED
  BY InitPlaces, InitCounts, <1>1, PTL DEF Spec

\* No round starts or goes on with more requests on a lane than half the slots,
\* rounded up, however requests were admitted, retired, moved and failed.
THEOREM BatchesAreBounded == Spec => []LanesWithinBatch
<1>1. CountsInv => LanesWithinBatch
  BY DEF CountsInv
<1> QED
  BY <1>1, PlacesAndCounts, PTL

-----------------------------------------------------------------------------
(* Drains: what woke the lanes is still there when the loop admits.          *)

PendingFits ==
    /\ blocked_at \in Nat
    /\ pending # NoRequest => Cardinality(Active) <= blocked_at /\ blocked_at < SLOTS

NothingDuringPrefill == at = "prefill" => pending = NoRequest /\ drain = "no"

WakeHolds == drain = "wake" => Wake

WakeInv == PendingFits /\ NothingDuringPrefill /\ WakeHolds

\* Initially nobody has to be woken.
LEMMA InitWake == Init => WakeInv
  BY DEF Init, WakeInv, PendingFits, NothingDuringPrefill, WakeHolds

\* A blocked request leaves a slot free, so that a wake is always admitted.
LEMMA WakeIsAdmitted ==
    ASSUME WakeInv, PlacesInv, CountsInv, Wake
    PROVE  ~NothingToAdmit /\ FreeSlot
<1>1. /\ Cardinality(Active) \in Nat /\ SLOTS \in Nat /\ blocked_at \in Nat
      /\ pending # NoRequest => Cardinality(Active) <= blocked_at /\ blocked_at < SLOTS
  BY FS_CardinalityType, SchedulerAssumption DEF CountsInv, ActiveBounded, WakeInv, PendingFits
<1>2. FreeSlot
  BY <1>1 DEF Wake, FreeSlot
<1>3. ~Blocked
  BY <1>1 DEF Wake, Blocked
<1> QED
  BY <1>2, <1>3 DEF NothingToAdmit, Wake

\* Steps that let nobody become active and take nobody from the line.
LEMMA QuietWake ==
    ASSUME WakeInv, PlacesInv, CountsInv,
           Active' \in SUBSET Active, pending' = pending, blocked_at' = blocked_at,
           pending # NoRequest /\ Gone(pending) => client'[pending] = "left",
           queue # <<>> => queue' # <<>>,
           drain' = "wake" => drain = "wake" \/ Wake,
           at' = "prefill" => at = "prefill" /\ drain' = drain
    PROVE  WakeInv'
<1>1. /\ Cardinality(Active) \in Nat /\ Cardinality(Active') \in Nat
      /\ Cardinality(Active') <= Cardinality(Active)
      /\ SLOTS \in Nat /\ blocked_at \in Nat
  BY FS_Subset, FS_CardinalityType, SchedulerAssumption
     DEF CountsInv, ActiveBounded, WakeInv, PendingFits
<1>2. PendingFits' /\ NothingDuringPrefill'
  BY <1>1 DEF WakeInv, PendingFits, NothingDuringPrefill
<1>3. WakeHolds'
  <2> SUFFICES ASSUME drain' = "wake" PROVE Wake'
    BY DEF WakeHolds
  <2>1. Wake
    BY DEF WakeInv, WakeHolds
  <2>2. FreeSlot /\ FreeSlot'
    BY <1>1, <2>1, WakeIsAdmitted DEF FreeSlot
  <2>3. CASE pending # NoRequest /\ Gone(pending)
    BY <2>3 DEF Wake, Gone
  <2>4. CASE pending # NoRequest /\ Cardinality(Active) < blocked_at
    BY <1>1, <2>2, <2>4 DEF Wake
  <2>5. CASE pending = NoRequest /\ queue # <<>>
    BY <2>2, <2>5 DEF Wake
  <2> QED
    BY <2>1, <2>3, <2>4, <2>5 DEF Wake
<1> QED
  BY <1>2, <1>3 DEF WakeInv

\* Admission keeps what the wake-ups promise.
LEMMA AdmissionWake ==
    ASSUME WakeInv, PlacesInv, CountsInv, AdmitCandidate
    PROVE  WakeInv'
<1> DEFINE r == Candidate
<1>1. /\ drain' = "no" /\ at = "admission"
      /\ \/ pending' = NoRequest /\ blocked_at' = 0
         \/ /\ pending' = r /\ blocked_at' = Cardinality(Active)
            /\ phase' = phase /\ at' = at
  BY DEF AdmitCandidate, DropCandidate, Admit, DoesNotFit, TakeCandidate
<1>2. FreeSlot
  BY DEF AdmitCandidate, Candidate
<1>3. PendingFits'
  <2>1. CASE pending' = NoRequest /\ blocked_at' = 0
    BY <2>1 DEF PendingFits
  <2>2. CASE blocked_at' = Cardinality(Active) /\ phase' = phase
    <3>1. Active' = Active
      BY <2>2 DEF Active
    <3>2. Cardinality(Active) \in Nat /\ Cardinality(Active) < SLOTS
      BY <1>2, FS_CardinalityType DEF FreeSlot, CountsInv, ActiveBounded
    <3> QED
      BY <2>2, <3>1, <3>2 DEF PendingFits
  <2> QED
    BY <1>1, <2>1, <2>2
<1>4. NothingDuringPrefill' /\ WakeHolds'
  BY <1>1 DEF NothingDuringPrefill, WakeHolds
<1> QED
  BY <1>3, <1>4 DEF WakeInv

\* A prefill keeps what the wake-ups promise.
LEMMA PrefillWake ==
    ASSUME WakeInv, PlacesInv, CountsInv, Prefill
    PROVE  WakeInv'
<1>1. /\ at = "prefill" /\ at' = "admission"
      /\ pending' = pending /\ blocked_at' = blocked_at /\ drain' = drain
  BY DEF Prefill, PrefillFailed, Prefilled, queueVars, laneVars
<1>2. pending = NoRequest /\ drain = "no"
  BY <1>1 DEF WakeInv, NothingDuringPrefill
<1> QED
  BY <1>1, <1>2 DEF WakeInv, PendingFits, NothingDuringPrefill, WakeHolds

\* Who has left stays away.
LEMMA ClientsStayAway ==
    ASSUME PlacesInv, pending # NoRequest, Gone(pending),
           \/ client' = client
           \/ \E r : Dismiss(r)
           \/ \E r : client' = [client EXCEPT ![r] = "left"]
           \/ \E r : \E terminal : Tell(r, terminal)
           \/ \E over : Dropped(over)
    PROVE  client'[pending] = "left"
<1>1. pending \in Request /\ DOMAIN client = Request /\ client[pending] = "left"
  BY DEF PlacesInv, Types, Gone
<1> QED
  BY <1>1 DEF Dismiss, Tell, Dropped

\* What a client does keeps what the wake-ups promise.
LEMMA ClientWake ==
    ASSUME WakeInv, PlacesInv, CountsInv, NEW r \in Request,
           Submit(r) \/ Overloaded(r) \/ Read(r) \/ Disconnect(r)
    PROVE  WakeInv'
<1>1. /\ \/ phase' = phase
         \/ /\ phase[r] = "new"
            /\ phase' = [phase EXCEPT ![r] = "gone"] \/ phase' = [phase EXCEPT ![r] = "queued"]
      /\ at' = at /\ pending' = pending /\ blocked_at' = blocked_at /\ drain' = drain
      /\ queue' = queue \/ queue' = Append(queue, r)
      /\ \/ client' = client
         \/ Dismiss(r)
         \/ client' = [client EXCEPT ![r] = "left"]
  BY DEF Submit, Overloaded, Read, Disconnect, requestVars, queueVars, laneVars, clientVars
<1>2. Active' \in SUBSET Active
  BY <1>1 DEF Active, PlacesInv, Types
<1>3. queue # <<>> => queue' # <<>>
  <2>1. queue \in Seq(Request)
    BY DEF PlacesInv, Types
  <2> QED
    BY <1>1, <2>1
<1>4. pending # NoRequest /\ Gone(pending) => client'[pending] = "left"
  BY <1>1, ClientsStayAway
<1> QED
  BY <1>1, <1>2, <1>3, <1>4, QuietWake

\* The start of an iteration keeps what the wake-ups promise.
LEMMA BoundaryWake ==
    ASSUME WakeInv, PlacesInv, CountsInv, Boundary
    PROVE  WakeInv'
<1>1. /\ phase' = [r \in Request |-> IF r \in Over THEN "gone" ELSE phase[r]]
      /\ at' = "admission" /\ pending' = pending /\ blocked_at' = blocked_at
      /\ drain' = drain /\ queue' = queue
      /\ Dropped(Over)
  BY DEF Boundary, queueVars, laneVars
<1>2. Active' \in SUBSET Active
  BY <1>1 DEF Active
<1>3. pending # NoRequest /\ Gone(pending) => client'[pending] = "left"
  BY <1>1, ClientsStayAway
<1> QED
  BY <1>1, <1>2, <1>3, QuietWake

\* Starting, ending and failing a round keep what the wake-ups promise.
LEMMA RoundWake ==
    ASSUME WakeInv, PlacesInv, CountsInv, Dispatch \/ Join \/ FailRequest
    PROVE  WakeInv'
<1>1. /\ phase' = phase /\ at' # "prefill"
      /\ pending' = pending /\ blocked_at' = blocked_at /\ queue' = queue
      /\ drain' = drain \/ drain' = "no"
      /\ client' = client \/ \E r : Tell(r, TRUE)
  BY DEF Dispatch, Join, FailRequest, queueVars, laneVars, clientVars, requestVars
<1>2. Active' \in SUBSET Active
  BY <1>1 DEF Active
<1>3. pending # NoRequest /\ Gone(pending) => client'[pending] = "left"
  BY <1>1, ClientsStayAway
<1> QED
  BY <1>1, <1>2, <1>3, QuietWake

\* A lane's steps keep what the wake-ups promise.
LEMMA LaneWake ==
    ASSUME WakeInv, PlacesInv, CountsInv, NEW l \in Lane, LaneStep(l)
    PROVE  WakeInv'
<1>1. /\ pending' = pending /\ blocked_at' = blocked_at /\ queue' = queue /\ at' = at
      /\ drain' = drain \/ drain' = "error" \/ (drain' = "wake" /\ Wake)
      /\ \/ client' = client
         \/ \E r : \E terminal : Tell(r, terminal)
         \/ \E over : Dropped(over)
      /\ phase' = phase \/ LaneRetires(l) \/ LaneReleases(l)
  <2>1. CASE LaneStops(l)
    BY <2>1 DEF LaneStops, queueVars, clientVars, requestVars
  <2>2. CASE LaneRetires(l)
    BY <2>2 DEF LaneRetires, queueVars, clientVars
  <2>3. CASE LaneReleases(l)
    BY <2>3 DEF LaneReleases, queueVars
  <2>4. CASE LaneEnter(l)
    BY <2>4 DEF LaneEnter, queueVars, clientVars, requestVars
  <2>5. CASE LaneVerify(l)
    BY <2>5 DEF LaneVerify, LaneFails, LaneCommits, queueVars, clientVars
  <2>6. CASE LaneDeliver(l)
    BY <2>6 DEF LaneDeliver, queueVars
  <2> QED
    BY <2>1, <2>2, <2>3, <2>4, <2>5, <2>6 DEF LaneStep
<1>2. Active' \in SUBSET Active
  <2>1. CASE phase' = phase
    BY <2>1 DEF Active
  <2>2. CASE LaneRetires(l) \/ LaneReleases(l)
    BY <2>2, RetireAndReleaseMove DEF LaneMoves, Active
  <2> QED
    BY <1>1, <2>1, <2>2
<1>3. pending # NoRequest /\ Gone(pending) => client'[pending] = "left"
  BY <1>1, ClientsStayAway
<1>4. at \in {"round", "solo"}
  BY LaneStepInRound
<1> QED
  BY <1>1, <1>2, <1>3, <1>4, QuietWake

\* Every step keeps what the wake-ups promise.
LEMMA StepKeepsWake == PlacesInv /\ CountsInv /\ WakeInv /\ [Next]_vars => WakeInv'
<1> SUFFICES ASSUME PlacesInv, CountsInv, WakeInv, [Next]_vars
             PROVE  WakeInv'
  OBVIOUS
<1>1. ASSUME NEW r \in Request, Submit(r) \/ Overloaded(r) \/ Read(r) \/ Disconnect(r)
      PROVE  WakeInv'
  BY <1>1, ClientWake
<1>2. CASE CloseDoor \/ UNCHANGED vars
  <2>1. /\ phase' = phase /\ at' = at /\ pending' = pending /\ blocked_at' = blocked_at
        /\ queue' = queue /\ drain' = drain /\ client' = client
    BY <1>2 DEF CloseDoor, vars, queueVars, requestVars, laneVars, clientVars
  <2>2. Active' \in SUBSET Active
    BY <2>1 DEF Active
  <2> QED
    BY <2>1, <2>2, QuietWake DEF Gone
<1>3. CASE ServeStep
  BY <1>3, BoundaryWake, AdmissionWake, PrefillWake, RoundWake DEF ServeStep
<1>4. ASSUME NEW l \in Lane, LaneStep(l)
      PROVE  WakeInv'
  BY <1>4, LaneWake
<1> QED
  BY <1>1, <1>2, <1>3, <1>4 DEF Next

\* Only admitting or dispatching ends the admission loop.
LEMMA AdmissionEnds ==
    ASSUME PlacesInv, CountsInv, WakeInv, [Next]_vars
    PROVE  at = "admission" /\ at' # "admission" => at' = "prefill" \/ drain # "wake"
<1> SUFFICES ASSUME at = "admission", at' # "admission", at' # "prefill"
             PROVE  drain # "wake"
  OBVIOUS
<1>1. \A l \in Lane : ~LaneStep(l)
  BY LaneStepInRound
<1>2. Dispatch
  BY <1>1 DEF Next, ServeStep, Submit, Overloaded, Read, Disconnect, CloseDoor, Boundary,
     AdmitCandidate, DropCandidate, TakeCandidate, Admit, DoesNotFit, Prefill, PrefillFailed,
     Prefilled, Join, FailRequest, vars
<1>3. NothingToAdmit
  BY <1>2 DEF Dispatch
<1> QED
  BY <1>3, WakeIsAdmitted DEF WakeInv, WakeHolds

\* Lanes that stopped for admission were not stopped for nothing: the loop has
\* taken a request before the next round starts (admission.rs, Wake).
THEOREM DrainsAreNotForNothing == Spec => DrainsAdmit
<1>1. WakeInv /\ PlacesInv /\ CountsInv /\ [Next]_vars => WakeInv'
  BY StepKeepsWake
<1>2. PlacesInv /\ CountsInv /\ WakeInv /\ [Next]_vars
      => (at = "admission" /\ at' # "admission" => at' = "prefill" \/ drain # "wake")
  BY AdmissionEnds
<1> QED
  BY <1>1, <1>2, InitWake, PlacesAndCounts, PTL DEF Spec, DrainsAdmit

-----------------------------------------------------------------------------
(***************************************************************************)
(* The line its clients see.  A lane has at most one retiring request, and *)
(* only while it waits for the snapshot of its turn.                       *)
(***************************************************************************)
RetiringInv ==
    /\ \A r \in Request : phase[r] = "retiring" => lane_at[lane[r]] = "retain"
    /\ \A r, s \in Request :
          phase[r] = "retiring" /\ phase[s] = "retiring" /\ lane[r] = lane[s] => r = s

NoneRetiring == \A r \in Request : phase[r] # "retiring"

\* When no lane is retaining prefixes nobody is retiring.
LEMMA IdleRetiring ==
    ASSUME PlacesInv, RetiringInv, \A l \in Lane : lane_at[l] # "retain"
    PROVE  NoneRetiring
  BY DEF PlacesInv, Types, RetiringInv, NoneRetiring

\* Nobody starts to retire and no lane that waits goes on.
LEMMA QuietRetiring ==
    ASSUME RetiringInv, PlacesInv,
           \A r \in Request : phase'[r] = "retiring" =>
               phase[r] = "retiring" /\ lane'[r] = lane[r],
           \A l \in Lane : lane_at[l] = "retain" => lane_at'[l] = "retain"
    PROVE  RetiringInv'
  BY DEF RetiringInv, PlacesInv, Types

\* The serve thread's steps keep every retiring request on its lane's list.
LEMMA ServeRetiring ==
    ASSUME RetiringInv, PlacesInv, ServeStep
    PROVE  RetiringInv'
<1>0. phase \in [Request -> Phase]
  BY DEF PlacesInv, Types
<1>1. CASE Boundary
  <2>1. NoneRetiring
    BY <1>1, IdleRetiring DEF Boundary, PlacesInv, LanesIdle
  <2>2. \A r \in Request : phase'[r] # "retiring"
    BY <1>1, <2>1 DEF Boundary, NoneRetiring
  <2> QED BY <2>2 DEF RetiringInv
<1>2. CASE AdmitCandidate
  <2>1. NoneRetiring
    BY <1>2, IdleRetiring DEF AdmitCandidate, PlacesInv, LanesIdle
  <2>2. phase' = phase \/ \E r : \E p \in {"gone", "admitting"} : phase' = [phase EXCEPT ![r] = p]
    <3>1. ASSUME DropCandidate(Candidate) PROVE <2>2
      BY <3>1 DEF DropCandidate
    <3>2. ASSUME NEW c, Admit(Candidate, c) PROVE <2>2
      BY <3>2 DEF Admit
    <3>3. ASSUME NEW c, DoesNotFit(Candidate, c) PROVE <2>2
      BY <3>3 DEF DoesNotFit
    <3> QED BY <1>2, <3>1, <3>2, <3>3 DEF AdmitCandidate
  <2>3. \A r \in Request : phase'[r] # "retiring"
    BY <1>0, <2>1, <2>2 DEF NoneRetiring
  <2> QED BY <2>3 DEF RetiringInv
<1>3. CASE Prefill
  <2>1. NoneRetiring
    BY <1>3, IdleRetiring DEF Prefill, PlacesInv, LanesIdle
  <2>2. \E r : \E p \in {"gone", "active"} : phase' = [phase EXCEPT ![r] = p]
    BY <1>3 DEF Prefill, PrefillFailed, Prefilled
  <2>3. \A r \in Request : phase'[r] # "retiring"
    BY <1>0, <2>1, <2>2 DEF NoneRetiring
  <2> QED BY <2>3 DEF RetiringInv
<1>4. CASE Dispatch
  <2>1. NoneRetiring
    BY <1>4, IdleRetiring DEF Dispatch, PlacesInv, LanesIdle
  <2> QED BY <1>4, <2>1 DEF Dispatch, RetiringInv, NoneRetiring
<1>5. CASE Join
  <2>1. NoneRetiring
    BY <1>5, IdleRetiring DEF Join
  <2> QED BY <1>5, <2>1 DEF Join, RetiringInv, NoneRetiring, requestVars
<1>6. CASE FailRequest
  BY <1>6, QuietRetiring DEF FailRequest
<1> QED BY <1>1, <1>2, <1>3, <1>4, <1>5, <1>6 DEF ServeStep

\* A lane's steps keep every retiring request on the lane's list until it is released.
LEMMA LaneRetiring ==
    ASSUME RetiringInv, PlacesInv, NEW l \in Lane, LaneStep(l)
    PROVE  RetiringInv'
<1>0. /\ phase \in [Request -> Phase] /\ lane \in [Request -> Lane]
      /\ DOMAIN lane_at = Lane
  BY DEF PlacesInv, Types
<1>1. CASE LaneStops(l)
  BY <1>0, <1>1, QuietRetiring DEF LaneStops, requestVars
<1>2. CASE LaneEnter(l)
  <2>1. phase' = phase /\ lane' = lane /\ lane_at[l] # "retain"
        /\ \E step : lane_at' = [lane_at EXCEPT ![l] = step]
    BY <1>2 DEF LaneEnter, requestVars
  <2> QED BY <1>0, <2>1, QuietRetiring
<1>3. CASE LaneVerify(l)
  <2>1. phase' = phase /\ lane' = lane /\ lane_at[l] # "retain"
        /\ \E step : lane_at' = [lane_at EXCEPT ![l] = step]
    BY <1>3 DEF LaneVerify, LaneFails, LaneCommits
  <2> QED BY <1>0, <2>1, QuietRetiring
<1>4. CASE LaneDeliver(l)
  <2>1. phase' = phase /\ lane' = lane /\ lane_at[l] # "retain"
        /\ \E step : lane_at' = [lane_at EXCEPT ![l] = step]
    BY <1>4 DEF LaneDeliver
  <2> QED BY <1>0, <2>1, QuietRetiring
<1>5. ASSUME NEW over, NEW before, RetireFrom(l, over, before),
             over \subseteq Request, DOMAIN before = Request,
             \A r \in Request : before[r] = "retiring" =>
                 phase[r] = "retiring" /\ lane[r] # l,
             \A r \in Request : phase[r] = "retiring" => lane'[r] = lane[r] \/ before[r] # "retiring",
             \A r \in over : lane'[r] = l
      PROVE  RetiringInv'
  <2>1. CASE over = {}
    <3>1. phase' = before /\ lane_at' = [lane_at EXCEPT ![l] = "enter"]
      BY <1>5, <2>1 DEF RetireFrom
    <3> QED BY <1>0, <1>5, <3>1 DEF RetiringInv
  <2>2. CASE over # {}
    <3>1. PICK r \in over : /\ phase' = [before EXCEPT ![r] = "retiring"]
                            /\ lane_at' = [lane_at EXCEPT ![l] = "retain"]
      BY <1>5, <2>2 DEF RetireFrom
    <3>2. \A q \in Request : phase'[q] = "retiring" =>
              \/ q = r /\ lane'[q] = l
              \/ phase[q] = "retiring" /\ lane[q] # l /\ lane'[q] = lane[q]
      BY <1>5, <3>1
    <3>3. lane_at'[l] = "retain" /\ \A k \in Lane : k # l => lane_at'[k] = lane_at[k]
      BY <1>0, <3>1
    <3> QED BY <1>0, <3>2, <3>3 DEF RetiringInv
  <2> QED BY <2>1, <2>2
<1>6. CASE LaneRetires(l)
  <2> DEFINE over == OnLane(l) \cap Over
  <2>1. /\ lane_at[l] = "top" /\ RetireFrom(l, over, phase) /\ lane' = lane
    BY <1>6 DEF LaneRetires
  <2>2. over \subseteq Request /\ \A r \in over : lane[r] = l
    BY DEF OnLane, Active
  <2>3. \A r \in Request : phase[r] = "retiring" => lane[r] # l
    BY <2>1 DEF RetiringInv
  <2> HIDE DEF over
  <2> QED BY <1>0, <1>5, <2>1, <2>2, <2>3
<1>7. CASE LaneReleases(l)
  <2>1. PICK s \in Request : /\ phase[s] = "retiring" /\ lane[s] = l
                             /\ lane' = [lane EXCEPT ![s] = 0]
                             /\ RetireFrom(l, todo[l], [phase EXCEPT ![s] = "gone"])
    BY <1>7 DEF LaneReleases
  <2> DEFINE before == [phase EXCEPT ![s] = "gone"]
             over == todo[l]
  <2>2. lane_at[l] = "retain"
    BY <1>7 DEF LaneReleases
  <2>3. over \subseteq Request /\ \A r \in over : phase[r] = "active" /\ lane[r] = l
    BY <2>2 DEF PlacesInv, ListsAreActive, OnLane, Active
  <2>4. /\ DOMAIN before = Request /\ before[s] = "gone"
        /\ \A r \in Request : r # s => before[r] = phase[r]
    BY <1>0
  <2>5. RetireFrom(l, over, before)
    BY <2>1
  <2> HIDE DEF over, before
  <2>6. \A r \in Request : before[r] = "retiring" => r # s /\ phase[r] = "retiring" /\ lane[r] # l
    BY <2>1, <2>4 DEF RetiringInv
  <2>7. \A r \in Request : r # s => lane'[r] = lane[r]
    BY <1>0, <2>1
  <2>8. \A r \in over : lane'[r] = l
    BY <2>1, <2>3, <2>7
  <2> QED BY <1>5, <2>3, <2>4, <2>5, <2>6, <2>7, <2>8
<1> QED BY <1>1, <1>2, <1>3, <1>4, <1>6, <1>7 DEF LaneStep

\* Every step keeps every retiring request on its lane's list.
LEMMA StepKeepsRetiring == PlacesInv /\ RetiringInv /\ [Next]_vars => RetiringInv'
<1> SUFFICES ASSUME PlacesInv, RetiringInv, [Next]_vars PROVE RetiringInv'
  OBVIOUS
<1>0. phase \in [Request -> Phase]
  BY DEF PlacesInv, Types
<1>1. ASSUME NEW r \in Request, Submit(r) \/ Overloaded(r) \/ Read(r) \/ Disconnect(r)
      PROVE  RetiringInv'
  <2>1. /\ phase' = phase \/ \E p \in {"queued", "gone"} : phase' = [phase EXCEPT ![r] = p]
        /\ lane' = lane /\ lane_at' = lane_at
    BY <1>1 DEF Submit, Overloaded, Read, Disconnect, requestVars, laneVars
  <2> QED BY <1>0, <2>1, QuietRetiring
<1>2. CASE CloseDoor \/ UNCHANGED vars
  <2>1. phase' = phase /\ lane' = lane /\ lane_at' = lane_at
    BY <1>2 DEF CloseDoor, vars, requestVars, laneVars
  <2> QED BY <2>1, QuietRetiring
<1>3. CASE ServeStep
  BY <1>3, ServeRetiring
<1>4. ASSUME NEW l \in Lane, LaneStep(l) PROVE RetiringInv'
  BY <1>4, LaneRetiring
<1> QED BY <1>1, <1>2, <1>3, <1>4 DEF Next

-----------------------------------------------------------------------------
(* The line, the requests in service and the ones that are done, as the      *)
(* refinement of ServiceLine maps them.                                      *)

Line == (IF pending = NoRequest THEN <<>> ELSE <<pending>>) \o queue
Serving == {r \in Request : phase[r] \in {"admitting", "active", "retiring"}}
Done == {r \in Request : phase[r] = "gone"}

\* A request in front of a queue: its head, its tail and its length.
LEMMA LineOf ==
    ASSUME NEW q \in Seq(Request), NEW p \in Request
    PROVE  /\ <<>> \o q = q
           /\ <<p>> \o q \in Seq(Request) /\ <<p>> \o q # <<>>
           /\ Head(<<p>> \o q) = p /\ Tail(<<p>> \o q) = q
           /\ Len(<<p>> \o q) = Len(q) + 1
           /\ (<<p>> \o q)[1] = p
           /\ \A i \in 1..Len(q) : (<<p>> \o q)[i + 1] = q[i]
<1> DEFINE s == <<p>> \o q
<1>1. <<p>> \in Seq(Request) /\ Len(<<p>>) = 1 /\ <<p>>[1] = p /\ Len(q) \in Nat
  OBVIOUS
<1>2. /\ s \in Seq(Request) /\ Len(s) = 1 + Len(q)
      /\ \A i \in 1..1 + Len(q) : s[i] = IF i <= 1 THEN <<p>>[i] ELSE q[i - 1]
  BY <1>1, ConcatProperties
<1> HIDE DEF s
<1>3. s # <<>> /\ Head(s) = s[1] /\ s[1] = p
  BY <1>1, <1>2
<1>4. \A i \in 1..Len(q) : s[i + 1] = q[i]
  BY <1>1, <1>2
<1>5. Tail(s) \in Seq(Request) /\ Len(Tail(s)) = Len(q)
      /\ \A i \in 1..Len(q) : Tail(s)[i] = s[i + 1]
  BY <1>1, <1>2, <1>3, HeadTailProperties
<1>6. Tail(s) = q
  BY <1>4, <1>5, SeqEqual
<1>7. <<>> \o q = q
  BY ConcatEmptySeq
<1> QED BY <1>1, <1>2, <1>3, <1>4, <1>6, <1>7 DEF s

\* Appending to the end of a concatenation is appending to its second part.
LEMMA ConcatAppended ==
    ASSUME NEW p \in Seq(Request), NEW q \in Seq(Request), NEW r \in Request
    PROVE  p \o Append(q, r) = Append(p \o q, r)
<1> DEFINE a == Append(q, r)
           s == p \o a
           t == p \o q
           u == Append(t, r)
<1>1. /\ a \in Seq(Request) /\ Len(a) = Len(q) + 1 /\ a[Len(q) + 1] = r
      /\ \A i \in 1..Len(q) : a[i] = q[i]
      /\ Len(p) \in Nat /\ Len(q) \in Nat
  BY AppendProperties
<1> HIDE DEF a
<1>2. /\ s \in Seq(Request) /\ Len(s) = Len(p) + Len(a)
      /\ \A i \in 1..Len(p) + Len(a) : s[i] = IF i <= Len(p) THEN p[i] ELSE a[i - Len(p)]
  BY <1>1, ConcatProperties
<1>3. /\ t \in Seq(Request) /\ Len(t) = Len(p) + Len(q)
      /\ \A i \in 1..Len(p) + Len(q) : t[i] = IF i <= Len(p) THEN p[i] ELSE q[i - Len(p)]
  BY ConcatProperties
<1> HIDE DEF s, t
<1>4. /\ u \in Seq(Request) /\ Len(u) = Len(t) + 1 /\ u[Len(t) + 1] = r
      /\ \A i \in 1..Len(t) : u[i] = t[i]
  <2>1. t \in Seq(Request)
    BY <1>3
  <2> QED BY <2>1, AppendProperties
<1> HIDE DEF u
<1>5. ASSUME NEW i \in 1..Len(s) PROVE s[i] = u[i]
  <2>1. CASE i <= Len(p)
    <3>1. i \in 1..Len(t) /\ i \in 1..Len(p) + Len(q) /\ i \in 1..Len(p) + Len(a)
      BY <1>1, <1>2, <1>3, <2>1
    <3>2. s[i] = p[i] /\ t[i] = p[i] /\ u[i] = t[i]
      BY <1>2, <1>3, <1>4, <2>1, <3>1
    <3> QED BY <3>2
  <2>2. CASE i > Len(p) /\ i <= Len(p) + Len(q)
    <3>1. /\ i - Len(p) \in 1..Len(q) /\ i \in 1..Len(t) /\ i \in 1..Len(p) + Len(q)
          /\ i \in 1..Len(p) + Len(a) /\ ~(i <= Len(p))
      BY <1>1, <1>2, <1>3, <2>2
    <3>2. s[i] = a[i - Len(p)] /\ t[i] = q[i - Len(p)] /\ u[i] = t[i]
      BY <1>2, <1>3, <1>4, <3>1
    <3> QED BY <1>1, <3>1, <3>2
  <2>3. CASE i = Len(p) + Len(q) + 1
    <3>1. i - Len(p) = Len(q) + 1
      BY <1>1, <2>3
    <3> QED BY <1>1, <1>2, <1>3, <1>4, <2>3, <3>1
  <2> QED BY <1>1, <1>2, <2>1, <2>2, <2>3
<1> QED BY <1>1, <1>2, <1>3, <1>4, <1>5, SeqEqual DEF s, t, u, a

\* A nonempty queue is its head in front of its tail.
LEMMA HeadThenTail ==
    ASSUME NEW s \in Seq(Request), s # <<>>
    PROVE  s = <<Head(s)>> \o Tail(s)
<1>1. Head(s) \in Request /\ Tail(s) \in Seq(Request) /\ Len(Tail(s)) = Len(s) - 1
      /\ Head(s) = s[1] /\ Len(s) \in Nat /\ \A i \in 1..Len(s) - 1 : Tail(s)[i] = s[i + 1]
  BY HeadTailProperties
<1> DEFINE q == Tail(s)
           t == <<Head(s)>> \o q
<1>2. /\ t \in Seq(Request) /\ Len(t) = Len(q) + 1 /\ t[1] = Head(s)
      /\ \A i \in 1..Len(q) : t[i + 1] = q[i]
  BY <1>1, LineOf
<1> HIDE DEF t
<1>3. ASSUME NEW i \in 1..Len(s) PROVE s[i] = t[i]
  <2>1. CASE i = 1
    BY <1>1, <1>2, <2>1
  <2>2. CASE i # 1
    <3>1. i - 1 \in 1..Len(q) /\ (i - 1) + 1 = i
      BY <1>1, <2>2
    <3> QED BY <1>1, <1>2, <3>1
  <2> QED BY <2>1, <2>2
<1> QED BY <1>1, <1>2, <1>3, SeqEqual DEF t

\* The line holds queued requests.
LEMMA LineFacts ==
    ASSUME PlacesInv
    PROVE  /\ Line \in Seq(Request)
           /\ \A i \in DOMAIN Line : phase[Line[i]] = "queued"
           /\ pending = NoRequest => Line = queue
           /\ pending # NoRequest => Line = <<pending>> \o queue
<1>1. queue \in Seq(Request) /\ Len(queue) \in Nat /\ \A i \in 1..Len(queue) : phase[queue[i]] = "queued"
  BY DEF PlacesInv, Types, LineQueued
<1>2. CASE pending = NoRequest
  <2>1. Line = queue
    BY <1>1, <1>2, ConcatEmptySeq DEF Line
  <2> QED BY <1>1, <1>2, <2>1
<1>3. CASE pending # NoRequest
  <2>1. pending \in Request /\ phase[pending] = "queued"
    BY <1>3 DEF PlacesInv, Types, LineQueued
  <2>2. Line = <<pending>> \o queue
    BY <1>3 DEF Line
  <2>3. /\ Line \in Seq(Request) /\ Len(Line) = Len(queue) + 1 /\ Line[1] = pending
        /\ \A i \in 1..Len(queue) : Line[i + 1] = queue[i]
    BY <1>1, <2>1, <2>2, LineOf
  <2>4. \A i \in DOMAIN Line : i = 1 \/ i - 1 \in 1..Len(queue)
    BY <1>1, <2>3
  <2>5. ASSUME NEW i \in DOMAIN Line PROVE phase[Line[i]] = "queued"
    <3>1. CASE i = 1
      BY <2>1, <2>3, <3>1
    <3>2. CASE i # 1
      <4>1. i - 1 \in 1..Len(queue) /\ (i - 1) + 1 = i
        BY <2>3, <2>4, <3>2
      <4>2. Line[i] = queue[i - 1]
        BY <2>3, <4>1
      <4> QED BY <1>1, <4>1, <4>2
    <3> QED BY <3>1, <3>2
  <2> QED BY <1>3, <2>2, <2>3, <2>5
<1> QED BY <1>2, <1>3

LineStep == ServingLine!Next \/ UNCHANGED ServingLine!lineVars

\* Nothing of the line is touched by a step that keeps queue, candidate, served and done.
LEMMA LineStays ==
    ASSUME pending' = pending, queue' = queue, Serving' = Serving, Done' = Done
    PROVE  LineStep
  BY DEF LineStep, ServingLine!lineVars, Serving, Done

\* A step that keeps the line, the served and the done stutters in the abstract line.
LEMMA LineUnmoved ==
    ASSUME Line' = Line, Serving' = Serving, Done' = Done
    PROVE  LineStep
  BY DEF LineStep, ServingLine!lineVars, Line, Serving, Done

\* A new request joins the end of the line, or is done without joining it.
LEMMA LineJoin ==
    ASSUME NEW r \in Request, r \notin {Line[i] : i \in DOMAIN Line},
           r \notin Serving, r \notin Done
    PROVE  /\ Line' = Append(Line, r) /\ Serving' = Serving /\ Done' = Done => LineStep
           /\ Done' = Done \cup {r} /\ Line' = Line /\ Serving' = Serving => LineStep
  BY DEF LineStep, ServingLine!Next, ServingLine!Join, ServingLine!TurnAway, ServingLine!Waiting,
         Line, Serving, Done

\* ServiceLine counts with its own instance of FiniteSets.
LEMMA SameCardinality == \A S : Cardinality(S) = ServingLine!Cardinality(S)
  BY DEF Cardinality, ServingLine!Cardinality

\* The head of the line is served when a slot is free, or is done.
LEMMA LineEnters ==
    ASSUME Line # <<>>, Line' = Tail(Line)
    PROVE  /\ Cardinality(Serving) < SLOTS /\ Serving' = Serving \cup {Head(Line)} /\ Done' = Done
                 => LineStep
           /\ Serving' = Serving /\ Done' = Done \cup {Head(Line)} => LineStep
<1>1. ASSUME Cardinality(Serving) < SLOTS, Serving' = Serving \cup {Head(Line)}, Done' = Done
      PROVE  LineStep
  <2>1. ServingLine!Cardinality(Serving) < SLOTS
    BY <1>1, SameCardinality
  <2> QED
    BY <1>1, <2>1 DEF LineStep, ServingLine!Next, ServingLine!Enter, Line, Serving, Done
<1>2. ASSUME Serving' = Serving, Done' = Done \cup {Head(Line)}
      PROVE  LineStep
  BY <1>2 DEF LineStep, ServingLine!Next, ServingLine!Refuse, Line, Serving, Done
<1> QED BY <1>1, <1>2

\* Served requests that leave are done.
LEMMA LineLeaves ==
    ASSUME NEW over \in SUBSET Serving, Serving' = Serving \ over, Done' = Done \cup over,
           Line' = Line
    PROVE  LineStep
<1>1. CASE over = {}
  <2>1. Serving' = Serving /\ Done' = Done
    BY <1>1
  <2> QED BY <2>1 DEF LineStep, ServingLine!lineVars, Line, Serving, Done
<1>2. CASE over # {}
  BY <1>2 DEF LineStep, ServingLine!Next, ServingLine!Leave, Line, Serving, Done
<1> QED BY <1>1, <1>2

\* The initial state maps to the initial state of the abstract line.
LEMMA InitLine == Init => RetiringInv /\ ServingLine!Init
<1> SUFFICES ASSUME Init PROVE RetiringInv /\ ServingLine!Init
  OBVIOUS
<1>1. /\ phase = [r \in Request |-> "new"] /\ pending = NoRequest /\ queue = <<>>
  BY DEF Init
<1>2. Line = <<>> /\ Serving = {} /\ Done = {}
  BY <1>1 DEF Line, Serving, Done
<1> QED BY <1>1, <1>2 DEF RetiringInv, ServingLine!Init, Line, Serving, Done

\* Only new requests join.
LEMMA ClientLine ==
    ASSUME PlacesInv, NEW r \in Request, Submit(r) \/ Overloaded(r) \/ Read(r) \/ Disconnect(r)
    PROVE  LineStep
<1>0. phase \in [Request -> Phase] /\ queue \in Seq(Request)
  BY DEF PlacesInv, Types
<1>1. ASSUME phase[r] = "new"
      PROVE  r \notin {Line[i] : i \in DOMAIN Line} /\ r \notin Serving /\ r \notin Done
  BY <1>1, LineFacts DEF Serving, Done
<1>2. CASE Submit(r)
  <2>1. /\ phase[r] = "new" /\ queue' = Append(queue, r) /\ pending' = pending
        /\ phase' = [phase EXCEPT ![r] = "queued"]
    BY <1>2 DEF Submit
  <2>2. Serving' = Serving /\ Done' = Done
    BY <1>0, <2>1 DEF Serving, Done
  <2>3. Line' = Append(Line, r)
    <3> DEFINE first == IF pending = NoRequest THEN <<>> ELSE <<pending>>
    <3>1. first \in Seq(Request)
      BY DEF PlacesInv, Types
    <3>2. Line = first \o queue /\ Line' = first \o Append(queue, r)
      BY <2>1 DEF Line
    <3> HIDE DEF first
    <3> QED BY <1>0, <3>1, <3>2, ConcatAppended
  <2> QED BY <1>1, <2>1, <2>2, <2>3, LineJoin
<1>3. CASE Overloaded(r)
  <2>1. /\ phase[r] = "new" /\ queue' = queue /\ pending' = pending
        /\ phase' = [phase EXCEPT ![r] = "gone"]
    BY <1>3 DEF Overloaded, queueVars
  <2>2. Serving' = Serving /\ Done' = Done \cup {r} /\ Line' = Line
    BY <1>0, <2>1 DEF Serving, Done, Line
  <2> QED BY <1>1, <2>1, <2>2, LineJoin
<1>4. CASE Read(r) \/ Disconnect(r)
  <2>1. phase' = phase /\ queue' = queue /\ pending' = pending
    BY <1>4 DEF Read, Disconnect, queueVars, requestVars
  <2> QED BY <2>1, LineStays DEF Serving, Done
<1> QED BY <1>2, <1>3, <1>4

\* The candidate is the head of the line.
LEMMA CandidateHeads ==
    ASSUME PlacesInv, Candidate # NoRequest
    PROVE  /\ Candidate \in Request /\ phase[Candidate] = "queued" /\ FreeSlot
           /\ Line # <<>> /\ Head(Line) = Candidate /\ Line \in Seq(Request)
           /\ Tail(Line) = IF pending = NoRequest THEN Tail(queue) ELSE queue
<1>1. queue \in Seq(Request) /\ Line \in Seq(Request)
  BY LineFacts DEF PlacesInv, Types
<1>2. CASE pending # NoRequest
  <2>1. pending \in Request /\ phase[pending] = "queued"
    BY <1>2 DEF PlacesInv, Types, LineQueued
  <2>2. Candidate = pending /\ FreeSlot
    BY <1>2 DEF Candidate
  <2>3. Line = <<pending>> \o queue
    BY <1>2, LineFacts
  <2>4. Line # <<>> /\ Head(Line) = pending /\ Tail(Line) = queue
    BY <1>1, <2>1, <2>3, LineOf
  <2> QED BY <1>1, <1>2, <2>1, <2>2, <2>4
<1>3. CASE pending = NoRequest
  <2>1. queue # <<>> /\ Candidate = Head(queue) /\ FreeSlot
    BY <1>3 DEF Candidate
  <2>2. Line = queue
    BY <1>3, LineFacts
  <2>3. Head(queue) = queue[1] /\ Len(queue) \in Nat /\ Len(queue) > 0 /\ queue[1] \in Request
    BY <1>1, <2>1
  <2>4. phase[queue[1]] = "queued"
    BY <2>3 DEF PlacesInv, LineQueued
  <2> QED BY <1>1, <1>3, <2>1, <2>2, <2>3, <2>4
<1> QED BY <1>2, <1>3

\* Between rounds nobody retires, and only the active are in service.
LEMMA ServingActive ==
    ASSUME PlacesInv, NoneRetiring, at # "prefill"
    PROVE  Serving = Active
  BY DEF PlacesInv, OneAdmitting, NoneRetiring, Serving, Active

\* Admission maps to the head of the line entering or leaving, or to a stutter.
LEMMA AdmissionLine ==
    ASSUME PlacesInv, CountsInv, RetiringInv, AdmitCandidate
    PROVE  LineStep
<1> DEFINE r == Candidate
<1>0. Candidate # NoRequest /\ at = "admission" /\ phase \in [Request -> Phase]
  BY DEF AdmitCandidate, PlacesInv, Types
<1>1. /\ r \in Request /\ phase[r] = "queued" /\ FreeSlot
      /\ Line # <<>> /\ Head(Line) = r /\ Line \in Seq(Request)
      /\ Tail(Line) = IF pending = NoRequest THEN Tail(queue) ELSE queue
  BY <1>0, CandidateHeads
<1>2. r # NoRequest
  BY <1>0
<1> HIDE DEF r
<1>3. Tail(Line) \in Seq(Request)
  BY <1>1
<1>4. ASSUME pending' = NoRequest, queue' = Tail(Line) PROVE Line' = Tail(Line)
  <2>1. Line' = <<>> \o Tail(Line)
    BY <1>4 DEF Line
  <2> QED BY <1>3, <2>1, ConcatEmptySeq
<1>5. ASSUME phase' = [phase EXCEPT ![r] = "gone"]
      PROVE  Serving' = Serving /\ Done' = Done \cup {r}
  BY <1>0, <1>1, <1>5 DEF Serving, Done
<1>6. CASE DropCandidate(r)
  <2>1. /\ pending' = NoRequest /\ queue' = Tail(Line)
        /\ phase' = [phase EXCEPT ![r] = "gone"]
    BY <1>1, <1>6 DEF DropCandidate, TakeCandidate
  <2> QED BY <1>1, <1>4, <1>5, <2>1, LineEnters
<1>7. ASSUME NEW c, Admit(r, c) PROVE LineStep
  <2>1. /\ pending' = NoRequest /\ queue' = Tail(Line)
        /\ phase' = [phase EXCEPT ![r] = "admitting"]
    BY <1>1, <1>7 DEF Admit, TakeCandidate
  <2>2. Serving' = Serving \cup {r} /\ Done' = Done
    BY <1>0, <1>1, <2>1 DEF Serving, Done
  <2>3. NoneRetiring
    BY <1>0, IdleRetiring DEF PlacesInv, LanesIdle
  <2>4. Cardinality(Serving) < SLOTS
    BY <1>0, <1>1, <2>3, ServingActive DEF FreeSlot
  <2> QED BY <1>1, <1>4, <2>1, <2>2, <2>4, LineEnters
<1>8. ASSUME NEW c, DoesNotFit(r, c) PROVE LineStep
  <2>1. CASE Active # {}
    <3>1. pending' = r /\ queue' = Tail(Line) /\ phase' = phase
      BY <1>1, <1>8, <2>1 DEF DoesNotFit
    <3>2. Line' = <<r>> \o Tail(Line)
      BY <1>2, <3>1 DEF Line
    <3>3. Line = <<r>> \o Tail(Line)
      BY <1>1, HeadThenTail
    <3>4. Serving' = Serving /\ Done' = Done
      BY <3>1 DEF Serving, Done
    <3> QED BY <3>2, <3>3, <3>4, LineUnmoved
  <2>2. CASE Active = {}
    <3>1. /\ pending' = NoRequest /\ queue' = Tail(Line)
          /\ phase' = [phase EXCEPT ![r] = "gone"]
      BY <1>1, <1>8, <2>2 DEF DoesNotFit
    <3> QED BY <1>1, <1>4, <1>5, <3>1, LineEnters
  <2> QED BY <2>1, <2>2
<1> QED BY <1>6, <1>7, <1>8 DEF AdmitCandidate, r

\* Each step of the serve thread maps to a step of the abstract line or to a stutter.
LEMMA ServeLine ==
    ASSUME PlacesInv, CountsInv, RetiringInv, ServeStep
    PROVE  LineStep
<1>0. phase \in [Request -> Phase]
  BY DEF PlacesInv, Types
<1>1. CASE Boundary
  <2>1. /\ phase' = [r \in Request |-> IF r \in Over THEN "gone" ELSE phase[r]]
        /\ pending' = pending /\ queue' = queue
    BY <1>1 DEF Boundary, queueVars
  <2>2. Over \in SUBSET Serving
    BY DEF Over, Active, Serving
  <2>3. Serving' = Serving \ Over /\ Done' = Done \cup Over
    BY <1>0, <2>1 DEF Serving, Done, Over, Active
  <2>4. Line' = Line
    BY <2>1 DEF Line
  <2> QED BY <2>2, <2>3, <2>4, LineLeaves
<1>2. CASE AdmitCandidate
  BY <1>2, AdmissionLine
<1>3. CASE Prefill
  <2>1. PICK r \in Request :
          /\ phase[r] = "admitting" /\ pending' = pending /\ queue' = queue
          /\ \E p \in {"gone", "active"} : phase' = [phase EXCEPT ![r] = p]
    BY <1>3 DEF Prefill, PrefillFailed, Prefilled, queueVars
  <2>2. CASE phase' = [phase EXCEPT ![r] = "active"]
    <3>1. Serving' = Serving /\ Done' = Done
      BY <1>0, <2>1, <2>2 DEF Serving, Done
    <3> QED BY <2>1, <3>1, LineStays
  <2>3. CASE phase' = [phase EXCEPT ![r] = "gone"]
    <3>1. Serving' = Serving \ {r} /\ Done' = Done \cup {r} /\ {r} \in SUBSET Serving
      BY <1>0, <2>1, <2>3 DEF Serving, Done
    <3>2. Line' = Line
      BY <2>1 DEF Line
    <3> QED BY <3>1, <3>2, LineLeaves
  <2> QED BY <2>1, <2>2, <2>3
<1>4. CASE Dispatch \/ Join \/ FailRequest
  <2>1. phase' = phase /\ pending' = pending /\ queue' = queue
    BY <1>4 DEF Dispatch, Join, FailRequest, queueVars, requestVars
  <2> QED BY <2>1, LineStays DEF Serving, Done
<1> QED BY <1>1, <1>2, <1>3, <1>4 DEF ServeStep

\* Each step of a lane maps to served requests leaving the abstract line or to a stutter.
LEMMA LaneLine ==
    ASSUME PlacesInv, RetiringInv, NEW l \in Lane, LaneStep(l)
    PROVE  LineStep
<1>0. phase \in [Request -> Phase]
  BY DEF PlacesInv, Types
<1>1. CASE LaneStops(l) \/ LaneEnter(l) \/ LaneVerify(l) \/ LaneDeliver(l)
  <2>1. phase' = phase /\ pending' = pending /\ queue' = queue
    BY <1>1 DEF LaneStops, LaneEnter, LaneVerify, LaneDeliver, queueVars, requestVars
  <2> QED BY <2>1, LineStays DEF Serving, Done
<1>2. ASSUME NEW over, NEW before, RetireFrom(l, over, before)
      PROVE  phase' = before \/ \E r \in over : phase' = [before EXCEPT ![r] = "retiring"]
  BY <1>2 DEF RetireFrom
<1>3. CASE LaneRetires(l)
  <2>1. /\ RetireFrom(l, OnLane(l) \intersect Over, phase) /\ pending' = pending /\ queue' = queue
    BY <1>3 DEF LaneRetires, queueVars
  <2>2. phase' = phase \/ \E r \in OnLane(l) \intersect Over : phase' = [phase EXCEPT ![r] = "retiring"]
    BY <1>2, <2>1
  <2>3. \A r \in OnLane(l) \intersect Over : r \in Request /\ phase[r] = "active"
    BY DEF OnLane, Active
  <2>4. Serving' = Serving /\ Done' = Done
    BY <1>0, <2>2, <2>3 DEF Serving, Done
  <2> QED BY <2>1, <2>4, LineStays
<1>4. CASE LaneReleases(l)
  <2>1. lane_at[l] = "retain" /\ pending' = pending /\ queue' = queue
    BY <1>4 DEF LaneReleases, queueVars
  <2>2. PICK s \in Request : /\ phase[s] = "retiring"
                             /\ RetireFrom(l, todo[l], [phase EXCEPT ![s] = "gone"])
    BY <1>4 DEF LaneReleases
  <2> DEFINE before == [phase EXCEPT ![s] = "gone"]
  <2>3. phase' = before \/ \E r \in todo[l] : phase' = [before EXCEPT ![r] = "retiring"]
    BY <1>2, <2>2
  <2>4. \A r \in todo[l] : r \in Request /\ phase[r] = "active"
    BY <2>1 DEF PlacesInv, ListsAreActive, OnLane, Active
  <2>5. Serving' = Serving \ {s} /\ Done' = Done \cup {s} /\ {s} \in SUBSET Serving
    BY <1>0, <2>2, <2>3, <2>4 DEF Serving, Done
  <2>6. Line' = Line
    BY <2>1 DEF Line
  <2> QED BY <2>5, <2>6, LineLeaves
<1> QED BY <1>1, <1>3, <1>4 DEF LaneStep

\* Each step of the loop maps to a step of the abstract line or to a stutter.
LEMMA StepMovesLine ==
    PlacesInv /\ CountsInv /\ RetiringInv /\ [Next]_vars => [ServingLine!Next]_(ServingLine!lineVars)
<1> SUFFICES ASSUME PlacesInv, CountsInv, RetiringInv, [Next]_vars
             PROVE  LineStep
  BY DEF LineStep
<1>1. ASSUME NEW r \in Request, Submit(r) \/ Overloaded(r) \/ Read(r) \/ Disconnect(r)
      PROVE  LineStep
  BY <1>1, ClientLine
<1>2. CASE CloseDoor \/ UNCHANGED vars
  <2>1. phase' = phase /\ pending' = pending /\ queue' = queue
    BY <1>2 DEF CloseDoor, vars, queueVars, requestVars
  <2> QED BY <2>1, LineStays DEF Serving, Done
<1>3. CASE ServeStep
  BY <1>3, ServeLine
<1>4. ASSUME NEW l \in Lane, LaneStep(l) PROVE LineStep
  BY <1>4, LaneLine
<1> QED BY <1>1, <1>2, <1>3, <1>4 DEF Next

\* The serving loop implements the safety part of the line its clients see:
\* requests are admitted, refused or given up in the order in which they were
\* queued, the blocked one included, at most SLOTS are in service, and one that
\* is done never comes back.
THEOREM LoopKeepsTheLine == Spec => ServingLine!Spec
<1>1. PlacesInv /\ RetiringInv /\ [Next]_vars => RetiringInv'
  BY StepKeepsRetiring
<1>2. PlacesInv /\ CountsInv /\ RetiringInv /\ [Next]_vars
      => [ServingLine!Next]_(ServingLine!lineVars)
  BY StepMovesLine
<1> QED
  BY <1>1, <1>2, InitLine, PlacesAndCounts, PTL DEF Spec, ServingLine!Spec

-----------------------------------------------------------------------------
(***************************************************************************)
(* Who may have been told.  A request is over, retiring or gone only with  *)
(* an answer sent or a client that has left, and a lane that retires the   *)
(* requests of its list one by one has only such requests on it.           *)
(***************************************************************************)
Answered == {r \in Request : client[r] # "waits"}

Shapes ==
    /\ DOMAIN client = Request
    /\ DOMAIN phase = Request
    /\ DOMAIN lane_at = Lane
    /\ DOMAIN todo = Lane

EndedAreAnswered ==
    \A r \in Request :
        phase[r] \in {"retiring", "gone"} \/ r \in finished => r \in Answered

RetiringLists ==
    \A l \in Lane : lane_at[l] = "retain" => todo[l] \intersect Request \subseteq Answered

\* The inductive invariant.
AnswerInv == Shapes /\ EndedAreAnswered /\ RetiringLists

-----------------------------------------------------------------------------
(* What the operators on channels do to the answered. *)

\* Initially nobody is over.
LEMMA InitAnswers == Init => AnswerInv
  BY DEF Init, AnswerInv, Shapes, EndedAreAnswered, RetiringLists, Answered, Lane

\* A dismissed request is answered.
LEMMA DismissAnswers ==
    ASSUME NEW r, DOMAIN client = Request, Dismiss(r)
    PROVE  /\ DOMAIN client' = Request
           /\ Answered \subseteq Answered'
           /\ r \in Request => r \in Answered'
  BY DEF Dismiss, Answered

\* Telling a client never takes an answer back, and a terminal event is an answer.
LEMMA TellAnswers ==
    ASSUME NEW r, NEW terminal, DOMAIN client = Request, Tell(r, terminal)
    PROVE  /\ DOMAIN client' = Request
           /\ Answered \subseteq Answered'
           /\ terminal /\ r \in Request => r \in Answered'
  BY DEF Tell, Answered

\* Dropping senders changes no answer.
LEMMA DroppedAnswers ==
    ASSUME NEW over, DOMAIN client = Request, Dropped(over)
    PROVE  DOMAIN client' = Request /\ Answered' = Answered
  BY DEF Dropped, Answered

\* Under the invariant whoever is over is answered.
LEMMA OverAreAnswered ==
    ASSUME AnswerInv
    PROVE  Over \subseteq Answered
  BY DEF AnswerInv, EndedAreAnswered, Over, Active, Gone, Answered

\* The next request of a list is taken for retirement, or the list is empty.
LEMMA RetireFromKeeps ==
    ASSUME NEW l \in Lane, NEW over, NEW before, AnswerInv,
           RetireFrom(l, over, before),
           DOMAIN before = Request, over \intersect Request \subseteq Answered
    PROVE  /\ DOMAIN phase' = Request
           /\ DOMAIN lane_at' = Lane
           /\ DOMAIN todo' = Lane
           /\ \A r \in Request : phase'[r] \in {"retiring", "gone"} =>
                  r \in Answered \/ before[r] \in {"retiring", "gone"}
           /\ \A k \in Lane : lane_at'[k] = "retain" =>
                  todo'[k] \intersect Request \subseteq Answered
<1>1. CASE over = {}
  BY <1>1 DEF RetireFrom, AnswerInv, Shapes, RetiringLists
<1>2. CASE over # {}
  <2>1. PICK r \in over :
          /\ phase' = [before EXCEPT ![r] = "retiring"]
          /\ todo' = [todo EXCEPT ![l] = over \ {r}]
          /\ lane_at' = [lane_at EXCEPT ![l] = "retain"]
    BY <1>2 DEF RetireFrom
  <2>2. \A k \in Lane : lane_at'[k] = "retain" =>
            todo'[k] \intersect Request \subseteq Answered
    BY <2>1 DEF AnswerInv, Shapes, RetiringLists
  <2> QED
    BY <2>1, <2>2 DEF AnswerInv, Shapes
<1> QED
  BY <1>1, <1>2

-----------------------------------------------------------------------------
(* Every step keeps the invariant. *)

\* The shape of most steps: who was answered stays answered, nobody ends or is
\* listed for retirement without an answer.
LEMMA QuietStepKeeps ==
    ASSUME AnswerInv,
           DOMAIN client' = Request, Answered \subseteq Answered',
           DOMAIN phase' = Request, DOMAIN lane_at' = Lane, DOMAIN todo' = Lane,
           \A r \in Request : phase'[r] \in {"retiring", "gone"} =>
               phase[r] \in {"retiring", "gone"} \/ r \in Answered',
           \A r \in Request : r \in finished' => r \in finished \/ r \in Answered',
           \A l \in Lane : lane_at'[l] = "retain" =>
               lane_at[l] = "retain" /\ todo'[l] \subseteq todo[l]
    PROVE  AnswerInv'
  BY DEF AnswerInv, Shapes, EndedAreAnswered, RetiringLists

\* What a client does keeps the invariant.
LEMMA ClientSteps ==
    ASSUME AnswerInv, NEW r \in Request,
           Submit(r) \/ Overloaded(r) \/ Read(r) \/ Disconnect(r)
    PROVE  AnswerInv'
<1> USE DEF queueVars, clientVars, requestVars, laneVars
<1>0. DOMAIN client = Request /\ DOMAIN phase = Request /\ DOMAIN lane_at = Lane
      /\ DOMAIN todo = Lane
  BY DEF AnswerInv, Shapes
<1>1. CASE Submit(r)
  <2>1. /\ phase' = [phase EXCEPT ![r] = "queued"]
        /\ UNCHANGED <<clientVars, finished, laneVars>>
    BY <1>1 DEF Submit
  <2> QED
    BY <1>0, <2>1, QuietStepKeeps DEF Answered
<1>2. CASE Overloaded(r)
  <2>1. /\ phase' = [phase EXCEPT ![r] = "gone"]
        /\ Dismiss(r)
        /\ UNCHANGED <<finished, laneVars>>
    BY <1>2 DEF Overloaded
  <2>2. DOMAIN client' = Request /\ Answered \subseteq Answered' /\ r \in Answered'
    BY <1>0, <2>1, DismissAnswers
  <2> QED
    BY <1>0, <2>1, <2>2, QuietStepKeeps
<1>3. CASE Read(r)
  <2>1. /\ client' = client \/ client' = [client EXCEPT ![r] = "left"]
        /\ UNCHANGED <<requestVars, laneVars>>
    BY <1>3 DEF Read
  <2>2. DOMAIN client' = Request /\ Answered \subseteq Answered'
    BY <1>0, <2>1 DEF Answered
  <2> QED
    BY <1>0, <2>1, <2>2, QuietStepKeeps
<1>4. CASE Disconnect(r)
  <2>1. /\ client' = [client EXCEPT ![r] = "left"]
        /\ UNCHANGED <<requestVars, laneVars>>
    BY <1>4 DEF Disconnect
  <2>2. DOMAIN client' = Request /\ Answered \subseteq Answered'
    BY <1>0, <2>1 DEF Answered
  <2> QED
    BY <1>0, <2>1, <2>2, QuietStepKeeps
<1> QED
  BY <1>1, <1>2, <1>3, <1>4

\* The start of an iteration ends only requests that are over, and these are answered.
LEMMA BoundaryKeeps ==
    ASSUME AnswerInv, Boundary
    PROVE  AnswerInv'
<1>0. DOMAIN client = Request /\ DOMAIN phase = Request /\ DOMAIN lane_at = Lane
      /\ DOMAIN todo = Lane
  BY DEF AnswerInv, Shapes
<1>1. /\ phase' = [r \in Request |-> IF r \in Over THEN "gone" ELSE phase[r]]
      /\ finished' = finished \ Over
      /\ Dropped(Over)
      /\ lane_at' = lane_at /\ todo' = todo
  BY DEF Boundary, laneVars
<1>2. DOMAIN client' = Request /\ Answered' = Answered
  BY <1>0, <1>1, DroppedAnswers
<1>3. Over \subseteq Answered'
  BY <1>2, OverAreAnswered
<1> QED
  BY <1>0, <1>1, <1>2, <1>3, QuietStepKeeps

\* Admission answers whom it turns away.
LEMMA AdmissionKeeps ==
    ASSUME AnswerInv, AdmitCandidate
    PROVE  AnswerInv'
<1>0. DOMAIN client = Request /\ DOMAIN phase = Request /\ DOMAIN lane_at = Lane
      /\ DOMAIN todo = Lane
  BY DEF AnswerInv, Shapes
<1> DEFINE r == Candidate
<1> HIDE DEF r
<1>1. ASSUME DropCandidate(r) PROVE AnswerInv'
  <2>1. /\ phase' = [phase EXCEPT ![r] = "gone"]
        /\ Dismiss(r)
        /\ finished' = finished /\ lane_at' = lane_at /\ todo' = todo
    BY <1>1 DEF DropCandidate, TakeCandidate
  <2>2. /\ DOMAIN client' = Request /\ Answered \subseteq Answered'
        /\ r \in Request => r \in Answered'
    BY <1>0, <2>1, DismissAnswers
  <2> QED
    BY <1>0, <2>1, <2>2, QuietStepKeeps
<1>2. ASSUME NEW c, Admit(r, c) PROVE AnswerInv'
  <2>1. /\ phase' = [phase EXCEPT ![r] = "admitting"]
        /\ client' = client
        /\ finished' = finished /\ lane_at' = lane_at /\ todo' = todo
    BY <1>2 DEF Admit, TakeCandidate, clientVars
  <2>2. DOMAIN client' = Request /\ Answered' = Answered
    BY <1>0, <2>1 DEF Answered
  <2> QED
    BY <1>0, <2>1, <2>2, QuietStepKeeps
<1>3. ASSUME NEW c, DoesNotFit(r, c) PROVE AnswerInv'
  <2>1. /\ \/ phase' = phase /\ client' = client
           \/ phase' = [phase EXCEPT ![r] = "gone"] /\ Dismiss(r)
        /\ finished' = finished /\ lane_at' = lane_at /\ todo' = todo
    BY <1>3 DEF DoesNotFit, clientVars
  <2>2. CASE phase' = phase /\ client' = client
    <3>1. DOMAIN client' = Request /\ Answered' = Answered
      BY <1>0, <2>2 DEF Answered
    <3> QED
      BY <1>0, <2>1, <2>2, <3>1, QuietStepKeeps
  <2>3. CASE phase' = [phase EXCEPT ![r] = "gone"] /\ Dismiss(r)
    <3>1. /\ DOMAIN client' = Request /\ Answered \subseteq Answered'
          /\ r \in Request => r \in Answered'
      BY <1>0, <2>3, DismissAnswers
    <3> QED
      BY <1>0, <2>1, <2>3, <3>1, QuietStepKeeps
  <2> QED
    BY <2>1, <2>2, <2>3
<1> QED
  BY <1>1, <1>2, <1>3 DEF AdmitCandidate, r

\* A prefill answers the request it ends.
LEMMA PrefillKeeps ==
    ASSUME AnswerInv, Prefill
    PROVE  AnswerInv'
<1>0. DOMAIN client = Request /\ DOMAIN phase = Request /\ DOMAIN lane_at = Lane
      /\ DOMAIN todo = Lane
  BY DEF AnswerInv, Shapes
<1>1. ASSUME NEW r \in Request, PrefillFailed(r) PROVE AnswerInv'
  <2>1. /\ phase' = [phase EXCEPT ![r] = "gone"]
        /\ Dismiss(r)
        /\ finished' = finished /\ lane_at' = lane_at /\ todo' = todo
    BY <1>1 DEF PrefillFailed, laneVars
  <2>2. DOMAIN client' = Request /\ Answered \subseteq Answered' /\ r \in Answered'
    BY <1>0, <2>1, DismissAnswers
  <2> QED
    BY <1>0, <2>1, <2>2, QuietStepKeeps
<1>2. ASSUME NEW r \in Request, NEW last_token \in BOOLEAN, Prefilled(r, last_token)
      PROVE AnswerInv'
  <2>1. /\ phase' = [phase EXCEPT ![r] = "active"]
        /\ finished' = IF last_token \/ Gone(r) THEN finished \union {r} ELSE finished
        /\ Tell(r, last_token)
        /\ lane_at' = lane_at /\ todo' = todo
    BY <1>2 DEF Prefilled, laneVars
  <2>2. /\ DOMAIN client' = Request /\ Answered \subseteq Answered'
        /\ last_token => r \in Answered'
    BY <1>0, <2>1, TellAnswers
  <2>3. Gone(r) => r \in Answered'
    BY <2>2 DEF Gone, Answered
  <2> QED
    BY <1>0, <2>1, <2>2, <2>3, QuietStepKeeps
<1> QED
  BY <1>1, <1>2 DEF Prefill

\* Starting a round, or failing one request for want of room, keeps the invariant.
LEMMA DispatchKeeps ==
    ASSUME AnswerInv, Dispatch
    PROVE  AnswerInv'
<1>0. DOMAIN client = Request /\ DOMAIN phase = Request /\ DOMAIN lane_at = Lane
      /\ DOMAIN todo = Lane
  BY DEF AnswerInv, Shapes
<1>1. \/ lane_at' = lane_at /\ todo' = todo
      \/ /\ DOMAIN lane_at' = Lane /\ DOMAIN todo' = Lane
         /\ \A l \in Lane : lane_at'[l] # "retain"
  BY DEF Dispatch, laneVars
<1>2. \/ finished' = finished /\ client' = client
      \/ \E r : Tell(r, TRUE) /\ finished' = finished \union {r}
  BY DEF Dispatch, clientVars
<1>3. phase' = phase
  BY DEF Dispatch
<1>4. /\ DOMAIN client' = Request /\ Answered \subseteq Answered'
      /\ \A q \in Request : q \in finished' => q \in finished \/ q \in Answered'
  <2>1. CASE finished' = finished /\ client' = client
    BY <1>0, <2>1 DEF Answered
  <2>2. ASSUME NEW r, Tell(r, TRUE), finished' = finished \union {r}
        PROVE  /\ DOMAIN client' = Request /\ Answered \subseteq Answered'
               /\ \A q \in Request : q \in finished' => q \in finished \/ q \in Answered'
    BY <1>0, <2>2, TellAnswers
  <2> QED
    BY <1>2, <2>1, <2>2
<1> QED
  BY <1>0, <1>1, <1>3, <1>4, QuietStepKeeps

\* A lane retires only requests it has answered.
LEMMA LaneRetiresKeeps ==
    ASSUME AnswerInv, NEW l \in Lane, LaneRetires(l)
    PROVE  AnswerInv'
<1>1. /\ RetireFrom(l, OnLane(l) \intersect Over, phase)
      /\ client' = client /\ finished' = finished
  BY DEF LaneRetires, clientVars
<1>2. DOMAIN client = Request /\ DOMAIN phase = Request
  BY DEF AnswerInv, Shapes
<1>3. (OnLane(l) \intersect Over) \intersect Request \subseteq Answered
  BY OverAreAnswered
<1>4. /\ DOMAIN phase' = Request /\ DOMAIN lane_at' = Lane /\ DOMAIN todo' = Lane
      /\ \A r \in Request : phase'[r] \in {"retiring", "gone"} =>
             r \in Answered \/ phase[r] \in {"retiring", "gone"}
      /\ \A k \in Lane : lane_at'[k] = "retain" =>
             todo'[k] \intersect Request \subseteq Answered
  BY <1>1, <1>2, <1>3, RetireFromKeeps
<1>5. Answered' = Answered
  BY <1>1 DEF Answered
<1> QED
  BY <1>1, <1>2, <1>4, <1>5 DEF AnswerInv, Shapes, EndedAreAnswered, RetiringLists

\* A lane releases only requests it has answered.
LEMMA LaneReleasesKeeps ==
    ASSUME AnswerInv, NEW l \in Lane, LaneReleases(l)
    PROVE  AnswerInv'
<1>1. PICK r \in {s \in Request : phase[s] = "retiring" /\ lane[s] = l} :
        /\ finished' = finished \ {r}
        /\ Dropped({r})
        /\ RetireFrom(l, todo[l], [phase EXCEPT ![r] = "gone"])
  BY DEF LaneReleases
<1>2. DOMAIN client = Request /\ DOMAIN phase = Request
  BY DEF AnswerInv, Shapes
<1>3. todo[l] \intersect Request \subseteq Answered /\ r \in Answered
  BY DEF LaneReleases, AnswerInv, RetiringLists, EndedAreAnswered
<1> DEFINE before == [phase EXCEPT ![r] = "gone"]
<1>4. DOMAIN before = Request /\ \A q \in Request : q # r => before[q] = phase[q]
  BY <1>2
<1>5. /\ DOMAIN phase' = Request /\ DOMAIN lane_at' = Lane /\ DOMAIN todo' = Lane
      /\ \A q \in Request : phase'[q] \in {"retiring", "gone"} =>
             q \in Answered \/ before[q] \in {"retiring", "gone"}
      /\ \A k \in Lane : lane_at'[k] = "retain" =>
             todo'[k] \intersect Request \subseteq Answered
  <2> HIDE DEF before
  <2> QED
    BY <1>1, <1>3, <1>4, RetireFromKeeps DEF before
<1>6. DOMAIN client' = Request /\ Answered' = Answered
  BY <1>1, <1>2, DroppedAnswers
<1>7. \A q \in Request : phase'[q] \in {"retiring", "gone"} => q \in Answered
  BY <1>3, <1>4, <1>5 DEF AnswerInv, EndedAreAnswered
<1> QED
  BY <1>1, <1>5, <1>6, <1>7 DEF AnswerInv, Shapes, EndedAreAnswered, RetiringLists

\* Delivering tokens keeps the invariant.
LEMMA LaneDeliverKeeps ==
    ASSUME AnswerInv, NEW l \in Lane, LaneDeliver(l)
    PROVE  AnswerInv'
<1>0. DOMAIN client = Request /\ DOMAIN phase = Request /\ DOMAIN lane_at = Lane
      /\ DOMAIN todo = Lane
  BY DEF AnswerInv, Shapes
<1>1. PICK r \in todo[l] :
        /\ \/ Tell(r, TRUE) /\ finished' = finished \union {r}
           \/ \E last_token \in {TRUE, Generated(r) = Output[r]} :
                  /\ Tell(r, last_token)
                  /\ finished' = IF last_token THEN finished \union {r} ELSE finished
        /\ todo' = [todo EXCEPT ![l] = @ \ {r}]
  BY DEF LaneDeliver
<1>2. /\ DOMAIN client' = Request /\ Answered \subseteq Answered'
      /\ \A q \in Request : q \in finished' => q \in finished \/ q \in Answered'
  <2>1. CASE Tell(r, TRUE) /\ finished' = finished \union {r}
    BY <1>0, <2>1, TellAnswers
  <2>2. ASSUME NEW last_token, Tell(r, last_token),
               finished' = IF last_token THEN finished \union {r} ELSE finished
        PROVE  /\ DOMAIN client' = Request /\ Answered \subseteq Answered'
               /\ \A q \in Request : q \in finished' => q \in finished \/ q \in Answered'
    BY <1>0, <2>2, TellAnswers
  <2> QED
    BY <1>1, <2>1, <2>2
<1>3. phase' = phase
  BY DEF LaneDeliver
<1>4. \E step \in {"deliver", "out", "top"} : lane_at' = [lane_at EXCEPT ![l] = step]
  BY DEF LaneDeliver
<1>5. /\ DOMAIN lane_at' = Lane /\ DOMAIN todo' = Lane
      /\ \A k \in Lane : lane_at'[k] = "retain" =>
             lane_at[k] = "retain" /\ todo'[k] \subseteq todo[k]
  BY <1>0, <1>1, <1>4
<1> QED
  BY <1>0, <1>2, <1>3, <1>5, QuietStepKeeps

\* A lane's other steps end nobody.
LEMMA OtherLaneStepsKeep ==
    ASSUME AnswerInv, NEW l \in Lane, LaneStops(l) \/ LaneEnter(l) \/ LaneVerify(l)
    PROVE  AnswerInv'
<1>0. DOMAIN client = Request /\ DOMAIN phase = Request /\ DOMAIN lane_at = Lane
      /\ DOMAIN todo = Lane
  BY DEF AnswerInv, Shapes
<1>1. client' = client /\ phase' = phase /\ finished' = finished
  BY DEF LaneStops, LaneEnter, LaneVerify, clientVars, requestVars
<1>2. /\ \E step \in {"out", "failed", "verify", "deliver"} :
             lane_at' = [lane_at EXCEPT ![l] = step]
      /\ todo' = todo \/ \E S : todo' = [todo EXCEPT ![l] = S]
  <2>1. CASE LaneStops(l)
    BY <2>1 DEF LaneStops
  <2>2. CASE LaneEnter(l)
    BY <2>2 DEF LaneEnter
  <2>3. CASE LaneVerify(l)
    BY <2>3 DEF LaneVerify, LaneFails, LaneCommits
  <2> QED
    BY <2>1, <2>2, <2>3
<1>3. /\ DOMAIN lane_at' = Lane /\ DOMAIN todo' = Lane
      /\ \A k \in Lane : lane_at'[k] = "retain" =>
             lane_at[k] = "retain" /\ todo'[k] \subseteq todo[k]
  BY <1>0, <1>2
<1> QED
  BY <1>0, <1>1, <1>3, QuietStepKeeps DEF Answered

\* Ending a round ends nobody.
LEMMA JoinKeeps ==
    ASSUME AnswerInv, Join
    PROVE  AnswerInv'
<1>0. DOMAIN client = Request /\ DOMAIN phase = Request /\ DOMAIN lane_at = Lane
      /\ DOMAIN todo = Lane
  BY DEF AnswerInv, Shapes
<1>1. /\ client' = client /\ phase' = phase /\ finished' = finished
      /\ lane_at' = [k \in Lane |-> "out"]
      /\ todo' = todo \/ todo' = [todo EXCEPT ![0] = Active]
  BY DEF Join, clientVars, requestVars
<1> QED
  BY <1>0, <1>1, QuietStepKeeps DEF Answered

\* Failing a request of a broken round answers it.
LEMMA FailRequestKeeps ==
    ASSUME AnswerInv, FailRequest
    PROVE  AnswerInv'
<1>0. DOMAIN client = Request /\ DOMAIN phase = Request /\ DOMAIN lane_at = Lane
      /\ DOMAIN todo = Lane
  BY DEF AnswerInv, Shapes
<1>1. phase' = phase /\ lane_at' = lane_at
  BY DEF FailRequest
<1>2. CASE todo' = todo /\ finished' = finished /\ client' = client
  BY <1>0, <1>1, <1>2, QuietStepKeeps DEF Answered
<1>3. ASSUME NEW r, Tell(r, TRUE), finished' = finished \union {r},
             todo' = [todo EXCEPT ![0] = @ \ {r}]
      PROVE  AnswerInv'
  <2>1. /\ DOMAIN client' = Request /\ Answered \subseteq Answered'
        /\ r \in Request => r \in Answered'
    BY <1>0, <1>3, TellAnswers
  <2> QED
    BY <1>0, <1>1, <1>3, <2>1, QuietStepKeeps
<1> QED
  BY <1>2, <1>3 DEF FailRequest, clientVars

\* Every step keeps the invariant.
LEMMA StepKeepsAnswerInv == AnswerInv /\ [Next]_vars => AnswerInv'
<1> SUFFICES ASSUME AnswerInv, [Next]_vars
             PROVE  AnswerInv'
  OBVIOUS
<1>0. DOMAIN client = Request /\ DOMAIN phase = Request /\ DOMAIN lane_at = Lane
      /\ DOMAIN todo = Lane
  BY DEF AnswerInv, Shapes
<1>1. ASSUME NEW r \in Request, Submit(r) \/ Overloaded(r) \/ Read(r) \/ Disconnect(r)
      PROVE  AnswerInv'
  BY <1>1, ClientSteps
<1>2. CASE CloseDoor \/ UNCHANGED vars
  <2>1. UNCHANGED <<clientVars, requestVars, laneVars>>
    BY <1>2 DEF CloseDoor, vars
  <2> QED
    BY <1>0, <2>1, QuietStepKeeps DEF Answered, clientVars, requestVars, laneVars
<1>3. CASE ServeStep
  BY <1>3, BoundaryKeeps, AdmissionKeeps, PrefillKeeps, DispatchKeeps, JoinKeeps,
     FailRequestKeeps DEF ServeStep
<1>4. ASSUME NEW l \in Lane, LaneStep(l)
      PROVE  AnswerInv'
  BY <1>4, LaneRetiresKeeps, LaneReleasesKeeps, LaneDeliverKeeps, OtherLaneStepsKeep
     DEF LaneStep
<1> QED
  BY <1>1, <1>2, <1>3, <1>4 DEF Next

\* A request leaves only when its client has been told a finish or an error or
\* has gone, whichever of the loop, a lane or a failure ended it.
THEOREM NobodyLeavesUnanswered == Spec => []AnsweredWhenGone
<1>1. AnswerInv => AnsweredWhenGone
  BY DEF AnswerInv, EndedAreAnswered, AnsweredWhenGone, Answered
<1> QED
  BY <1>1, InitAnswers, StepKeepsAnswerInv, PTL DEF Spec


-----------------------------------------------------------------------------
(* Pages: a request's pages are numbered from one, and an append adds the    *)
(* pages between its old and its new last one.                               *)

\* A page has at least one row.
LEMMA PageRows == PAGE_ROWS \in Nat /\ PAGE_ROWS > 0
  BY SchedulerAssumption

\* No rows need no page, and more rows never need fewer pages.
LEMMA PagesGrow ==
    /\ Pages(0) = 0
    /\ \A n \in Nat : Pages(n) \in Nat
    /\ \A m, n \in Nat : m <= n => Pages(m) <= Pages(n)
<1>1. Pages(0) = 0
  BY PageRows, Z3 DEF Pages
<1>2. \A n \in Nat : Pages(n) \in Nat
  BY PageRows, Z3 DEF Pages
<1>3. ASSUME NEW m \in Nat, NEW n \in Nat, m <= n PROVE Pages(m) <= Pages(n)
  <2> DEFINE a == m + PAGE_ROWS - 1
             b == n + PAGE_ROWS - 1
  <2>1. a \in Nat /\ b \in Nat /\ a <= b
    BY <1>3, PageRows
  <2> HIDE DEF a, b
  <2>2. a \div PAGE_ROWS <= b \div PAGE_ROWS
    <3>1. PICK qa, qb, ra, rb : /\ qa = a \div PAGE_ROWS /\ qb = b \div PAGE_ROWS
                                /\ ra = a % PAGE_ROWS /\ rb = b % PAGE_ROWS
      OBVIOUS
    <3>2. /\ qa \in Nat /\ qb \in Nat /\ ra \in 0..PAGE_ROWS - 1 /\ rb \in 0..PAGE_ROWS - 1
          /\ a = qa * PAGE_ROWS + ra /\ b = qb * PAGE_ROWS + rb
      BY <2>1, <3>1, PageRows, Z3
    <3>3. qb < qa => qb * PAGE_ROWS + PAGE_ROWS <= qa * PAGE_ROWS
      BY <3>2, PageRows, Z3
    <3>4. qa * PAGE_ROWS \in Int /\ qb * PAGE_ROWS \in Int
      BY <3>2, PageRows
    <3>5. qa <= qb
      BY <2>1, <3>2, <3>3, <3>4, PageRows
    <3> QED BY <3>1, <3>5
  <2> QED BY <2>2 DEF Pages, a, b
<1> QED BY <1>1, <1>2, <1>3

\* The pages of a request above the first m, up to the n-th.
Slice(r, m, n) == {r} \X (m + 1..n)

\* Every declared page of the requests H that no row of theirs has taken yet.
Owed(H, held) == UNION {Slice(r, Pages(held[r]), Pages(Prompt[r] + Output[r])) : r \in H}

\* A page is named by its request and its place.
LEMMA PageNames ==
    ASSUME NEW held
    PROVE  /\ \A S : \A x : x \in PagesOf(S, held)
                 <=> \E r \in S : \E i \in 1..Pages(held[r]) : x = <<r, i>>
           /\ \A work : \A x : x \in Added(work, held)
                 <=> \E r \in DOMAIN work :
                        \E i \in Pages(held[r]) + 1..Pages(held[r] + work[r]) : x = <<r, i>>
           /\ \A H : \A x : x \in Owed(H, held)
                 <=> \E r \in H :
                        \E i \in Pages(held[r]) + 1..Pages(Prompt[r] + Output[r]) : x = <<r, i>>
<1>1. \A r, a, b, x : x \in {r} \X (a..b) <=> \E i \in a..b : x = <<r, i>>
  OBVIOUS
<1>2. \A S : \A x : x \in PagesOf(S, held)
                 <=> \E r \in S : \E i \in 1..Pages(held[r]) : x = <<r, i>>
  BY <1>1 DEF PagesOf
<1>3. \A work : \A x : x \in Added(work, held)
                 <=> \E r \in DOMAIN work :
                        \E i \in Pages(held[r]) + 1..Pages(held[r] + work[r]) : x = <<r, i>>
  BY <1>1 DEF Added
<1>4. \A H : \A x : x \in Owed(H, held)
                 <=> \E r \in H :
                        \E i \in Pages(held[r]) + 1..Pages(Prompt[r] + Output[r]) : x = <<r, i>>
  BY <1>1 DEF Owed, Slice
<1> QED BY <1>2, <1>3, <1>4

\* A run of pages is as large as it is long.
LEMMA SliceCount ==
    ASSUME NEW r, NEW n \in Nat
    PROVE  IsFiniteSet({r} \X (1..n)) /\ Cardinality({r} \X (1..n)) = n
<1>1. IsFiniteSet(1..n) /\ Cardinality(1..n) = n
  BY FS_Interval
<1>2. IsFiniteSet({r}) /\ Cardinality({r}) = 1
  BY FS_Singleton
<1>3. /\ IsFiniteSet({r} \X (1..n))
      /\ Cardinality({r} \X (1..n)) = Cardinality({r}) * Cardinality(1..n)
  BY <1>1, <1>2, FS_Product
<1> QED BY <1>1, <1>2, <1>3

-----------------------------------------------------------------------------
(***************************************************************************)
(* The budget.  Every page of the pool is free, spare or held by a         *)
(* request, and the free and spare ones cover the declared lifetime of     *)
(* every holder.                                                           *)
(***************************************************************************)
Pools == [size : PoolSizes, free : Nat, spare : Nat, tails : SUBSET Request]

PagesAdd(p, held) ==
    /\ IsFiniteSet(PagesOf(Request, held))
    /\ p.free + p.spare + Cardinality(PagesOf(Request, held)) = p.size

TailsPartial(p, held) == \A r \in p.tails : held[r] % PAGE_ROWS # 0

Covered(p, H, held) ==
    /\ IsFiniteSet(Owed(H, held))
    /\ Cardinality(Owed(H, held)) <= p.free + p.spare

Accounts(p, H, held) ==
    p \in Pools /\ PagesAdd(p, held) /\ TailsPartial(p, held) /\ Covered(p, H, held)

\* What evicting snapshots leaves: as many pages, and fewer shared tails.
Looser(p, q) ==
    /\ q \in Pools
    /\ q.size = p.size
    /\ q.free + q.spare = p.free + p.spare
    /\ q.tails \subseteq p.tails

\* Sizes of pools are numbers.
LEMMA PoolFields ==
    ASSUME NEW p \in Pools
    PROVE  /\ p.size \in Nat /\ p.free \in Nat /\ p.spare \in Nat
           /\ p.size \in PoolSizes /\ p.tails \subseteq Request
  BY SchedulerAssumption DEF Pools

\* The pool when k of the spare pages and the tails t are given up.
EvictedBy(p, k, t) == [p EXCEPT !.free = @ + k, !.spare = @ - k, !.tails = @ \ t]

\* Evicting snapshots, some or all, only loosens the pool.
LEMMA EvictedIsLooser ==
    ASSUME NEW p \in Pools
    PROVE  /\ \A q \in Evicted(p) : Looser(p, q)
           /\ Looser(p, Emptied(p)) /\ Looser(p, p)
<1>1. ASSUME NEW q \in Evicted(p) PROVE Looser(p, q)
  <2>1. PICK k \in 0..p.spare, t \in SUBSET p.tails :
            q = EvictedBy(p, k, t)
    <3>1. Evicted(p) = UNION {{EvictedBy(p, k, t) : t \in SUBSET p.tails} : k \in 0..p.spare}
      BY DEF Evicted, EvictedBy
    <3> QED BY <3>1
  <2>2. /\ q.size = p.size /\ q.free = p.free + k /\ q.spare = p.spare - k
        /\ q.tails = p.tails \ t
        /\ q = [size |-> p.size, free |-> p.free + k, spare |-> p.spare - k,
                tails |-> p.tails \ t]
    BY <2>1 DEF Pools, EvictedBy
  <2> QED BY <2>2, PoolFields DEF Looser, Pools
<1>2. Looser(p, Emptied(p))
  <2> DEFINE q == Emptied(p)
             f == p.free + p.spare
  <2>1. q = [p EXCEPT !.free = f, !.spare = 0, !.tails = {}]
    BY DEF Emptied, Pools
  <2>2. f \in Nat
    BY PoolFields
  <2> HIDE DEF q, f
  <2>3. q \in Pools /\ q.free = f /\ q.spare = 0 /\ q.size = p.size /\ q.tails = {}
    BY <2>1, <2>2 DEF Pools
  <2>4. q.free + q.spare = p.free + p.spare
    BY <2>2, <2>3 DEF f
  <2>5. Looser(p, q)
    BY <2>3, <2>4 DEF Looser
  <2> QED BY <2>5 DEF q
<1>3. Looser(p, p)
  BY PoolFields DEF Looser
<1> QED BY <1>1, <1>2, <1>3

\* Making room only loosens the pool, and the work then fits.
LEMMA RoomIsLooser ==
    ASSUME NEW p \in Pools, NEW work, NEW held, NEW q \in Rooms(work, held, p)
    PROVE  Looser(p, q) /\ Fits(work, held, q)
  BY EvictedIsLooser DEF Rooms

\* A looser pool is in order for the same requests.
LEMMA LooserAccounts ==
    ASSUME NEW p, NEW q, NEW H, NEW held, Accounts(p, H, held), Looser(p, q)
    PROVE  Accounts(q, H, held)
<1>1. PagesAdd(q, held)
  BY DEF Accounts, Looser, PagesAdd
<1>2. Covered(q, H, held) /\ TailsPartial(q, held)
  BY DEF Accounts, Looser, Covered, TailsPartial
<1> QED BY <1>1, <1>2 DEF Accounts, Looser

\* The requests that leave give their pages back, to the free or to the spare ones.
LEMMA ReleasedAccounts ==
    ASSUME NEW p, NEW H, Accounts(p, H, rows), NEW over, over \subseteq Request,
           NEW q \in Released(p, over), NEW K, K \subseteq H \ over,
           NEW held, \A r \in Request : held[r] = IF r \in over THEN 0 ELSE rows[r],
           H \subseteq Request
    PROVE  Accounts(q, K, held)
<1> DEFINE U == PagesOf(over, rows)
           P == PagesOf(Request, rows)
<1>1. IsFiniteSet(P) /\ p \in Pools /\ p.free + p.spare + Cardinality(P) = p.size
  BY DEF Accounts, PagesAdd
<1>2. U \subseteq P /\ PagesOf(Request, held) = P \ U
  <2>1. U \subseteq P
    BY PageNames
  <2>2. \A r \in Request : Pages(held[r]) = IF r \in over THEN 0 ELSE Pages(rows[r])
    BY PagesGrow
  <2>3. \A x : x \in PagesOf(Request, held)
            <=> \E r \in Request \ over : \E i \in 1..Pages(rows[r]) : x = <<r, i>>
    <3>1. \A r \in Request : r \in over => 1..Pages(held[r]) = {}
      BY <2>2
    <3>2. \A r \in Request : r \notin over => Pages(held[r]) = Pages(rows[r])
      BY <2>2
    <3> QED BY <3>1, <3>2, PageNames
  <2>4. \A x : x \in P \ U
            <=> \E r \in Request \ over : \E i \in 1..Pages(rows[r]) : x = <<r, i>>
    BY PageNames
  <2> QED BY <2>1, <2>3, <2>4
<1>3. /\ IsFiniteSet(U) /\ IsFiniteSet(P \ U)
      /\ Cardinality(U) \in Nat /\ Cardinality(P) \in Nat
      /\ Cardinality(P \ U) = Cardinality(P) - Cardinality(U)
  BY <1>1, <1>2, CountRemoved, FS_CardinalityType
<1>4. PICK k \in 0..Cardinality(U) :
          q = [p EXCEPT !.free = @ + Cardinality(U) - k, !.spare = @ + k, !.tails = @ \ over]
  BY DEF Released
<1>5. /\ q.size = p.size /\ q.free = p.free + Cardinality(U) - k /\ q.spare = p.spare + k
      /\ q.tails = p.tails \ over /\ q \in Pools
  <2> DEFINE f == p.free + Cardinality(U) - k
             s == p.spare + k
  <2>1. f \in Nat /\ s \in Nat
    BY <1>1, <1>3, PoolFields
  <2>2. q = [p EXCEPT !.free = f, !.spare = s, !.tails = p.tails \ over]
    BY <1>1, <1>4 DEF Pools
  <2> HIDE DEF f, s
  <2>3. q \in Pools /\ q.free = f /\ q.spare = s /\ q.size = p.size /\ q.tails = p.tails \ over
    BY <1>1, <2>1, <2>2 DEF Pools
  <2> QED BY <2>3 DEF f, s
<1> HIDE DEF U, P
<1>6. PagesAdd(q, held)
  <2>1. p.free \in Nat /\ p.spare \in Nat /\ p.size \in Nat
    BY <1>1, PoolFields
  <2>2. q.free + q.spare + (Cardinality(P) - Cardinality(U)) = p.size
    BY <1>1, <1>3, <1>5, <2>1
  <2> QED BY <1>2, <1>3, <1>5, <2>2 DEF PagesAdd
<1>7. TailsPartial(q, held)
  BY <1>1, <1>5, PoolFields DEF TailsPartial, Accounts
<1>8. Covered(q, K, held)
  <2>1. \A r \in K : r \in H /\ held[r] = rows[r]
    OBVIOUS
  <2>2. Owed(K, held) \subseteq Owed(H, rows)
    BY <2>1, PageNames
  <2>3. IsFiniteSet(Owed(K, held)) /\ Cardinality(Owed(K, held)) <= Cardinality(Owed(H, rows))
        /\ Cardinality(Owed(K, held)) \in Nat /\ Cardinality(Owed(H, rows)) \in Nat
    BY <2>2, FS_Subset, FS_CardinalityType DEF Accounts, Covered
  <2>4. Cardinality(Owed(H, rows)) <= p.free + p.spare
    BY DEF Accounts, Covered
  <2> QED BY <1>1, <1>3, <1>5, <2>3, <2>4, PoolFields DEF Covered
<1> QED BY <1>5, <1>6, <1>7, <1>8 DEF Accounts

\* Declared lifetimes are numbers of rows.
LEMMA Lifetimes ==
    ASSUME NEW r \in Request
    PROVE  /\ Prompt[r] \in Nat /\ Output[r] \in Nat /\ Prompt[r] > 0 /\ Output[r] > 0
           /\ Prompt[r] + Output[r] \in Nat
  BY SchedulerAssumption

\* An append within the lifetimes moves pages from owed to held, and copies of
\* shared last pages move pages from free to spare.
LEMMA AppendedAccounts ==
    ASSUME NEW p, NEW H, H \subseteq Request, Accounts(p, H, rows),
           NEW work, DOMAIN work \subseteq H, IsFiniteSet(DOMAIN work),
           \A r \in Request : rows[r] \in Nat,
           \A r \in DOMAIN work : work[r] \in Nat /\ rows[r] + work[r] <= Prompt[r] + Output[r],
           Demand(work, rows, p.tails) <= p.free,
           NEW held,
           \A r \in Request : held[r] = IF r \in DOMAIN work THEN rows[r] + work[r] ELSE rows[r]
    PROVE  Accounts(Appended(work, p), H, held)
<1> DEFINE A == Added(work, rows)
           C == Copied(work, p.tails)
           P == PagesOf(Request, rows)
           W == Owed(H, rows)
           q == Appended(work, p)
<1>1. /\ p \in Pools /\ IsFiniteSet(P) /\ p.free + p.spare + Cardinality(P) = p.size
      /\ IsFiniteSet(W) /\ Cardinality(W) <= p.free + p.spare
  BY DEF Accounts, PagesAdd, Covered
<1>2. \A r \in DOMAIN work :
          /\ r \in Request /\ r \in H
          /\ Pages(rows[r]) \in Nat /\ Pages(held[r]) \in Nat
          /\ Pages(Prompt[r] + Output[r]) \in Nat
          /\ Pages(held[r]) = Pages(rows[r] + work[r])
          /\ Pages(rows[r]) <= Pages(held[r])
          /\ Pages(held[r]) <= Pages(Prompt[r] + Output[r])
  <2> SUFFICES ASSUME NEW r \in DOMAIN work
               PROVE  /\ r \in Request /\ r \in H
                      /\ Pages(rows[r]) \in Nat /\ Pages(held[r]) \in Nat
                      /\ Pages(Prompt[r] + Output[r]) \in Nat
                      /\ Pages(held[r]) = Pages(rows[r] + work[r])
                      /\ Pages(rows[r]) <= Pages(held[r])
                      /\ Pages(held[r]) <= Pages(Prompt[r] + Output[r])
    OBVIOUS
  <2>1. r \in Request /\ r \in H /\ rows[r] \in Nat /\ work[r] \in Nat
        /\ held[r] = rows[r] + work[r] /\ held[r] <= Prompt[r] + Output[r]
    OBVIOUS
  <2>2. held[r] \in Nat /\ rows[r] <= held[r] /\ Prompt[r] + Output[r] \in Nat
    BY <2>1, Lifetimes
  <2> QED BY <2>1, <2>2, PagesGrow
<1>3. A \subseteq W /\ Owed(H, held) = W \ A
  <2>1. A \subseteq W
    <3> SUFFICES ASSUME NEW x \in A PROVE x \in W
      OBVIOUS
    <3>0. PICK r \in DOMAIN work :
          \E i \in Pages(rows[r]) + 1..Pages(rows[r] + work[r]) : x = <<r, i>>
      BY PageNames
    <3>1. PICK i \in Pages(rows[r]) + 1..Pages(rows[r] + work[r]) :
          r \in DOMAIN work /\ x = <<r, i>>
      BY <3>0
    <3>2. r \in H /\ i \in Pages(rows[r]) + 1..Pages(Prompt[r] + Output[r])
      BY <1>2, <3>1
    <3> QED BY <3>1, <3>2, PageNames
  <2>2. ASSUME NEW x \in Owed(H, held) PROVE x \in W \ A
    <3>0. PICK r \in H : \E i \in Pages(held[r]) + 1..Pages(Prompt[r] + Output[r]) : x = <<r, i>>
      BY <2>2, PageNames
    <3>1. PICK i \in Pages(held[r]) + 1..Pages(Prompt[r] + Output[r]) : r \in H /\ x = <<r, i>>
      BY <3>0
    <3>2. i \in Pages(rows[r]) + 1..Pages(Prompt[r] + Output[r])
      BY <1>2, <3>1
    <3>3. x \notin A
      <4> SUFFICES ASSUME x \in A PROVE FALSE
        OBVIOUS
      <4>0. PICK s \in DOMAIN work :
            \E j \in Pages(rows[s]) + 1..Pages(rows[s] + work[s]) : x = <<s, j>>
        BY PageNames
      <4>1. PICK j \in Pages(rows[s]) + 1..Pages(rows[s] + work[s]) :
            s \in DOMAIN work /\ x = <<s, j>>
        BY <4>0
      <4>2. s = r /\ j = i
        BY <3>1, <4>1
      <4> QED BY <1>2, <3>1, <4>1, <4>2
    <3> QED BY <3>1, <3>2, <3>3, PageNames
  <2>3. ASSUME NEW x \in W \ A PROVE x \in Owed(H, held)
    <3>0. PICK r \in H : \E i \in Pages(rows[r]) + 1..Pages(Prompt[r] + Output[r]) : x = <<r, i>>
      BY <2>3, PageNames
    <3>1. PICK i \in Pages(rows[r]) + 1..Pages(Prompt[r] + Output[r]) : r \in H /\ x = <<r, i>>
      BY <3>0
    <3>2. CASE r \in DOMAIN work
      <4>1. i \notin Pages(rows[r]) + 1..Pages(rows[r] + work[r])
        BY <2>3, <3>1, <3>2, PageNames
      <4>2. i \in Pages(held[r]) + 1..Pages(Prompt[r] + Output[r])
        BY <1>2, <3>1, <3>2, <4>1
      <4> QED BY <3>1, <4>2, PageNames
    <3>3. CASE r \notin DOMAIN work
      <4>1. held[r] = rows[r]
        BY <3>3
      <4> QED BY <3>1, <4>1, PageNames
    <3> QED BY <3>2, <3>3
  <2> QED BY <2>1, <2>2, <2>3
<1>4. PagesOf(Request, held) = P \union A /\ P \intersect A = {}
  <2>1. ASSUME NEW x \in PagesOf(Request, held) PROVE x \in P \union A
    <3>0. PICK r \in Request : \E i \in 1..Pages(held[r]) : x = <<r, i>>
      BY <2>1, PageNames
    <3>1. PICK i \in 1..Pages(held[r]) : r \in Request /\ x = <<r, i>>
      BY <3>0
    <3>2. CASE r \in DOMAIN work
      <4>1. i \in 1..Pages(rows[r]) \/ i \in Pages(rows[r]) + 1..Pages(rows[r] + work[r])
        BY <1>2, <3>1, <3>2
      <4> QED BY <3>1, <3>2, <4>1, PageNames
    <3>3. CASE r \notin DOMAIN work
      <4>1. held[r] = rows[r]
        BY <3>3
      <4> QED BY <3>1, <4>1, PageNames
    <3> QED BY <3>2, <3>3
  <2>2. ASSUME NEW x \in P PROVE x \in PagesOf(Request, held)
    <3>0. PICK r \in Request : \E i \in 1..Pages(rows[r]) : x = <<r, i>>
      BY <2>2, PageNames
    <3>1. PICK i \in 1..Pages(rows[r]) : r \in Request /\ x = <<r, i>>
      BY <3>0
    <3>2. i \in 1..Pages(held[r])
      <4>1. CASE r \in DOMAIN work
        BY <1>2, <3>1, <4>1
      <4>2. CASE r \notin DOMAIN work
        BY <3>1, <4>2
      <4> QED BY <4>1, <4>2
    <3> QED BY <3>1, <3>2, PageNames
  <2>3. ASSUME NEW x \in A PROVE x \in PagesOf(Request, held) /\ x \notin P
    <3>0. PICK r \in DOMAIN work :
          \E i \in Pages(rows[r]) + 1..Pages(rows[r] + work[r]) : x = <<r, i>>
      BY <2>3, PageNames
    <3>1. PICK i \in Pages(rows[r]) + 1..Pages(rows[r] + work[r]) :
          r \in DOMAIN work /\ x = <<r, i>>
      BY <3>0
    <3>2. r \in Request /\ i \in 1..Pages(held[r]) /\ i \notin 1..Pages(rows[r])
      BY <1>2, <3>1
    <3>3. x \notin P
      <4> SUFFICES ASSUME x \in P PROVE FALSE
        OBVIOUS
      <4>0. PICK s \in Request : \E j \in 1..Pages(rows[s]) : x = <<s, j>>
        BY PageNames
      <4>1. PICK j \in 1..Pages(rows[s]) : s \in Request /\ x = <<s, j>>
        BY <4>0
      <4>2. s = r /\ j = i
        BY <3>1, <4>1
      <4> QED BY <3>2, <4>1, <4>2
    <3> QED BY <3>1, <3>2, <3>3, PageNames
  <2> QED BY <2>1, <2>2, <2>3
<1>5. /\ IsFiniteSet(A) /\ IsFiniteSet(W \ A) /\ Cardinality(A) \in Nat /\ Cardinality(W) \in Nat
      /\ Cardinality(W \ A) = Cardinality(W) - Cardinality(A)
  BY <1>1, <1>3, CountRemoved, FS_CardinalityType
<1>6. /\ IsFiniteSet(P \union A) /\ Cardinality(P) \in Nat
      /\ Cardinality(P \union A) = Cardinality(P) + Cardinality(A)
  BY <1>1, <1>4, <1>5, CountAdded, FS_CardinalityType
<1>7. IsFiniteSet(C) /\ Cardinality(C) \in Nat /\ C \subseteq DOMAIN work
  <2>1. C \in SUBSET DOMAIN work
    BY DEF Copied
  <2> QED BY <2>1, FS_Subset, FS_CardinalityType
<1>8. Cardinality(A) + Cardinality(C) <= p.free
      /\ Demand(work, rows, p.tails) = Cardinality(A) + Cardinality(C)
  BY DEF Demand
<1>9. /\ q \in Pools /\ q.size = p.size /\ q.free = p.free - (Cardinality(A) + Cardinality(C))
      /\ q.spare = p.spare + Cardinality(C) /\ q.tails = p.tails \ C
  <2> DEFINE f == p.free - (Cardinality(A) + Cardinality(C))
             s == p.spare + Cardinality(C)
             t == p.tails \ C
  <2>1. f \in Nat /\ s \in Nat /\ t \subseteq Request
    BY <1>1, <1>5, <1>7, <1>8, PoolFields
  <2>2. q = [p EXCEPT !.free = f, !.spare = s, !.tails = t]
    BY <1>1, <1>8 DEF Appended, Pools
  <2> HIDE DEF f, s, t, q
  <2>3. q \in Pools /\ q.free = f /\ q.spare = s /\ q.size = p.size /\ q.tails = t
    BY <1>1, <2>1, <2>2 DEF Pools
  <2> QED BY <2>3 DEF f, s, t
<1>10. TailsPartial(q, held)
  <2> SUFFICES ASSUME NEW r \in p.tails, r \notin C PROVE held[r] % PAGE_ROWS # 0
    BY <1>9 DEF TailsPartial
  <2>1. r \in Request /\ rows[r] % PAGE_ROWS # 0
    BY <1>1, PoolFields DEF Accounts, TailsPartial
  <2>2. held[r] = rows[r]
    <3>1. CASE r \in DOMAIN work
      <4>1. work[r] \in Nat /\ ~(work[r] > 0)
        BY <3>1 DEF Copied
      <4> QED BY <2>1, <3>1, <4>1
    <3> QED BY <2>1, <3>1
  <2> QED BY <2>1, <2>2
<1> HIDE DEF A, C, P, W, q
<1>11. p.free \in Nat /\ p.spare \in Nat /\ p.size \in Nat
  BY <1>1, PoolFields
<1>12. PagesAdd(q, held)
  <2>1. q.free + q.spare + (Cardinality(P) + Cardinality(A)) = p.size
    BY <1>1, <1>5, <1>6, <1>7, <1>9, <1>11
  <2> QED BY <1>4, <1>6, <1>9, <2>1 DEF PagesAdd
<1>13. Covered(q, H, held)
  <2>1. Cardinality(W) - Cardinality(A) <= q.free + q.spare
    BY <1>1, <1>5, <1>7, <1>9, <1>11
  <2> QED BY <1>3, <1>5, <2>1 DEF Covered
<1> QED BY <1>9, <1>10, <1>12, <1>13 DEF Accounts, q

\* The pool when request r has restored a prefix of c rows.
RestoredPool(p, r, c) ==
    [p EXCEPT !.spare = @ - Pages(c),
              !.tails = IF c % PAGE_ROWS = 0 THEN @ ELSE @ \union {r}]

\* A restored prefix takes its pages from the spare ones.
LEMMA RestoredAccounts ==
    ASSUME NEW p, NEW H, Accounts(p, H, rows), NEW r \in Request, rows[r] = 0,
           NEW c \in Nat, Pages(c) <= p.spare,
           \A s \in Request : rows[s] \in Nat,
           NEW held, \A s \in Request : held[s] = IF s = r THEN c ELSE rows[s]
    PROVE  LET q == RestoredPool(p, r, c) IN
           /\ q \in Pools
           /\ PagesAdd(q, held)
           /\ TailsPartial(q, held)
<1> DEFINE q == RestoredPool(p, r, c)
           P == PagesOf(Request, rows)
           N == {r} \X (1..Pages(c))
<1>1. /\ p \in Pools /\ IsFiniteSet(P) /\ p.free + p.spare + Cardinality(P) = p.size
      /\ p.free \in Nat /\ p.spare \in Nat /\ p.size \in Nat /\ p.tails \subseteq Request
      /\ Pages(c) \in Nat
  BY PoolFields, PagesGrow DEF Accounts, PagesAdd
<1>2. /\ q \in Pools /\ q.size = p.size /\ q.free = p.free /\ q.spare = p.spare - Pages(c)
      /\ q.tails = IF c % PAGE_ROWS = 0 THEN p.tails ELSE p.tails \union {r}
  <2> DEFINE s == p.spare - Pages(c)
             t == IF c % PAGE_ROWS = 0 THEN p.tails ELSE p.tails \union {r}
  <2>1. s \in Nat /\ t \subseteq Request
    BY <1>1
  <2>2. q = [p EXCEPT !.spare = s, !.tails = t]
    BY <1>1 DEF Pools, RestoredPool
  <2> HIDE DEF s, t, q
  <2>3. q \in Pools /\ q.free = p.free /\ q.spare = s /\ q.size = p.size /\ q.tails = t
    BY <1>1, <2>1, <2>2 DEF Pools
  <2> QED BY <2>3 DEF s, t
<1>3. PagesOf(Request, held) = P \union N /\ P \intersect N = {}
  <2>1. \A x : x \in N <=> \E i \in 1..Pages(c) : x = <<r, i>>
    OBVIOUS
  <2>2. ASSUME NEW x \in PagesOf(Request, held) PROVE x \in P \union N
    <3>0. PICK s \in Request : \E i \in 1..Pages(held[s]) : x = <<s, i>>
      BY <2>2, PageNames
    <3>1. CASE s = r
      BY <2>1, <3>0, <3>1
    <3>2. CASE s # r
      BY <3>0, <3>2, PageNames
    <3> QED BY <3>1, <3>2
  <2>3. ASSUME NEW x \in P PROVE x \in PagesOf(Request, held) /\ x \notin N
    <3>0. PICK s \in Request : \E i \in 1..Pages(rows[s]) : x = <<s, i>>
      BY <2>3, PageNames
    <3>1. s # r
      BY <3>0, PagesGrow
    <3>2. held[s] = rows[s]
      BY <3>0, <3>1
    <3> QED BY <2>1, <3>0, <3>1, <3>2, PageNames
  <2>4. ASSUME NEW x \in N PROVE x \in PagesOf(Request, held)
    <3>1. held[r] = c
      OBVIOUS
    <3> QED BY <2>1, <2>4, <3>1, PageNames
  <2> QED BY <2>2, <2>3, <2>4
<1>4. /\ IsFiniteSet(P \union N)
      /\ Cardinality(P \union N) = Cardinality(P) + Pages(c)
      /\ Cardinality(P) \in Nat
  <2>1. IsFiniteSet(N) /\ Cardinality(N) = Pages(c)
    BY <1>1, SliceCount
  <2> HIDE DEF N, P
  <2> QED BY <1>1, <1>3, <2>1, CountAdded, FS_CardinalityType
<1>5. PagesAdd(q, held)
  <2> HIDE DEF q, P, N
  <2>1. q.free + q.spare + (Cardinality(P) + Pages(c)) = p.size
    BY <1>1, <1>2, <1>4
  <2> QED BY <1>2, <1>3, <1>4, <2>1 DEF PagesAdd
<1>6. TailsPartial(q, held)
  <2>1. \A s \in p.tails : rows[s] % PAGE_ROWS # 0 /\ s \in Request
    BY <1>1 DEF Accounts, TailsPartial
  <2>2. 0 % PAGE_ROWS = 0
    BY PageRows, Z3
  <2>3. r \notin p.tails
    BY <2>1, <2>2
  <2> QED BY <1>2, <2>1, <2>3 DEF TailsPartial
<1> QED BY <1>2, <1>5, <1>6

\* Admission checks the lifetime of the new request and of every active one.
LEMMA AdmittedAccounts ==
    ASSUME NEW p, NEW H, H \subseteq Request, IsFiniteSet(H), Accounts(p, H, rows),
           NEW r \in Request, r \notin H, rows[r] = 0,
           NEW c \in Nat, Pages(c) <= p.spare, c <= Prompt[r],
           \A s \in Request : rows[s] \in Nat,
           \A s \in H : rows[s] <= Prompt[s] + Output[s],
           NEW held, \A s \in Request : held[s] = IF s = r THEN c ELSE rows[s],
           NEW work, DOMAIN work = H \union {r},
           \A s \in H \union {r} : work[s] = Remaining(s, held),
           NEW q \in Rooms(work, held, RestoredPool(p, r, c))
    PROVE  Accounts(q, H \union {r}, held)
<1> DEFINE K == H \union {r}
           o == RestoredPool(p, r, c)
           N == Slice(r, Pages(c), Pages(Prompt[r] + Output[r]))
           A == Added(work, held)
           C == Copied(work, q.tails)
           W == Owed(H, rows)
<1>1. o \in Pools /\ PagesAdd(o, held) /\ TailsPartial(o, held)
  BY RestoredAccounts
<1> HIDE DEF o
<1>2. Looser(o, q) /\ Fits(work, held, q)
  BY <1>1, RoomIsLooser DEF o
<1>3. q \in Pools /\ PagesAdd(q, held) /\ TailsPartial(q, held)
  BY <1>1, <1>2 DEF Looser, PagesAdd, TailsPartial
<1>4. \A s \in K : held[s] \in Nat /\ held[s] + work[s] = Prompt[s] + Output[s]
  <2> SUFFICES ASSUME NEW s \in K PROVE held[s] \in Nat /\ held[s] + work[s] = Prompt[s] + Output[s]
    OBVIOUS
  <2>1. s \in Request /\ held[s] \in Nat /\ Prompt[s] \in Nat /\ Output[s] \in Nat
    BY Lifetimes
  <2>2. work[s] = Prompt[s] + Output[s] - held[s]
    BY DEF Remaining
  <2> QED BY <2>1, <2>2
<1>5. Owed(K, held) = A
  <2>1. \A x : x \in Owed(K, held) <=> x \in A
    BY <1>4, PageNames
  <2> QED BY <2>1
<1>6. IsFiniteSet(Owed(K, held))
  <2>1. \A x : x \in N <=> \E i \in Pages(c) + 1..Pages(Prompt[r] + Output[r]) : x = <<r, i>>
    BY DEF Slice
  <2>2. ASSUME NEW x \in Owed(K, held) PROVE x \in W \union N
    <3>0. PICK s \in K : \E i \in Pages(held[s]) + 1..Pages(Prompt[s] + Output[s]) : x = <<s, i>>
      BY <2>2, PageNames
    <3>1. CASE s = r
      BY <2>1, <3>0, <3>1
    <3>2. CASE s # r
      BY <3>0, <3>2, PageNames
    <3> QED BY <3>1, <3>2
  <2>3. IsFiniteSet(W)
    BY DEF Accounts, Covered
  <2>4. IsFiniteSet(N)
    <3>1. Pages(c) \in Nat /\ Pages(Prompt[r] + Output[r]) \in Nat
      BY PagesGrow, Lifetimes
    <3>2. IsFiniteSet({r} \X (1..Pages(Prompt[r] + Output[r])))
      BY <3>1, SliceCount
    <3>3. N \subseteq {r} \X (1..Pages(Prompt[r] + Output[r]))
      BY <3>1 DEF Slice
    <3> HIDE DEF N
    <3> QED BY <3>2, <3>3, FS_Subset
  <2> HIDE DEF N, W, K
  <2> QED BY <2>2, <2>3, <2>4, FS_Union, FS_Subset
<1>7. IsFiniteSet(C) /\ Cardinality(C) \in Nat
  <2>1. IsFiniteSet(K)
    BY FS_AddElement
  <2>2. C \in SUBSET K
    BY DEF Copied
  <2> HIDE DEF C, K
  <2> QED BY <2>1, <2>2, FS_Subset, FS_CardinalityType
<1>8. Cardinality(A) + Cardinality(C) <= q.free
  BY <1>2 DEF Fits, Demand
<1> HIDE DEF A, C, K
<1>9. Cardinality(A) \in Nat
  BY <1>5, <1>6, FS_CardinalityType
<1>10. Covered(q, K, held)
  <2>1. q.free \in Nat /\ q.spare \in Nat
    BY <1>3, PoolFields
  <2>2. Cardinality(A) <= q.free + q.spare
    BY <1>7, <1>8, <1>9, <2>1
  <2> QED BY <1>5, <1>6, <2>2 DEF Covered
<1>11. Accounts(q, K, held)
  BY <1>3, <1>10 DEF Accounts
<1> QED BY <1>11 DEF K

\* Initially nobody holds a page and nothing is owed.
LEMMA InitialAccounts ==
    ASSUME NEW p \in Pools, p.free = p.size, p.spare = 0, p.tails = {},
           NEW held, \A r \in Request : held[r] = 0
    PROVE  Accounts(p, {}, held)
<1>1. PagesOf(Request, held) = {}
  BY PageNames, PagesGrow
<1>2. Owed({}, held) = {}
  BY PageNames
<1>3. PagesAdd(p, held)
  BY <1>1, FS_EmptySet, PoolFields DEF PagesAdd
<1>4. Covered(p, {}, held) /\ TailsPartial(p, held)
  <2>1. 0 <= p.free + p.spare
    BY PoolFields
  <2> QED BY <1>2, <2>1, FS_EmptySet DEF Covered, TailsPartial
<1> QED BY <1>3, <1>4 DEF Accounts

-----------------------------------------------------------------------------
(***************************************************************************)
(* What is left to do is done for active requests: the members of a round  *)
(* are active on its lane until they are delivered, and a broken round     *)
(* fails active requests.                                                  *)
(***************************************************************************)
Working == {"verify", "deliver"}

MembersOnLane == \A l \in Lane : lane_at[l] \in Working => todo[l] \subseteq OnLane(l)

FailingActive == at = "failing" => todo[0] \subseteq Active

WorkInv == MembersOnLane /\ FailingActive

\* Initially no lane works.
LEMMA InitWork == Init => WorkInv
  BY DEF Init, WorkInv, MembersOnLane, FailingActive, Working

\* No active request leaves, and the work only gets less.
LEMMA QuietWork ==
    ASSUME WorkInv,
           \A r \in Request : phase[r] = "active" => phase'[r] = "active" /\ lane'[r] = lane[r],
           \A l \in Lane : lane_at'[l] \in Working =>
               lane_at[l] \in Working /\ todo'[l] \subseteq todo[l],
           at' = "failing" => at = "failing" /\ todo'[0] \subseteq todo[0]
    PROVE  WorkInv'
<1>1. /\ \A l \in Lane : OnLane(l) \subseteq OnLane(l)'
      /\ Active \subseteq Active'
  BY DEF OnLane, Active
<1>2. MembersOnLane'
  BY <1>1 DEF WorkInv, MembersOnLane
<1>3. FailingActive'
  BY <1>1 DEF WorkInv, FailingActive
<1> QED BY <1>2, <1>3 DEF WorkInv

\* Clients give nobody work and take nobody's.
LEMMA ClientWork ==
    ASSUME PlacesInv, WorkInv, NEW r \in Request,
           Submit(r) \/ Overloaded(r) \/ Read(r) \/ Disconnect(r)
    PROVE  WorkInv'
<1>1. /\ \/ phase' = phase
         \/ phase[r] = "new" /\ phase' = [phase EXCEPT ![r] = "gone"]
         \/ phase[r] = "new" /\ phase' = [phase EXCEPT ![r] = "queued"]
      /\ lane' = lane /\ lane_at' = lane_at /\ todo' = todo /\ at' = at
  BY DEF Submit, Overloaded, Read, Disconnect, requestVars, laneVars
<1>2. \A q \in Request : phase[q] = "active" => phase'[q] = "active" /\ lane'[q] = lane[q]
  BY <1>1 DEF PlacesInv, Types
<1> QED BY <1>1, <1>2, QuietWork

\* The serve thread starts a round with the members of each lane, and fails the
\* active requests when one breaks.
LEMMA ServeWork ==
    ASSUME PlacesInv, WorkInv, ServeStep
    PROVE  WorkInv'
<1>0. \A l \in Lane : at \notin {"round", "solo"} => lane_at[l] = "out"
  BY DEF PlacesInv, LanesIdle
<1>1. CASE Boundary \/ Prefill \/ AdmitCandidate
  <2>1. at \notin {"round", "solo"} /\ lane_at' = lane_at /\ at' # "failing"
    BY <1>1 DEF Boundary, Prefill, PrefillFailed, Prefilled, AdmitCandidate, DropCandidate,
       Admit, DoesNotFit, TakeCandidate, laneVars
  <2> QED BY <1>0, <2>1 DEF WorkInv, MembersOnLane, FailingActive, Working
<1>2. CASE Dispatch
  <2>1. at \notin {"round", "solo"} /\ phase' = phase /\ lane' = lane /\ at' # "failing"
    BY <1>2 DEF Dispatch
  <2>2. \/ lane_at' = lane_at
        \/ \A l \in Lane : lane_at'[l] \in Working => todo'[l] = Members(l)
    <3>1. CASE laneVars' = laneVars
      BY <3>1 DEF laneVars
    <3>2. CASE laneVars' # laneVars
      BY <1>2, <3>2 DEF Dispatch, Working
    <3> QED BY <3>1, <3>2
  <2>3. \A l \in Lane : OnLane(l)' = OnLane(l) /\ Members(l) \subseteq OnLane(l)
    BY <2>1 DEF OnLane, Active, Members
  <2> QED BY <1>0, <2>1, <2>2, <2>3 DEF WorkInv, MembersOnLane, FailingActive, Working
<1>3. CASE Join
  <2>1. /\ \A l \in Lane : lane_at'[l] = "out"
        /\ at' = "failing" => todo'[0] = Active
        /\ phase' = phase
    BY <1>3 DEF Join, requestVars, PlacesInv, Types, Lane
  <2> QED BY <2>1 DEF WorkInv, MembersOnLane, FailingActive, Working, Active
<1>4. CASE FailRequest
  <2>1. /\ phase' = phase /\ lane' = lane /\ lane_at' = lane_at /\ at = "failing"
        /\ \A l \in Lane : todo'[l] \subseteq todo[l]
    BY <1>4 DEF FailRequest, PlacesInv, Types
  <2> QED BY <2>1, QuietWork DEF Lane
<1> QED BY <1>1, <1>2, <1>3, <1>4 DEF ServeStep

\* A lane takes its active requests into a round and delivers to them; while it
\* works it retires none of them, and it never touches the other lane's.
LEMMA LaneWork ==
    ASSUME PlacesInv, WorkInv, NEW l \in Lane, LaneStep(l)
    PROVE  WorkInv'
<1>0. at' = at /\ at # "failing" /\ DOMAIN lane_at = Lane /\ DOMAIN todo = Lane
  BY LaneStepInRound DEF LaneStep, LaneStops, LaneRetires, LaneReleases, LaneEnter, LaneVerify,
     LaneDeliver, PlacesInv, Types
<1>1. CASE LaneStops(l) \/ LaneVerify(l) \/ LaneDeliver(l)
  <2>1. /\ phase' = phase /\ lane' = lane
        /\ \A k \in Lane : lane_at'[k] \in Working =>
               lane_at[k] \in Working /\ todo'[k] \subseteq todo[k]
    <3>1. CASE LaneStops(l)
      BY <1>0, <3>1 DEF LaneStops, requestVars, Working
    <3>2. CASE LaneVerify(l)
      BY <1>0, <3>2 DEF LaneVerify, LaneFails, LaneCommits, Working
    <3>3. CASE LaneDeliver(l)
      BY <1>0, <3>3 DEF LaneDeliver, Working
    <3> QED BY <1>1, <3>1, <3>2, <3>3
  <2> QED BY <1>0, <2>1, QuietWork
<1>2. CASE LaneEnter(l)
  <2>1. /\ phase' = phase /\ lane' = lane
        /\ \A k \in Lane : lane_at'[k] \in Working =>
               (lane_at[k] \in Working /\ todo'[k] \subseteq todo[k]) \/ todo'[k] = OnLane(k)
    BY <1>0, <1>2 DEF LaneEnter, requestVars, Working
  <2>2. \A k \in Lane : OnLane(k)' = OnLane(k)
    BY <2>1 DEF OnLane, Active
  <2> QED BY <1>0, <2>1, <2>2 DEF WorkInv, MembersOnLane, FailingActive
<1>3. CASE LaneRetires(l) \/ LaneReleases(l)
  <2>1. LaneMoves(l)
    BY <1>3, RetireAndReleaseMove
  <2>2. lane_at'[l] \notin Working
    BY <1>0, <1>3 DEF LaneRetires, LaneReleases, RetireFrom, Working
  <2>3. \A k \in Lane : k # l => /\ OnLane(k) \subseteq OnLane(k)'
                                 /\ lane_at'[k] = lane_at[k] /\ todo'[k] = todo[k]
    BY <2>1 DEF LaneMoves, OnLane, Active
  <2> QED BY <1>0, <2>2, <2>3 DEF WorkInv, MembersOnLane, FailingActive
<1> QED BY <1>1, <1>2, <1>3 DEF LaneStep

\* Every step keeps what is left to do within the active requests.
LEMMA StepKeepsWork == PlacesInv /\ WorkInv /\ [Next]_vars => WorkInv'
<1> SUFFICES ASSUME PlacesInv, WorkInv, [Next]_vars PROVE WorkInv'
  OBVIOUS
<1>1. ASSUME NEW r \in Request, Submit(r) \/ Overloaded(r) \/ Read(r) \/ Disconnect(r)
      PROVE  WorkInv'
  BY <1>1, ClientWork
<1>2. CASE CloseDoor \/ UNCHANGED vars
  <2>1. phase' = phase /\ lane' = lane /\ lane_at' = lane_at /\ todo' = todo /\ at' = at
    BY <1>2 DEF CloseDoor, vars, requestVars, laneVars
  <2> QED BY <2>1, QuietWork
<1>3. CASE ServeStep
  BY <1>3, ServeWork
<1>4. ASSUME NEW l \in Lane, LaneStep(l) PROVE WorkInv'
  BY <1>4, LaneWork
<1> QED BY <1>1, <1>2, <1>3, <1>4 DEF Next

-----------------------------------------------------------------------------
(***************************************************************************)
(* Every request that holds a lease is covered, in every state.            *)
(***************************************************************************)
Holders == {r \in Request : phase[r] \in {"admitting", "active"}}

RowsOK ==
    /\ rows \in [Request -> Nat]
    /\ \A r \in Request :
        /\ phase[r] \in {"new", "queued", "gone"} => rows[r] = 0
        /\ phase[r] = "admitting" => rows[r] <= Prompt[r]
        /\ phase[r] = "active" => Prompt[r] <= rows[r] /\ rows[r] < Prompt[r] + Output[r]

BudgetInv == RowsOK /\ Accounts(pool, Holders, rows)

\* What the next state has to satisfy.
LEMMA NextBudget ==
    ASSUME RowsOK', NEW q, NEW K, NEW held, q = pool', K = Holders', held = rows',
           Accounts(q, K, held)
    PROVE  BudgetInv'
  BY DEF BudgetInv, Accounts, PagesAdd, TailsPartial, Covered, PagesOf, Owed, Slice, Pools, Pages

\* Without a holder nothing of its pages is owed.
LEMMA FewerHolders ==
    ASSUME NEW p, NEW H, NEW K, NEW held, Accounts(p, H, held), K \subseteq H
    PROVE  Accounts(p, K, held)
<1>1. Owed(K, held) \subseteq Owed(H, held)
  BY PageNames
<1>2. IsFiniteSet(Owed(H, held)) /\ Cardinality(Owed(H, held)) <= p.free + p.spare
      /\ p.free \in Nat /\ p.spare \in Nat
  BY PoolFields DEF Accounts, Covered
<1>3. IsFiniteSet(Owed(K, held)) /\ Cardinality(Owed(K, held)) <= Cardinality(Owed(H, held))
      /\ Cardinality(Owed(K, held)) \in Nat /\ Cardinality(Owed(H, held)) \in Nat
  BY <1>1, <1>2, FS_Subset, FS_CardinalityType
<1>4. Covered(p, K, held)
  BY <1>2, <1>3 DEF Covered
<1> QED BY <1>4 DEF Accounts

\* A request's partial last page may become shared.
LEMMA SharedAccounts ==
    ASSUME NEW p, NEW H, NEW held, Accounts(p, H, held), NEW r \in Request,
           held[r] % PAGE_ROWS # 0
    PROVE  Accounts([p EXCEPT !.tails = @ \union {r}], H, held)
<1> DEFINE t == p.tails \union {r}
           q == [p EXCEPT !.tails = t]
<1>1. p \in Pools /\ t \subseteq Request
  BY PoolFields DEF Accounts
<1> HIDE DEF t
<1>2. q \in Pools /\ q.size = p.size /\ q.free = p.free /\ q.spare = p.spare /\ q.tails = t
  BY <1>1 DEF Pools
<1> HIDE DEF q
<1>3. PagesAdd(q, held) /\ Covered(q, H, held)
  BY <1>2 DEF Accounts, PagesAdd, Covered
<1>4. TailsPartial(q, held)
  BY <1>2 DEF Accounts, TailsPartial, t
<1>5. Accounts(q, H, held)
  BY <1>2, <1>3, <1>4 DEF Accounts
<1> QED BY <1>1, <1>5 DEF q, t, Pools

\* Initially no page is in use.
LEMMA InitBudget == Init => BudgetInv
<1> SUFFICES ASSUME Init PROVE BudgetInv
  OBVIOUS
<1>1. RowsOK
  BY DEF Init, RowsOK
<1>2. Holders = {} /\ \A r \in Request : rows[r] = 0
  BY DEF Init, Holders
<1>3. pool \in Pools /\ pool.free = pool.size /\ pool.spare = 0 /\ pool.tails = {}
  <2>1. PICK n \in PoolSizes : pool = [size |-> n, free |-> n, spare |-> 0, tails |-> {}]
    BY DEF Init
  <2>2. n \in Nat
    BY SchedulerAssumption
  <2> QED BY <2>1, <2>2 DEF Pools
<1>4. Accounts(pool, {}, rows)
  BY <1>2, <1>3, InitialAccounts
<1> QED BY <1>1, <1>2, <1>4 DEF BudgetInv

\* Steps that at most evict snapshots, and let nobody hold a lease that did not.
LEMMA QuietBudget ==
    ASSUME PlacesInv, BudgetInv, Looser(pool, pool'), rows' = rows,
           \A r \in Request :
               \/ phase'[r] = phase[r]
               \/ phase[r] \in {"new", "queued"} /\ phase'[r] \in {"queued", "gone"}
               \/ phase[r] = "active" /\ phase'[r] = "retiring"
    PROVE  BudgetInv'
<1>1. RowsOK'
  BY DEF BudgetInv, RowsOK
<1>2. Holders' \subseteq Holders
  BY DEF Holders
<1>3. Accounts(pool', Holders', rows')
  <2>1. Accounts(pool, Holders, rows)
    BY DEF BudgetInv
  <2>2. Accounts(pool', Holders, rows)
    BY <2>1, LooserAccounts
  <2>3. Accounts(pool', Holders', rows)
    BY <1>2, <2>2, FewerHolders
  <2> QED BY <2>3
<1> QED BY <1>1, <1>3, NextBudget

\* A pool that stays as it is, or loses its snapshots.
LEMMA SamePool == BudgetInv => pool \in Pools /\ Looser(pool, pool) /\ Looser(pool, Emptied(pool))
  BY EvictedIsLooser DEF BudgetInv, Accounts

\* Requests leave with all their pages.
LEMMA LeavingBudget ==
    ASSUME PlacesInv, BudgetInv, NEW over, over \subseteq Request,
           pool' \in Released(pool, over),
           rows' = [r \in Request |-> IF r \in over THEN 0 ELSE rows[r]],
           \A r \in over : phase'[r] = "gone",
           \A r \in Request \ over :
               \/ phase'[r] = phase[r]
               \/ phase[r] = "active" /\ phase'[r] = "retiring"
    PROVE  BudgetInv'
<1>1. RowsOK'
  <2>1. rows' \in [Request -> Nat]
    BY DEF BudgetInv, RowsOK
  <2> QED BY <2>1 DEF BudgetInv, RowsOK
<1>2. Holders \subseteq Request /\ Holders' \subseteq Holders \ over
  BY DEF Holders
<1>3. /\ Accounts(pool, Holders, rows)
      /\ \A r \in Request : rows'[r] = IF r \in over THEN 0 ELSE rows[r]
  BY DEF BudgetInv
<1>4. Accounts(pool', Holders', rows')
  BY <1>2, <1>3, ReleasedAccounts
<1> QED BY <1>1, <1>4, NextBudget

\* Nobody is being admitted while the loop admits, so that the active requests hold
\* all the leases.
LEMMA HoldersAreActive ==
    ASSUME PlacesInv, CountsInv, at = "admission"
    PROVE  Holders = Active /\ IsFiniteSet(Active) /\ Active \subseteq Request
  BY DEF PlacesInv, OneAdmitting, Holders, Active, CountsInv, ActiveBounded

\* Admission restores a prefix of the candidate and makes room for its lifetime.
LEMMA AdmitBudget ==
    ASSUME PlacesInv, CountsInv, BudgetInv, at = "admission",
           NEW r \in Request, phase[r] = "queued",
           NEW c \in 0..Prompt[r], Pages(c) <= pool.spare, Admit(r, c)
    PROVE  BudgetInv'
<1> DEFINE held == [rows EXCEPT ![r] = c]
           work == [s \in Active \union {r} |-> Remaining(s, held)]
<1>1. /\ pool' \in Rooms(work, held, RestoredPool(pool, r, c))
      /\ rows' = held
      /\ phase' = [phase EXCEPT ![r] = "admitting"]
  BY DEF Admit, RestoredPool
<1>2. /\ rows \in [Request -> Nat] /\ phase \in [Request -> Phase]
      /\ rows[r] = 0 /\ c \in Nat /\ c <= Prompt[r]
      /\ Accounts(pool, Active, rows)
      /\ Active \subseteq Request /\ IsFiniteSet(Active) /\ r \notin Active
  <2>1. rows \in [Request -> Nat] /\ phase \in [Request -> Phase] /\ rows[r] = 0
    BY DEF BudgetInv, RowsOK, PlacesInv, Types
  <2>2. c \in Nat /\ c <= Prompt[r]
    BY Lifetimes
  <2>3. Accounts(pool, Active, rows) /\ Active \subseteq Request /\ IsFiniteSet(Active)
    BY HoldersAreActive DEF BudgetInv
  <2>4. r \notin Active
    BY DEF Active
  <2> QED BY <2>1, <2>2, <2>3, <2>4
<1>3. \A s \in Active : rows[s] <= Prompt[s] + Output[s]
  BY <1>2, Lifetimes DEF BudgetInv, RowsOK, Active
<1>4. \A s \in Request : rows[s] \in Nat /\ held[s] = IF s = r THEN c ELSE rows[s]
  BY <1>2
<1>5. DOMAIN work = Active \union {r} /\ \A s \in Active \union {r} : work[s] = Remaining(s, held)
  OBVIOUS
<1> HIDE DEF held, work
<1>6. Accounts(pool', Active \union {r}, held)
  BY <1>1, <1>2, <1>3, <1>4, <1>5, AdmittedAccounts
<1>7. Holders' = Active \union {r}
  <2>1. \A s \in Request : phase[s] \in {"admitting", "active"} <=> s \in Active
    BY HoldersAreActive DEF Holders
  <2> QED BY <1>1, <1>2, <2>1 DEF Holders
<1>8. RowsOK'
  <2>1. rows' \in [Request -> Nat]
    BY <1>1, <1>2 DEF held
  <2>2. \A s \in Request : s # r => rows'[s] = rows[s] /\ phase'[s] = phase[s]
    BY <1>1, <1>2, <1>4
  <2>3. rows'[r] <= Prompt[r] /\ phase'[r] = "admitting"
    BY <1>1, <1>2, <1>4
  <2> QED BY <2>1, <2>2, <2>3 DEF BudgetInv, RowsOK
<1> QED BY <1>1, <1>6, <1>7, <1>8, NextBudget

\* Admission covers whom it takes and leaves everybody else covered.
LEMMA AdmissionBudget ==
    ASSUME PlacesInv, CountsInv, BudgetInv, AdmitCandidate
    PROVE  BudgetInv'
<1> DEFINE r == Candidate
<1>1. /\ at = "admission" /\ Candidate # NoRequest
      /\ queue' = IF pending = NoRequest THEN Tail(queue) ELSE queue
  BY DEF AdmitCandidate, DropCandidate, Admit, DoesNotFit, TakeCandidate
<1>2. r \in Request /\ phase[r] = "queued"
  BY <1>1, CandidateIsQueued
<1>3. \/ DropCandidate(r)
      \/ \E c \in {n \in 0..Prompt[r] : Pages(n) <= pool.spare} : Admit(r, c) \/ DoesNotFit(r, c)
  BY DEF AdmitCandidate
<1> HIDE DEF r
<1>4. CASE DropCandidate(r)
  <2>1. pool' = pool /\ rows' = rows /\ phase' = [phase EXCEPT ![r] = "gone"]
    BY <1>4 DEF DropCandidate
  <2> QED BY <1>2, <2>1, SamePool, QuietBudget DEF PlacesInv, Types
<1>5. ASSUME NEW c \in 0..Prompt[r], Pages(c) <= pool.spare, Admit(r, c) PROVE BudgetInv'
  BY <1>1, <1>2, <1>5, AdmitBudget
<1>6. ASSUME NEW c, DoesNotFit(r, c) PROVE BudgetInv'
  <2>1. /\ pool' = Emptied(pool) /\ rows' = rows
        /\ phase' = phase \/ phase' = [phase EXCEPT ![r] = "gone"]
    BY <1>6 DEF DoesNotFit
  <2> QED BY <1>2, <2>1, SamePool, QuietBudget DEF PlacesInv, Types
<1> QED BY <1>3, <1>4, <1>5, <1>6

\* A prefill takes the pages of the prompt, or gives up those of the prefix.
LEMMA PrefillBudget ==
    ASSUME PlacesInv, BudgetInv, Prefill
    PROVE  BudgetInv'
<1>0. /\ rows \in [Request -> Nat] /\ phase \in [Request -> Phase]
      /\ Accounts(pool, Holders, rows)
  BY DEF BudgetInv, RowsOK, PlacesInv, Types
<1>1. PICK r \in Request : /\ phase[r] = "admitting"
                           /\ \/ PrefillFailed(r)
                              \/ \E last_token \in {TRUE, Output[r] = 1} : Prefilled(r, last_token)
  BY DEF Prefill
<1>2. CASE PrefillFailed(r)
  <2>1. /\ pool' \in Released(pool, {r})
        /\ rows' = [rows EXCEPT ![r] = 0]
        /\ phase' = [phase EXCEPT ![r] = "gone"]
    BY <1>2 DEF PrefillFailed
  <2>2. /\ rows' = [s \in Request |-> IF s \in {r} THEN 0 ELSE rows[s]]
        /\ \A s \in {r} : phase'[s] = "gone"
        /\ \A s \in Request \ {r} : phase'[s] = phase[s]
    BY <1>0, <2>1
  <2> QED BY <2>1, <2>2, LeavingBudget
<1>3. ASSUME NEW last_token, Prefilled(r, last_token) PROVE BudgetInv'
  <2> DEFINE work == [s \in {r} |-> Prompt[r] - rows[r]]
             p == Appended(work, pool)
  <2>1. /\ Demand(work, rows, pool.tails) <= pool.free
        /\ \/ pool' = p
           \/ pool' = [p EXCEPT !.tails = @ \union {r}] /\ Prompt[r] % PAGE_ROWS # 0
        /\ rows' = [rows EXCEPT ![r] = Prompt[r]]
        /\ phase' = [phase EXCEPT ![r] = "active"]
    BY <1>3 DEF Prefilled
  <2>2. /\ rows[r] \in Nat /\ rows[r] <= Prompt[r] /\ Prompt[r] \in Nat /\ Output[r] \in Nat
        /\ Output[r] > 0
    BY <1>0, <1>1, Lifetimes DEF BudgetInv, RowsOK
  <2>3. DOMAIN work = {r} /\ work[r] = Prompt[r] - rows[r]
    OBVIOUS
  <2>4. /\ Holders \subseteq Request /\ DOMAIN work \subseteq Holders /\ IsFiniteSet(DOMAIN work)
        /\ \A s \in DOMAIN work : work[s] \in Nat /\ rows[s] + work[s] <= Prompt[s] + Output[s]
    <3>1. IsFiniteSet({r})
      BY FS_Singleton
    <3>2. Holders \subseteq Request /\ {r} \subseteq Holders
      BY <1>1 DEF Holders
    <3>3. work[r] \in Nat /\ rows[r] + work[r] <= Prompt[r] + Output[r]
      BY <2>2, <2>3
    <3> HIDE DEF work
    <3> QED BY <2>3, <3>1, <3>2, <3>3
  <2>5. \A s \in Request : /\ rows[s] \in Nat
                           /\ rows'[s] = IF s \in DOMAIN work THEN rows[s] + work[s] ELSE rows[s]
    BY <1>0, <2>1, <2>2, <2>3
  <2> HIDE DEF work
  <2>6. Accounts(p, Holders, rows')
    BY <1>0, <2>1, <2>4, <2>5, AppendedAccounts
  <2> HIDE DEF p
  <2>7. Accounts(pool', Holders, rows')
    <3>1. rows'[r] = Prompt[r]
      BY <1>0, <2>1
    <3> DEFINE shared == [p EXCEPT !.tails = @ \union {r}]
    <3>2. CASE pool' = shared /\ Prompt[r] % PAGE_ROWS # 0
      <4>1. Accounts(shared, Holders, rows')
        BY <2>6, <3>1, <3>2, SharedAccounts
      <4> HIDE DEF shared
      <4> QED BY <3>2, <4>1
    <3> QED BY <2>1, <2>6, <3>2
  <2>8. Holders' = Holders
    BY <1>0, <1>1, <2>1 DEF Holders
  <2>9. RowsOK'
    <3>1. rows' \in [Request -> Nat]
      BY <1>0, <2>1, <2>2
    <3>2. \A s \in Request : s # r => rows'[s] = rows[s] /\ phase'[s] = phase[s]
      BY <1>0, <2>1
    <3>3. rows'[r] = Prompt[r] /\ phase'[r] = "active"
      BY <1>0, <2>1
    <3> QED BY <2>2, <3>1, <3>2, <3>3 DEF BudgetInv, RowsOK
  <2> QED BY <2>7, <2>8, <2>9, NextBudget
<1> QED BY <1>1, <1>2, <1>3

\* The other steps of the serve thread free pages or evict snapshots.
LEMMA ServeBudget ==
    ASSUME PlacesInv, CountsInv, BudgetInv, ServeStep
    PROVE  BudgetInv'
<1>1. CASE Boundary
  <2>1. /\ pool' \in Released(pool, Over)
        /\ phase' = [r \in Request |-> IF r \in Over THEN "gone" ELSE phase[r]]
        /\ rows' = [r \in Request |-> IF r \in Over THEN 0 ELSE rows[r]]
    BY <1>1 DEF Boundary
  <2>2. Over \subseteq Request
    BY DEF Over, Active
  <2> QED BY <2>1, <2>2, LeavingBudget
<1>2. CASE Dispatch
  <2>1. /\ rows' = rows /\ phase' = phase
        /\ pool' = pool \/ pool' = Emptied(pool) \/ \E work : pool' \in Rooms(work, rows, pool)
    BY <1>2 DEF Dispatch
  <2>2. Looser(pool, pool')
    BY <2>1, SamePool, RoomIsLooser
  <2> QED BY <2>1, <2>2, QuietBudget
<1>3. CASE Join \/ FailRequest
  <2>1. rows' = rows /\ phase' = phase /\ pool' = pool
    BY <1>3 DEF Join, FailRequest, requestVars
  <2> QED BY <2>1, SamePool, QuietBudget
<1> QED BY <1>1, <1>2, <1>3, AdmissionBudget, PrefillBudget DEF ServeStep

\* A round's rows are committed within the lifetimes of its members.
LEMMA CommitBudget ==
    ASSUME PlacesInv, CountsInv, WorkInv, BudgetInv, NEW l \in Lane, lane_at[l] = "verify",
           NEW accepted \in [todo[l] -> 1..VERIFY],
           \A r \in todo[l] : accepted[r] <= NextRows(r),
           LaneCommits(l, accepted), phase' = phase
    PROVE  BudgetInv'
<1>0. /\ rows \in [Request -> Nat] /\ Accounts(pool, Holders, rows)
      /\ IsFiniteSet(Active) /\ Active \subseteq Holders /\ Holders \subseteq Request
      /\ VERIFY \in Nat
  BY SchedulerAssumption DEF BudgetInv, RowsOK, CountsInv, ActiveBounded, Active, Holders
<1>1. /\ Demand(accepted, rows, pool.tails) <= pool.free
      /\ pool' = Appended(accepted, pool)
      /\ rows' = [r \in Request |-> IF r \in todo[l] THEN rows[r] + accepted[r] ELSE rows[r]]
  BY DEF LaneCommits
<1>2. todo[l] \subseteq Active /\ DOMAIN accepted = todo[l] /\ IsFiniteSet(DOMAIN accepted)
  <2>1. todo[l] \subseteq Active
    BY DEF WorkInv, MembersOnLane, Working, OnLane
  <2> QED BY <1>0, <2>1, FS_Subset
<1>3. \A r \in DOMAIN accepted :
          /\ accepted[r] \in Nat /\ phase[r] = "active" /\ r \in Request
          /\ Prompt[r] <= rows[r] + accepted[r]
          /\ rows[r] + accepted[r] < Prompt[r] + Output[r]
  <2> SUFFICES ASSUME NEW r \in todo[l]
               PROVE  /\ accepted[r] \in Nat /\ phase[r] = "active" /\ r \in Request
                      /\ Prompt[r] <= rows[r] + accepted[r]
                      /\ rows[r] + accepted[r] < Prompt[r] + Output[r]
    BY <1>2
  <2>1. r \in Request /\ phase[r] = "active"
    BY <1>2 DEF Active
  <2>2. /\ rows[r] \in Nat /\ Prompt[r] \in Nat /\ Output[r] \in Nat
        /\ Prompt[r] <= rows[r] /\ rows[r] < Prompt[r] + Output[r]
    BY <1>0, <2>1, Lifetimes DEF BudgetInv, RowsOK
  <2>3. accepted[r] \in Nat /\ accepted[r] <= NextRows(r)
    BY <1>0
  <2>4. NextRows(r) <= Output[r] - (rows[r] + 1 - Prompt[r])
    <3> DEFINE left == Output[r] - Generated(r)
    <3>1. left = Output[r] - (rows[r] + 1 - Prompt[r]) /\ left \in Int
      BY <2>2 DEF Generated
    <3> HIDE DEF left
    <3>2. NextRows(r) = IF left < VERIFY THEN left ELSE VERIFY
      BY DEF NextRows, left
    <3> QED BY <1>0, <3>1, <3>2
  <2>5. NextRows(r) \in Int
    BY <1>0, <2>2 DEF NextRows, Generated
  <2>6. accepted[r] <= Output[r] - (rows[r] + 1 - Prompt[r])
    BY <2>2, <2>3, <2>4, <2>5
  <2> QED BY <2>1, <2>2, <2>3, <2>6
<1>4. \A r \in DOMAIN accepted :
          accepted[r] \in Nat /\ rows[r] + accepted[r] <= Prompt[r] + Output[r]
  <2> SUFFICES ASSUME NEW r \in DOMAIN accepted
               PROVE  accepted[r] \in Nat /\ rows[r] + accepted[r] <= Prompt[r] + Output[r]
    OBVIOUS
  <2>1. r \in Request /\ accepted[r] \in Nat /\ rows[r] \in Nat
        /\ rows[r] + accepted[r] < Prompt[r] + Output[r]
    BY <1>0, <1>3
  <2> QED BY <2>1, Lifetimes
<1>5. \A r \in Request : /\ rows[r] \in Nat
                         /\ rows'[r] = IF r \in DOMAIN accepted THEN rows[r] + accepted[r] ELSE rows[r]
  BY <1>0, <1>1, <1>2
<1>6. DOMAIN accepted \subseteq Holders
  BY <1>0, <1>2
<1>7. Accounts(pool', Holders, rows')
  BY <1>0, <1>1, <1>2, <1>4, <1>5, <1>6, AppendedAccounts
<1>8. RowsOK'
  <2>1. rows' \in [Request -> Nat]
    BY <1>1, <1>3, <1>5
  <2>2. \A r \in Request : r \notin DOMAIN accepted => rows'[r] = rows[r]
    BY <1>5
  <2>3. \A r \in DOMAIN accepted : /\ phase'[r] = "active" /\ Prompt[r] <= rows'[r]
                                   /\ rows'[r] < Prompt[r] + Output[r]
    BY <1>3, <1>5
  <2> QED BY <2>1, <2>2, <2>3 DEF BudgetInv, RowsOK
<1>9. Holders' = Holders
  BY DEF Holders
<1> QED BY <1>7, <1>8, <1>9, NextBudget

\* A lane makes room, commits within it, and gives the pages of those who retire back.
LEMMA LaneBudget ==
    ASSUME PlacesInv, CountsInv, WorkInv, BudgetInv, NEW l \in Lane, LaneStep(l)
    PROVE  BudgetInv'
<1>1. CASE LaneStops(l) \/ LaneDeliver(l)
  <2>1. rows' = rows /\ phase' = phase /\ pool' = pool
    BY <1>1 DEF LaneStops, LaneDeliver, requestVars
  <2> QED BY <2>1, SamePool, QuietBudget
<1>2. CASE LaneEnter(l)
  <2>1. /\ rows' = rows /\ phase' = phase
        /\ pool' = pool \/ pool' = Emptied(pool) \/ \E work : pool' \in Rooms(work, rows, pool)
    BY <1>2 DEF LaneEnter, requestVars
  <2>2. Looser(pool, pool')
    BY <2>1, SamePool, RoomIsLooser
  <2> QED BY <2>1, <2>2, QuietBudget
<1>3. CASE LaneVerify(l)
  <2>1. CASE LaneFails(l)
    BY <1>3, <2>1, SamePool, QuietBudget DEF LaneVerify, LaneFails
  <2>2. ASSUME NEW accepted \in [todo[l] -> 1..VERIFY],
               \A r \in todo[l] : accepted[r] <= NextRows(r), LaneCommits(l, accepted)
        PROVE  BudgetInv'
    BY <1>3, <2>2, CommitBudget DEF LaneVerify
  <2> QED BY <1>3, <2>1, <2>2 DEF LaneVerify
<1>4. CASE LaneRetires(l)
  <2>1. LaneMoves(l)
    BY <1>4, RetireAndReleaseMove
  <2>2. /\ rows' = rows /\ pool' = pool
        /\ phase' = phase \/ \E r : phase' = [phase EXCEPT ![r] = "retiring"]
    BY <1>4 DEF LaneRetires, RetireFrom
  <2>3. \A r \in Request : phase'[r] = phase[r] \/ (phase[r] = "active" /\ phase'[r] = "retiring")
    BY <2>1, <2>2 DEF LaneMoves, PlacesInv, Types
  <2> QED BY <2>2, <2>3, SamePool, QuietBudget
<1>5. CASE LaneReleases(l)
  <2>1. LaneMoves(l)
    BY <1>5, RetireAndReleaseMove
  <2>2. PICK r \in Request : /\ phase[r] = "retiring"
                             /\ pool' \in Released(pool, {r})
                             /\ rows' = [rows EXCEPT ![r] = 0]
                             /\ RetireFrom(l, todo[l], [phase EXCEPT ![r] = "gone"])
                             /\ lane_at[l] = "retain"
    BY <1>5 DEF LaneReleases
  <2>3. phase \in [Request -> Phase] /\ rows \in [Request -> Nat]
    BY DEF PlacesInv, Types, BudgetInv, RowsOK
  <2>4. r \notin todo[l]
    BY <2>2 DEF PlacesInv, ListsAreActive, OnLane, Active
  <2>5. /\ phase'[r] = "gone"
        /\ \A s \in Request : s # r /\ phase[s] # phase'[s] => phase'[s] = "retiring"
    <3> DEFINE before == [phase EXCEPT ![r] = "gone"]
    <3>1. before[r] = "gone" /\ DOMAIN before = Request
          /\ \A s \in Request : s # r => before[s] = phase[s]
      BY <2>3
    <3> HIDE DEF before
    <3>2. RetireFrom(l, todo[l], before)
      BY <2>2 DEF before
    <3>3. phase' = before \/ \E s \in todo[l] : phase' = [before EXCEPT ![s] = "retiring"]
      BY <3>2 DEF RetireFrom
    <3> QED BY <2>4, <3>1, <3>3
  <2>6. \A s \in Request \ {r} :
            phase'[s] = phase[s] \/ (phase[s] = "active" /\ phase'[s] = "retiring")
    BY <2>1, <2>5 DEF LaneMoves
  <2>7. rows' = [s \in Request |-> IF s \in {r} THEN 0 ELSE rows[s]]
    BY <2>2, <2>3
  <2> QED BY <2>2, <2>5, <2>6, <2>7, LeavingBudget
<1> QED BY <1>1, <1>2, <1>3, <1>4, <1>5 DEF LaneStep

\* Every step keeps the budget.
LEMMA StepKeepsBudget ==
    PlacesInv /\ CountsInv /\ WorkInv /\ BudgetInv /\ [Next]_vars => BudgetInv'
<1> SUFFICES ASSUME PlacesInv, CountsInv, WorkInv, BudgetInv, [Next]_vars PROVE BudgetInv'
  OBVIOUS
<1>1. ASSUME NEW r \in Request, Submit(r) \/ Overloaded(r) \/ Read(r) \/ Disconnect(r)
      PROVE  BudgetInv'
  <2>1. /\ \/ phase' = phase
           \/ phase[r] = "new" /\ phase' = [phase EXCEPT ![r] = "gone"]
           \/ phase[r] = "new" /\ phase' = [phase EXCEPT ![r] = "queued"]
        /\ rows' = rows /\ pool' = pool
    BY <1>1 DEF Submit, Overloaded, Read, Disconnect, requestVars
  <2>2. \A q \in Request : \/ phase'[q] = phase[q]
                           \/ phase[q] = "new" /\ phase'[q] \in {"queued", "gone"}
    BY <2>1 DEF PlacesInv, Types
  <2> QED BY <2>1, <2>2, SamePool, QuietBudget
<1>2. CASE CloseDoor \/ UNCHANGED vars
  <2>1. phase' = phase /\ rows' = rows /\ pool' = pool
    BY <1>2 DEF CloseDoor, vars, requestVars
  <2> QED BY <2>1, SamePool, QuietBudget
<1>3. CASE ServeStep
  BY <1>3, ServeBudget
<1>4. ASSUME NEW l \in Lane, LaneStep(l) PROVE BudgetInv'
  BY <1>4, LaneBudget
<1> QED BY <1>1, <1>2, <1>3, <1>4 DEF Next

\* The budget, and what it rests on, hold in every state of the loop.
LEMMA BudgetAlways == Spec => [](PlacesInv /\ CountsInv /\ WorkInv /\ BudgetInv)
<1>1. WorkInv /\ BudgetInv /\ PlacesInv /\ CountsInv /\ [Next]_vars => (WorkInv /\ BudgetInv)'
  BY StepKeepsWork, StepKeepsBudget
<1> QED
  BY InitWork, InitBudget, PlacesAndCounts, <1>1, PTL DEF Spec

\* The free pages and those that evicting every snapshot would give back cover
\* the whole declared lifetime of every request that holds a lease, so making
\* room never fails once a request is admitted (the budget check of admission).
THEOREM AdmittedAreCovered == Spec => []BudgetsCovered
<1>1. ASSUME BudgetInv PROVE BudgetsCovered
  <2> DEFINE lifetime == [r \in Holders |-> Prompt[r] + Output[r] - rows[r]]
  <2>1. \A r \in Holders : rows[r] + lifetime[r] = Prompt[r] + Output[r]
    BY <1>1, Lifetimes DEF BudgetInv, RowsOK, Holders
  <2>2. DOMAIN lifetime = Holders
    OBVIOUS
  <2> HIDE DEF lifetime
  <2>3. Added(lifetime, rows) = Owed(Holders, rows)
    <3>1. \A x : x \in Added(lifetime, rows) <=> x \in Owed(Holders, rows)
      BY <2>1, <2>2, PageNames
    <3> QED BY <3>1
  <2>4. Copied(lifetime, {}) = {}
    BY DEF Copied
  <2>5. Cardinality(Owed(Holders, rows)) \in Nat
        /\ Cardinality(Owed(Holders, rows)) <= pool.free + pool.spare
    BY <1>1, FS_CardinalityType DEF BudgetInv, Accounts, Covered
  <2>6. Demand(lifetime, rows, {}) <= pool.free + pool.spare
    BY <2>3, <2>4, <2>5, FS_EmptySet DEF Demand
  <2> QED BY <2>6 DEF BudgetsCovered, Holders, lifetime
<1> QED BY <1>1, BudgetAlways, PTL

\* Work within the lifetimes of holders adds pages that are owed to them.
LEMMA AddedIsOwed ==
    ASSUME NEW H, H \subseteq Request, NEW held, NEW work, DOMAIN work \subseteq H,
           \A r \in DOMAIN work :
               /\ held[r] \in Nat /\ held[r] + work[r] \in Nat
               /\ held[r] + work[r] <= Prompt[r] + Output[r]
    PROVE  Added(work, held) \subseteq Owed(H, held)
<1> SUFFICES ASSUME NEW x \in Added(work, held) PROVE x \in Owed(H, held)
  OBVIOUS
<1>0. PICK r \in DOMAIN work :
          \E i \in Pages(held[r]) + 1..Pages(held[r] + work[r]) : x = <<r, i>>
  BY PageNames
<1>1. PICK i \in Pages(held[r]) + 1..Pages(held[r] + work[r]) : x = <<r, i>>
  BY <1>0
<1>2. /\ r \in H /\ r \in Request /\ Pages(held[r]) \in Nat
      /\ Pages(held[r] + work[r]) \in Nat /\ Pages(Prompt[r] + Output[r]) \in Nat
      /\ Pages(held[r] + work[r]) <= Pages(Prompt[r] + Output[r])
  BY <1>0, Lifetimes, PagesGrow
<1>3. i \in Pages(held[r]) + 1..Pages(Prompt[r] + Output[r])
  BY <1>1, <1>2
<1> QED BY <1>1, <1>2, <1>3, PageNames

\* Whatever active requests a round is for, room for it is found: no round is
\* refused and no lane fails for want of pages.
THEOREM RoundsFindRoom ==
    Spec => [](\A S \in SUBSET Active : Rooms([r \in S |-> NextRows(r)], rows, pool) # {})
<1>1. ASSUME BudgetInv, NEW S \in SUBSET Active
      PROVE  Rooms([r \in S |-> NextRows(r)], rows, pool) # {}
  <2> DEFINE work == [r \in S |-> NextRows(r)]
             q == EvictedBy(pool, pool.spare, pool.tails)
             W == Owed(Holders, rows)
  <2>1. DOMAIN work = S /\ \A r \in S : work[r] = NextRows(r)
    OBVIOUS
  <2>2. /\ pool \in Pools /\ pool.free \in Nat /\ pool.spare \in Nat
        /\ IsFiniteSet(W) /\ Cardinality(W) <= pool.free + pool.spare
    BY <1>1, PoolFields DEF BudgetInv, Accounts, Covered
  <2>3. q \in Evicted(pool)
    <3>1. Evicted(pool) = UNION {{EvictedBy(pool, k, t) : t \in SUBSET pool.tails} :
                                    k \in 0..pool.spare}
      BY DEF Evicted, EvictedBy
    <3>2. pool.spare \in 0..pool.spare /\ pool.tails \in SUBSET pool.tails
      BY <2>2
    <3> QED BY <3>1, <3>2
  <2>4. q.tails = {} /\ q.free = pool.free + pool.spare
    BY <2>2 DEF EvictedBy, Pools
  <2>5. \A r \in S :
            /\ rows[r] \in Nat /\ rows[r] + work[r] \in Nat
            /\ rows[r] + work[r] <= Prompt[r] + Output[r]
    <3> SUFFICES ASSUME NEW r \in S
                 PROVE  /\ rows[r] \in Nat /\ rows[r] + NextRows(r) \in Nat
                        /\ rows[r] + NextRows(r) <= Prompt[r] + Output[r]
      BY <2>1
    <3>1. r \in Request /\ phase[r] = "active"
      BY DEF Active
    <3>2. /\ rows[r] \in Nat /\ Prompt[r] \in Nat /\ Output[r] \in Nat /\ VERIFY \in Nat
          /\ Prompt[r] <= rows[r] /\ rows[r] < Prompt[r] + Output[r]
      BY <1>1, <3>1, Lifetimes, SchedulerAssumption DEF BudgetInv, RowsOK
    <3> DEFINE left == Output[r] - Generated(r)
    <3>3. left = Output[r] - (rows[r] + 1 - Prompt[r]) /\ left \in Nat
      BY <3>2 DEF Generated
    <3> HIDE DEF left
    <3>4. NextRows(r) = IF left < VERIFY THEN left ELSE VERIFY
      BY DEF NextRows, left
    <3> QED BY <3>2, <3>3, <3>4
  <2>6. S \subseteq Holders /\ Holders \subseteq Request
    BY DEF Active, Holders
  <2> HIDE DEF work, q
  <2>7. Added(work, rows) \subseteq W
    BY <2>1, <2>5, <2>6, AddedIsOwed
  <2>8. Cardinality(Added(work, rows)) \in Nat /\ Cardinality(Added(work, rows)) <= Cardinality(W)
        /\ Cardinality(W) \in Nat
    BY <2>2, <2>7, FS_Subset, FS_CardinalityType
  <2>9. Copied(work, q.tails) = {}
    BY <2>4 DEF Copied
  <2>10. Fits(work, rows, q)
    <3>1. Demand(work, rows, q.tails) = Cardinality(Added(work, rows)) + 0
      BY <2>9, FS_EmptySet DEF Demand
    <3>2. Cardinality(Added(work, rows)) + 0 <= pool.free + pool.spare
      BY <2>2, <2>8
    <3> QED BY <2>4, <3>1, <3>2 DEF Fits
  <2>11. Rooms(work, rows, pool) # {}
    BY <2>3, <2>10 DEF Rooms
  <2> QED BY <2>11 DEF work
<1>2. BudgetInv => \A S \in SUBSET Active : Rooms([r \in S |-> NextRows(r)], rows, pool) # {}
  BY <1>1
<1> QED BY <1>2, BudgetAlways, PTL

-----------------------------------------------------------------------------
(***************************************************************************)
(* Types, and channels that never hold more than CHANNEL messages: a       *)
(* request that has not been prefilled has been sent nothing.              *)
(***************************************************************************)
QueueTypes ==
    /\ layout \in Layouts /\ door \in BOOLEAN /\ closed \in BOOLEAN
    /\ Len(queue) <= QUEUE
    /\ blocked_at \in 0..SLOTS
    /\ drain \in {"no", "wake", "error"}

LaneTypes ==
    /\ at \in {"boundary", "admission", "prefill", "round", "solo", "failing", "stopped"}
    /\ lane_at \in [Lane -> {"top", "retain", "enter", "verify", "deliver", "out", "failed"}]
    /\ todo \in [Lane -> SUBSET Request]

ChannelInv ==
    /\ finished \subseteq Request
    /\ client \in [Request -> Client]
    /\ mail \in [Request -> 0..CHANNEL]
    /\ \A r \in Request : phase[r] \in {"new", "queued", "admitting"} => mail[r] = 0

\* Initially the types are right and nothing has been sent.
LEMMA InitTypes == Init => QueueTypes /\ LaneTypes /\ ChannelInv
<1> SUFFICES ASSUME Init PROVE QueueTypes /\ LaneTypes /\ ChannelInv
  OBVIOUS
<1>1. QueueTypes
  <2>1. Len(<<>>) = 0 /\ QUEUE \in Nat /\ SLOTS \in Nat
    BY SchedulerAssumption
  <2>2. /\ layout \in Layouts /\ door \in BOOLEAN /\ closed \in BOOLEAN
        /\ queue = <<>> /\ blocked_at = 0 /\ drain = "no"
    BY DEF Init
  <2>3. Len(queue) <= QUEUE /\ blocked_at \in 0..SLOTS
    BY <2>1, <2>2
  <2> QED BY <2>2, <2>3 DEF QueueTypes
<1>2. LaneTypes
  BY DEF Init, LaneTypes
<1>3. ChannelInv
  BY SchedulerAssumption DEF Init, ChannelInv, Client
<1> QED BY <1>1, <1>2, <1>3

\* The queue holds at most QUEUE requests and a blocked one counts at most SLOTS.
LEMMA StepKeepsQueue == PlacesInv /\ CountsInv /\ QueueTypes /\ [Next]_vars => QueueTypes'
<1> SUFFICES ASSUME PlacesInv, CountsInv, QueueTypes, [Next]_vars PROVE QueueTypes'
  OBVIOUS
<1>0. queue \in Seq(Request) /\ Len(queue) \in Nat /\ QUEUE \in Nat
  BY SchedulerAssumption DEF PlacesInv, Types
<1>1. ASSUME NEW r \in Request, Submit(r) PROVE QueueTypes'
  <2>1. /\ Len(queue) < QUEUE /\ queue' = Append(queue, r)
        /\ layout' = layout /\ door' = door /\ closed' = closed /\ blocked_at' = blocked_at
        /\ drain' = drain
    BY <1>1 DEF Submit, laneVars
  <2>2. Len(queue') = Len(queue) + 1
    BY <1>0, <2>1
  <2> QED BY <1>0, <2>1, <2>2 DEF QueueTypes
<1>2. ASSUME NEW r \in Request, Overloaded(r) \/ Read(r) \/ Disconnect(r) PROVE QueueTypes'
  BY <1>2 DEF Overloaded, Read, Disconnect, queueVars, laneVars, QueueTypes
<1>3. CASE CloseDoor \/ UNCHANGED vars
  BY <1>3 DEF CloseDoor, vars, queueVars, laneVars, QueueTypes
<1>4. CASE AdmitCandidate
  <2>1. /\ layout' = layout /\ door' = door /\ closed' = closed /\ drain' = "no"
        /\ queue' = IF pending = NoRequest THEN Tail(queue) ELSE queue
        /\ blocked_at' = 0 \/ blocked_at' = Cardinality(Active)
        /\ Candidate # NoRequest
    BY <1>4 DEF AdmitCandidate, DropCandidate, Admit, DoesNotFit, TakeCandidate
  <2>2. pending = NoRequest => queue # <<>>
    BY <2>1 DEF Candidate
  <2>3. Len(queue') <= Len(queue) /\ Len(queue') \in Nat
    BY <1>0, <2>1, <2>2
  <2>4. blocked_at' \in 0..SLOTS
    <3>1. Cardinality(Active) \in Nat /\ Cardinality(Active) <= SLOTS /\ SLOTS \in Nat
      BY FS_CardinalityType, SchedulerAssumption DEF CountsInv, ActiveBounded
    <3> QED BY <2>1, <3>1
  <2> QED BY <1>0, <2>1, <2>3, <2>4 DEF QueueTypes
<1>5. CASE Boundary \/ Prefill \/ Join \/ FailRequest
  <2>1. UNCHANGED queueVars /\ drain' = drain
    BY <1>5 DEF Boundary, Prefill, PrefillFailed, Prefilled, Join, FailRequest, laneVars
  <2> QED BY <2>1 DEF QueueTypes, queueVars
<1>6. CASE Dispatch
  <2>1. /\ layout' = layout /\ door' = door /\ queue' = queue /\ blocked_at' = blocked_at
        /\ closed' = (closed \/ (FreeSlot /\ pending = NoRequest /\ ~door))
        /\ drain' = drain \/ drain' = "no"
    BY <1>6 DEF Dispatch, laneVars
  <2> QED BY <2>1 DEF QueueTypes
<1>7. ASSUME NEW l \in Lane, LaneStep(l) PROVE QueueTypes'
  <2>1. UNCHANGED queueVars /\ (drain' = drain \/ drain' \in {"wake", "error"})
    BY <1>7 DEF LaneStep, LaneStops, LaneRetires, LaneReleases, LaneEnter, LaneVerify, LaneFails,
       LaneCommits, LaneDeliver
  <2> QED BY <2>1 DEF QueueTypes, queueVars
<1> QED BY <1>1, <1>2, <1>3, <1>4, <1>5, <1>6, <1>7 DEF Next, ServeStep

\* The serve thread and the lanes are always at one of their points.
LEMMA StepKeepsPoints == PlacesInv /\ LaneTypes /\ [Next]_vars => LaneTypes'
<1> SUFFICES ASSUME PlacesInv, LaneTypes, [Next]_vars PROVE LaneTypes'
  OBVIOUS
<1>0. Active \subseteq Request /\ \A l : OnLane(l) \subseteq Request /\ Members(l) \subseteq Request
  BY DEF Active, OnLane, Members
<1>1. ASSUME NEW r \in Request, Submit(r) \/ Overloaded(r) \/ Read(r) \/ Disconnect(r)
      PROVE  LaneTypes'
  BY <1>1 DEF Submit, Overloaded, Read, Disconnect, laneVars, LaneTypes
<1>2. CASE CloseDoor \/ UNCHANGED vars
  BY <1>2 DEF CloseDoor, vars, laneVars, LaneTypes
<1>3. CASE Boundary \/ AdmitCandidate \/ Prefill
  <2>1. lane_at' = lane_at /\ todo' = todo /\ at' \in {"admission", "prefill"}
    BY <1>3 DEF Boundary, AdmitCandidate, DropCandidate, Admit, DoesNotFit, TakeCandidate,
       Prefill, PrefillFailed, Prefilled, laneVars
  <2> QED BY <2>1 DEF LaneTypes
<1>4. CASE Dispatch
  <2>1. /\ at' \in {"stopped", "boundary", "solo", "round"}
        /\ \/ lane_at' = lane_at /\ todo' = todo
           \/ /\ lane_at' \in [Lane -> {"top", "out", "verify"}]
              /\ todo' \in [Lane -> SUBSET Request]
    <3>1. CASE laneVars' = laneVars
      BY <1>4, <3>1 DEF Dispatch, laneVars
    <3>2. CASE laneVars' # laneVars
      <4> DEFINE step(s) == [l \in Lane |-> IF ~s THEN "top"
                                 ELSE IF Members(l) = {} THEN "out" ELSE "verify"]
                 work(s) == [l \in Lane |-> IF s THEN Members(l) ELSE {}]
      <4>1. PICK s \in BOOLEAN : lane_at' = step(s) /\ todo' = work(s)
        BY <1>4, <3>2 DEF Dispatch
      <4>2. step(s) \in [Lane -> {"top", "out", "verify"}] /\ work(s) \in [Lane -> SUBSET Request]
        BY <1>0
      <4>3. at' \in {"stopped", "boundary", "solo", "round"}
        BY <1>4 DEF Dispatch
      <4> HIDE DEF step, work
      <4> QED BY <4>1, <4>2, <4>3
    <3> QED BY <3>1, <3>2
  <2> QED BY <2>1 DEF LaneTypes
<1>5. CASE Join \/ FailRequest
  <2>1. /\ at' \in {"failing", "boundary"}
        /\ lane_at' = lane_at \/ lane_at' = [l \in Lane |-> "out"]
        /\ \/ todo' = todo \/ todo' = [todo EXCEPT ![0] = Active]
           \/ \E r : todo' = [todo EXCEPT ![0] = @ \ {r}]
    BY <1>5 DEF Join, FailRequest
  <2>2. todo' \in [Lane -> SUBSET Request]
    BY <1>0, <2>1 DEF LaneTypes, Lane
  <2> QED BY <2>1, <2>2 DEF LaneTypes
<1>6. ASSUME NEW l \in Lane, LaneStep(l) PROVE LaneTypes'
  <2>1. CASE LaneStops(l) \/ LaneEnter(l) \/ LaneVerify(l) \/ LaneDeliver(l)
    <3>1. /\ at' = at
          /\ \E s \in {"out", "failed", "verify", "deliver", "top"} :
                 lane_at' = [lane_at EXCEPT ![l] = s]
          /\ \E S \in SUBSET Request : todo' = todo \/ todo' = [todo EXCEPT ![l] = S]
      <4>1. CASE LaneStops(l)
        BY <4>1 DEF LaneStops
      <4>2. CASE LaneEnter(l)
        BY <1>0, <4>2 DEF LaneEnter
      <4>3. CASE LaneVerify(l)
        BY <4>3 DEF LaneVerify, LaneFails, LaneCommits
      <4>4. CASE LaneDeliver(l)
        BY <4>4 DEF LaneDeliver, LaneTypes
      <4> QED BY <2>1, <4>1, <4>2, <4>3, <4>4
    <3> QED BY <3>1 DEF LaneTypes
  <2>2. CASE LaneRetires(l) \/ LaneReleases(l)
    <3>1. /\ at' = at
          /\ \E s \in {"enter", "retain"} : lane_at' = [lane_at EXCEPT ![l] = s]
          /\ \E S \in SUBSET Request : todo' = todo \/ todo' = [todo EXCEPT ![l] = S]
      <4>1. OnLane(l) \intersect Over \subseteq Request /\ todo[l] \subseteq Request
        BY <1>0 DEF LaneTypes
      <4> QED BY <2>2, <4>1 DEF LaneRetires, LaneReleases, RetireFrom
    <3> QED BY <3>1 DEF LaneTypes
  <2> QED BY <1>6, <2>1, <2>2 DEF LaneStep
<1> QED BY <1>1, <1>2, <1>3, <1>4, <1>5, <1>6 DEF Next, ServeStep

\* Sending to a client that has room for it, or has hung up.
LEMMA TellChannel ==
    ASSUME ChannelInv, NEW r \in Request, NEW terminal, Sendable(r) \/ mail[r] = 0,
           Tell(r, terminal)
    PROVE  /\ client' \in [Request -> Client] /\ mail' \in [Request -> 0..CHANNEL]
           /\ \A q \in Request : q # r => mail'[q] = mail[q]
<1>1. /\ client \in [Request -> Client] /\ mail \in [Request -> 0..CHANNEL]
      /\ CHANNEL \in Nat /\ CHANNEL > 0
  BY SchedulerAssumption DEF ChannelInv
<1>2. client' \in [Request -> Client]
  BY <1>1 DEF Tell, Client
<1>3. client[r] = "waits" => mail[r] < CHANNEL
  BY <1>1 DEF Sendable, Gone
<1>4. mail' \in [Request -> 0..CHANNEL] /\ \A q \in Request : q # r => mail'[q] = mail[q]
  BY <1>1, <1>3 DEF Tell
<1> QED BY <1>2, <1>4

\* A dismissed request's channel is empty.
LEMMA DismissChannel ==
    ASSUME ChannelInv, NEW r \in Request, Dismiss(r)
    PROVE  /\ client' \in [Request -> Client] /\ mail' \in [Request -> 0..CHANNEL]
           /\ \A q \in Request : mail[q] = 0 => mail'[q] = 0
<1>1. CHANNEL \in Nat
  BY SchedulerAssumption
<1> QED BY <1>1 DEF ChannelInv, Dismiss, Client

\* Dropped senders leave empty channels.
LEMMA DroppedChannel ==
    ASSUME ChannelInv, NEW over, Dropped(over)
    PROVE  /\ client' \in [Request -> Client] /\ mail' \in [Request -> 0..CHANNEL]
           /\ \A q \in Request : mail[q] = 0 => mail'[q] = 0
<1>1. CHANNEL \in Nat
  BY SchedulerAssumption
<1> QED BY <1>1 DEF ChannelInv, Dropped, Client

\* What keeps the channels in order: nobody goes back to before its prefill, and
\* nothing is sent to those who stay there.
LEMMA NextChannel ==
    ASSUME ChannelInv, finished' \subseteq Request, client' \in [Request -> Client],
           mail' \in [Request -> 0..CHANNEL],
           \A r \in Request : phase'[r] \in {"new", "queued", "admitting"} =>
               phase[r] \in {"new", "queued", "admitting"} /\ (mail[r] = 0 => mail'[r] = 0)
    PROVE  ChannelInv'
  BY DEF ChannelInv

\* A step that leaves the channels alone.
LEMMA SameChannel ==
    ASSUME ChannelInv, finished' = finished, client' = client, mail' = mail,
           \A r \in Request : phase'[r] \in {"new", "queued", "admitting"} =>
               phase[r] \in {"new", "queued", "admitting"}
    PROVE  ChannelInv'
  BY NextChannel DEF ChannelInv

\* Telling an active request something.
LEMMA TellActive ==
    ASSUME ChannelInv, NEW r \in Active, NEW terminal, Sendable(r), Tell(r, terminal),
           phase' = phase, finished' = finished \/ finished' = finished \union {r}
    PROVE  ChannelInv'
<1>1. r \in Request /\ phase[r] = "active"
  BY DEF Active
<1>2. /\ client' \in [Request -> Client] /\ mail' \in [Request -> 0..CHANNEL]
      /\ \A q \in Request : q # r => mail'[q] = mail[q]
  BY <1>1, TellChannel
<1>3. finished' \subseteq Request
  BY <1>1 DEF ChannelInv
<1> QED BY <1>1, <1>2, <1>3, NextChannel

\* Clients read what was sent to them, or hang up.
LEMMA ClientChannel ==
    ASSUME PlacesInv, ChannelInv, NEW r \in Request,
           Submit(r) \/ Overloaded(r) \/ Read(r) \/ Disconnect(r)
    PROVE  ChannelInv'
<1>0. /\ client \in [Request -> Client] /\ mail \in [Request -> 0..CHANNEL]
      /\ finished \subseteq Request /\ phase \in [Request -> Phase] /\ CHANNEL \in Nat
  BY SchedulerAssumption DEF ChannelInv, PlacesInv, Types
<1>1. CASE Submit(r)
  <2>1. /\ phase' = [phase EXCEPT ![r] = "queued"] /\ phase[r] = "new"
        /\ finished' = finished /\ client' = client /\ mail' = mail
    BY <1>1 DEF Submit, clientVars
  <2> QED BY <1>0, <2>1, SameChannel
<1>2. CASE Overloaded(r)
  <2>1. phase' = [phase EXCEPT ![r] = "gone"] /\ Dismiss(r) /\ finished' = finished
    BY <1>2 DEF Overloaded
  <2>2. \A q \in Request : phase'[q] \in {"new", "queued", "admitting"} =>
            phase[q] \in {"new", "queued", "admitting"}
    BY <1>0, <2>1
  <2>3. /\ client' \in [Request -> Client] /\ mail' \in [Request -> 0..CHANNEL]
        /\ \A q \in Request : mail[q] = 0 => mail'[q] = 0
    BY <2>1, DismissChannel
  <2> QED BY <1>0, <2>1, <2>2, <2>3, NextChannel
<1>3. CASE Read(r)
  <2>1. /\ mail[r] > 0 /\ mail' = [mail EXCEPT ![r] = @ - 1]
        /\ client' = client \/ client' = [client EXCEPT ![r] = "left"]
        /\ phase' = phase /\ finished' = finished
    BY <1>3 DEF Read, requestVars
  <2>2. mail' \in [Request -> 0..CHANNEL] /\ client' \in [Request -> Client]
    BY <1>0, <2>1 DEF Client
  <2>3. \A q \in Request : mail[q] = 0 => mail'[q] = 0
    BY <1>0, <2>1
  <2> QED BY <1>0, <2>1, <2>2, <2>3, NextChannel
<1>4. CASE Disconnect(r)
  <2>1. /\ mail' = [mail EXCEPT ![r] = 0] /\ client' = [client EXCEPT ![r] = "left"]
        /\ phase' = phase /\ finished' = finished
    BY <1>4 DEF Disconnect, requestVars
  <2>2. mail' \in [Request -> 0..CHANNEL] /\ client' \in [Request -> Client]
    BY <1>0, <2>1 DEF Client
  <2>3. \A q \in Request : mail[q] = 0 => mail'[q] = 0
    BY <1>0, <2>1
  <2> QED BY <1>0, <2>1, <2>2, <2>3, NextChannel
<1> QED BY <1>1, <1>2, <1>3, <1>4

\* The serve thread sends to prefilled requests, and to a new one its first
\* messages, for which the channel has room.
LEMMA ServeChannel ==
    ASSUME PlacesInv, WorkInv, ChannelInv, ServeStep
    PROVE  ChannelInv'
<1>0. phase \in [Request -> Phase] /\ finished \subseteq Request
  BY DEF ChannelInv, PlacesInv, Types
<1>1. CASE Boundary
  <2>1. /\ Dropped(Over) /\ finished' = finished \ Over
        /\ phase' = [r \in Request |-> IF r \in Over THEN "gone" ELSE phase[r]]
    BY <1>1 DEF Boundary
  <2>2. /\ client' \in [Request -> Client] /\ mail' \in [Request -> 0..CHANNEL]
        /\ \A q \in Request : mail[q] = 0 => mail'[q] = 0
    BY <2>1, DroppedChannel
  <2> QED BY <1>0, <2>1, <2>2, NextChannel
<1>2. CASE AdmitCandidate
  <2> DEFINE r == Candidate
  <2>1. /\ Candidate # NoRequest
        /\ queue' = IF pending = NoRequest THEN Tail(queue) ELSE queue
    BY <1>2 DEF AdmitCandidate, DropCandidate, Admit, DoesNotFit, TakeCandidate
  <2>2. r \in Request /\ phase[r] = "queued"
    BY <2>1, CandidateIsQueued
  <2>3. /\ finished' = finished
        /\ \/ phase' = [phase EXCEPT ![r] = "gone"] /\ Dismiss(r)
           \/ /\ phase' = phase \/ phase' = [phase EXCEPT ![r] = "admitting"]
              /\ client' = client /\ mail' = mail
    <3>1. CASE DropCandidate(r)
      BY <3>1 DEF DropCandidate
    <3>2. ASSUME NEW c, Admit(r, c) PROVE <2>3
      BY <3>2 DEF Admit, clientVars
    <3>3. ASSUME NEW c, DoesNotFit(r, c) PROVE <2>3
      BY <3>3 DEF DoesNotFit, clientVars
    <3> QED BY <1>2, <3>1, <3>2, <3>3 DEF AdmitCandidate
  <2> HIDE DEF r
  <2>4. CASE phase' = [phase EXCEPT ![r] = "gone"] /\ Dismiss(r)
    <3>1. /\ client' \in [Request -> Client] /\ mail' \in [Request -> 0..CHANNEL]
          /\ \A q \in Request : mail[q] = 0 => mail'[q] = 0
      BY <2>2, <2>4, DismissChannel
    <3> QED BY <1>0, <2>2, <2>3, <2>4, <3>1, NextChannel
  <2>5. CASE (phase' = phase \/ phase' = [phase EXCEPT ![r] = "admitting"])
             /\ client' = client /\ mail' = mail
    BY <1>0, <2>2, <2>3, <2>5, SameChannel
  <2> QED BY <2>3, <2>4, <2>5
<1>3. CASE Prefill
  <2>1. PICK r \in Request : /\ phase[r] = "admitting"
                             /\ \/ PrefillFailed(r)
                                \/ \E last_token \in {TRUE, Output[r] = 1} : Prefilled(r, last_token)
    BY <1>3 DEF Prefill
  <2>2. CASE PrefillFailed(r)
    <3>1. phase' = [phase EXCEPT ![r] = "gone"] /\ Dismiss(r) /\ finished' = finished
      BY <2>2 DEF PrefillFailed
    <3>2. /\ client' \in [Request -> Client] /\ mail' \in [Request -> 0..CHANNEL]
          /\ \A q \in Request : mail[q] = 0 => mail'[q] = 0
      BY <3>1, DismissChannel
    <3> QED BY <1>0, <3>1, <3>2, NextChannel
  <2>3. ASSUME NEW last_token, Prefilled(r, last_token) PROVE ChannelInv'
    <3>1. /\ phase' = [phase EXCEPT ![r] = "active"] /\ Tell(r, last_token)
          /\ finished' = finished \/ finished' = finished \union {r}
      BY <2>3 DEF Prefilled
    <3>2. mail[r] = 0
      BY <2>1 DEF ChannelInv
    <3>3. /\ client' \in [Request -> Client] /\ mail' \in [Request -> 0..CHANNEL]
          /\ \A q \in Request : q # r => mail'[q] = mail[q]
      BY <3>1, <3>2, TellChannel
    <3>4. finished' \subseteq Request
      BY <1>0, <3>1
    <3>5. \A q \in Request : phase'[q] \in {"new", "queued", "admitting"} =>
              q # r /\ phase[q] \in {"new", "queued", "admitting"}
      BY <1>0, <3>1
    <3> QED BY <3>3, <3>4, <3>5, NextChannel
  <2> QED BY <2>1, <2>2, <2>3
<1>4. CASE Dispatch
  <2>1. \/ client' = client /\ mail' = mail /\ finished' = finished
        \/ \E r \in Members(0) \union Members(1) :
               Sendable(r) /\ Tell(r, TRUE) /\ finished' = finished \union {r}
    BY <1>4 DEF Dispatch, clientVars
  <2>2. phase' = phase /\ \A l : Members(l) \subseteq Active
    BY <1>4 DEF Dispatch, Members, OnLane
  <2>3. CASE client' = client /\ mail' = mail /\ finished' = finished
    BY <2>2, <2>3, SameChannel
  <2>4. ASSUME NEW r \in Members(0) \union Members(1),
               Sendable(r), Tell(r, TRUE), finished' = finished \union {r}
        PROVE  ChannelInv'
    BY <2>2, <2>4, TellActive
  <2> QED BY <2>1, <2>3, <2>4
<1>5. CASE Join
  BY <1>5, SameChannel DEF Join, clientVars, requestVars
<1>6. CASE FailRequest
  <2>1. phase' = phase /\ todo[0] \subseteq Active
    BY <1>6 DEF FailRequest, WorkInv, FailingActive
  <2>2. CASE todo[0] = {}
    BY <1>6, <2>1, <2>2, SameChannel DEF FailRequest, clientVars
  <2>3. CASE todo[0] # {}
    <3>1. PICK r \in todo[0] : Sendable(r) /\ Tell(r, TRUE) /\ finished' = finished \union {r}
      BY <1>6, <2>3 DEF FailRequest
    <3> QED BY <2>1, <3>1, TellActive
  <2> QED BY <2>2, <2>3
<1> QED BY <1>1, <1>2, <1>3, <1>4, <1>5, <1>6 DEF ServeStep

\* A lane sends to the members of its round, and only when their channels have room.
LEMMA LaneChannel ==
    ASSUME PlacesInv, WorkInv, ChannelInv, NEW l \in Lane, LaneStep(l)
    PROVE  ChannelInv'
<1>1. CASE LaneStops(l) \/ LaneEnter(l) \/ LaneVerify(l)
  <2>1. phase' = phase /\ client' = client /\ mail' = mail /\ finished' = finished
    BY <1>1 DEF LaneStops, LaneEnter, LaneVerify, clientVars, requestVars
  <2> QED BY <2>1, SameChannel
<1>2. CASE LaneDeliver(l)
  <2>1. phase' = phase /\ todo[l] \subseteq Active
    BY <1>2 DEF LaneDeliver, WorkInv, MembersOnLane, Working, OnLane
  <2>2. PICK r \in todo[l] :
            /\ Sendable(r)
            /\ \E terminal : Tell(r, terminal)
            /\ finished' = finished \/ finished' = finished \union {r}
    BY <1>2 DEF LaneDeliver
  <2> QED BY <2>1, <2>2, TellActive
<1>3. CASE LaneRetires(l) \/ LaneReleases(l)
  <2>1. LaneMoves(l)
    BY <1>3, RetireAndReleaseMove
  <2>2. \A q \in Request : phase'[q] \in {"new", "queued", "admitting"} =>
            phase[q] \in {"new", "queued", "admitting"}
    BY <2>1 DEF LaneMoves
  <2>3. CASE LaneRetires(l)
    <3>1. client' = client /\ mail' = mail /\ finished' = finished
      BY <2>3 DEF LaneRetires, clientVars
    <3> QED BY <2>2, <3>1, SameChannel
  <2>4. CASE LaneReleases(l)
    <3>1. \E r : Dropped({r}) /\ finished' = finished \ {r}
      BY <2>4 DEF LaneReleases
    <3>2. /\ client' \in [Request -> Client] /\ mail' \in [Request -> 0..CHANNEL]
          /\ \A q \in Request : mail[q] = 0 => mail'[q] = 0
      BY <3>1, DroppedChannel
    <3> QED BY <2>2, <3>1, <3>2, NextChannel DEF ChannelInv
  <2> QED BY <1>3, <2>3, <2>4
<1> QED BY <1>1, <1>2, <1>3 DEF LaneStep

\* Every step keeps the channels in order.
LEMMA StepKeepsChannel == PlacesInv /\ WorkInv /\ ChannelInv /\ [Next]_vars => ChannelInv'
<1> SUFFICES ASSUME PlacesInv, WorkInv, ChannelInv, [Next]_vars PROVE ChannelInv'
  OBVIOUS
<1>1. ASSUME NEW r \in Request, Submit(r) \/ Overloaded(r) \/ Read(r) \/ Disconnect(r)
      PROVE  ChannelInv'
  BY <1>1, ClientChannel
<1>2. CASE CloseDoor \/ UNCHANGED vars
  <2>1. phase' = phase /\ client' = client /\ mail' = mail /\ finished' = finished
    BY <1>2 DEF CloseDoor, vars, clientVars, requestVars
  <2> QED BY <2>1, SameChannel
<1>3. CASE ServeStep
  BY <1>3, ServeChannel
<1>4. ASSUME NEW l \in Lane, LaneStep(l) PROVE ChannelInv'
  BY <1>4, LaneChannel
<1> QED BY <1>1, <1>2, <1>3, <1>4 DEF Next

\* The types are right in every state: no channel ever holds more than CHANNEL
\* messages, the queue never more than QUEUE requests, and every page of the pool
\* is free, spare or held by exactly one request's rows.
THEOREM LoopTypeOK == Spec => []SchedulerTypeOK
<1>1. ASSUME PlacesInv, BudgetInv, QueueTypes, LaneTypes, ChannelInv PROVE SchedulerTypeOK
  <2>1. /\ queue \in Seq(Request) /\ pending \in Request \union {NoRequest}
        /\ phase \in [Request -> Phase] /\ lane \in [Request -> Lane]
    BY <1>1 DEF PlacesInv, Types
  <2>2. /\ rows \in [Request -> Nat]
        /\ pool.size \in PoolSizes /\ pool.free \in Nat /\ pool.spare \in Nat
        /\ pool.free + pool.spare + Cardinality(PagesOf(Request, rows)) = pool.size
    BY <1>1, PoolFields DEF BudgetInv, RowsOK, Accounts, PagesAdd
  <2>3. pool.tails \subseteq {r \in Request : rows[r] % PAGE_ROWS # 0}
    BY <1>1, PoolFields DEF BudgetInv, Accounts, TailsPartial
  <2> QED BY <1>1, <2>1, <2>2, <2>3 DEF SchedulerTypeOK, QueueTypes, LaneTypes, ChannelInv
<1>2. PlacesInv /\ CountsInv /\ WorkInv /\ QueueTypes /\ LaneTypes /\ ChannelInv /\ [Next]_vars
      => (QueueTypes /\ LaneTypes /\ ChannelInv)'
  BY StepKeepsQueue, StepKeepsPoints, StepKeepsChannel
<1> QED BY <1>1, <1>2, InitTypes, BudgetAlways, PTL DEF Spec

=============================================================================
