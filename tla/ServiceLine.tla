--------------------------- MODULE ServiceLine ----------------------------
(* What the serving loop promises its clients: requests are taken from a   *)
(* line in the order in which they joined it, at most SLOTS are in service *)
(* at a time, and every request that joined is eventually done.            *)

EXTENDS Naturals, Sequences, FiniteSets

CONSTANTS
    Request,
    SLOTS       \* requests in service at a time

VARIABLES
    line,       \* requests that wait, the next one first
    serving,    \* requests in service
    done        \* requests that were served, refused or given up

lineVars == <<line, serving, done>>

Waiting == {line[i] : i \in DOMAIN line}

Init ==
    /\ line = <<>>
    /\ serving = {}
    /\ done = {}

Join(r) ==
    /\ r \notin Waiting \union serving \union done
    /\ line' = Append(line, r)
    /\ UNCHANGED <<serving, done>>

\* A request may be turned away before it joins the line.
TurnAway(r) ==
    /\ r \notin Waiting \union serving \union done
    /\ done' = done \union {r}
    /\ UNCHANGED <<line, serving>>

Enter ==
    /\ line # <<>>
    /\ Cardinality(serving) < SLOTS
    /\ line' = Tail(line)
    /\ serving' = serving \union {Head(line)}
    /\ UNCHANGED done

\* The next request is refused, or its client has given up.
Refuse ==
    /\ line # <<>>
    /\ line' = Tail(line)
    /\ done' = done \union {Head(line)}
    /\ UNCHANGED serving

\* Requests that are over leave service, several at once if the loop finds
\* several of them over.
Leave(over) ==
    /\ over # {}
    /\ serving' = serving \ over
    /\ done' = done \union over
    /\ UNCHANGED line

Next ==
    \/ \E r \in Request : Join(r) \/ TurnAway(r)
    \/ Enter \/ Refuse
    \/ \E over \in SUBSET serving : Leave(over)

\* The line moves, and no request stays in service for ever.
Fairness ==
    /\ WF_lineVars(Enter \/ Refuse)
    /\ \A r \in Request :
           WF_lineVars(\E over \in SUBSET serving : r \in over /\ Leave(over))

Spec == Init /\ [][Next]_lineVars
FairSpec == Spec /\ Fairness
=============================================================================
