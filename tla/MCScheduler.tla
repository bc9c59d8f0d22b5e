--------------------------- MODULE MCScheduler ----------------------------
EXTENDS Scheduler, TLC
CONSTANTS r1, r2, r3
ShortAnswers == [r \in Request |-> 2]
LongAnswers == [r \in Request |-> 3]
ShortPrompts == [r \in Request |-> 1]
Before == (r1 :> {}) @@ (r2 :> {r1}) @@ (r3 :> {r1, r2})
InTurn == \A r \in Request : phase'[r] # "new" => \A s \in Before[r] : phase'[s] # "new"
InTurnSpec == Init /\ [][Next /\ InTurn]_vars /\ Fairness
=============================================================================
