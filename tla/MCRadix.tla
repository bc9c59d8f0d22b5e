------------------------------ MODULE MCRadix -------------------------------
(* Keys that share prefixes of every length. *)
EXTENDS Radix, TLC

TurnKeys == {<<1>>, <<1, 2>>, <<1, 2, 1>>, <<1, 2, 1, 1>>, <<1, 2, 2>>, <<1, 2, 2, 1, 1>>, <<2>>}
PromptKeys == {<<1, 2>>, <<1, 2, 1, 1, 2>>}
MCBankKeys == [k \in Kind |-> IF k = "prompt" THEN PromptKeys ELSE TurnKeys]
Queries == TurnKeys \union PromptKeys \union {<<1, 1>>, <<1, 2, 2, 1, 2>>, <<2, 1>>}

\* Only the order of the clocks matters, and nothing depends on the answer.
Rank(k, p) == Cardinality({q \in Valued(tree[k]) : tree[k][q].used <= tree[k][p].used})
View == [k \in Kind |-> <<entries[k],
            [p \in DOMAIN tree[k] |-> <<tree[k][p].edge,
                IF p \in Valued(tree[k]) THEN Rank(k, p) ELSE 0>>]>>]
=============================================================================
