----------------------------- MODULE MCHostCache -----------------------------
(* Snapshots of one conversation: a prompt of one token and a turn of the same  *)
(* length, on any device pages.                                                *)
EXTENDS HostCache, TLC

CONSTANT Offered

Prompt == [kind |-> "prompt", tokens |-> <<1>>]
ShortTurn == [kind |-> "turn", tokens |-> <<1>>]

PromptAndShortTurn == {Prompt, ShortTurn}

Lists(n) == {f \in [1..n -> PageId] : \A i, j \in 1..n : f[i] = f[j] => i = j}

MCMeta ==
    UNION {{[kind |-> o.kind, tokens |-> o.tokens, pages |-> f, parts |-> 1] :
               f \in Lists(Len(o.tokens))} : o \in Offered}

Symmetry == Permutations(Slab)

=============================================================================
