--------------------------- MODULE MCHostSnapshots ---------------------------
(* A prompt, the turn that extends it, and that turn stored again. *)
EXTENDS HostSnapshots, TLC

CONSTANTS p1, p2

MCMeta ==
    {[kind |-> "prompt", tokens |-> <<1>>, pages |-> <<p1>>, parts |-> 1],
     [kind |-> "turn", tokens |-> <<1>>, pages |-> <<p1>>, parts |-> 1],
     [kind |-> "turn", tokens |-> <<1, 2>>, pages |-> <<p1, p2>>, parts |-> 1]}

Symmetry == Permutations(Slab)

=============================================================================
