---------------------------- MODULE MCRequestBank ----------------------------
(* One encoder window, one source and one decoder window, in layer order.      *)
EXTENDS RequestBank, TLC

Layers == <<"encoder", "source", "decoder">>

CONSTANTS r1, r2
OneOrTwo == [g \in Stage |-> IF g \in {"Encoder", "Replay"} THEN {1} ELSE {2}]
ThreeAndOne == r1 :> 3 @@ r2 :> 1

Symmetry == Permutations(Lane)

=============================================================================
