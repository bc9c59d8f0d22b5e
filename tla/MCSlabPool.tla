----------------------------- MODULE MCSlabPool -----------------------------
(***************************************************************************)
(* Three chunks of three bytes, with two bytes of quota left over.  A chunk*)
(* carves into three pages, or into one tail with a byte unused; the third *)
(* class is disabled.  Three chunks is the least with a middle to unlink.  *)
(***************************************************************************)
EXTENDS SlabPool

CONSTANTS PageClass, TailClass, ScoresClass

MCClass == {PageClass, TailClass, ScoresClass}

MCSize == [k \in MCClass |-> CASE k = PageClass -> 1
                               [] k = TailClass -> 2
                               [] k = ScoresClass -> 0]

=============================================================================
