----------------------------- MODULE RangeStore -----------------------------
(***************************************************************************)
(* What pinned host memory promises its users: every range handed out lies *)
(* inside one chunk, no two ranges that are out at the same time share a   *)
(* byte, and a range stays out until its holder gives it back.  SlabPool   *)
(* is shown to implement this specification.                               *)
(***************************************************************************)
EXTENDS Naturals

CONSTANTS
    Chunk,        \* chunk ids
    ChunkBytes,   \* bytes of one chunk
    RangeBytes    \* the sizes a caller may ask for

VARIABLE out      \* the ranges currently handed out

HostRange == [chunk : Chunk, offset : 0..ChunkBytes, bytes : RangeBytes]

InChunk(r) == r.offset + r.bytes <= ChunkBytes

Disjoint(r, t) ==
    \/ r.chunk # t.chunk
    \/ r.offset + r.bytes <= t.offset
    \/ t.offset + t.bytes <= r.offset

Init == out = {}

Take ==
    \E r \in HostRange :
        /\ InChunk(r)
        /\ \A t \in out : Disjoint(r, t)
        /\ r \notin out
        /\ out' = out \cup {r}

GiveBack ==
    \E r \in out : out' = out \ {r}

Next == Take \/ GiveBack

Spec == Init /\ [][Next]_out

=============================================================================
