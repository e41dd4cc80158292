-------------------------- MODULE MCLinkAdjacency --------------------------
(* Small instances of LinkAdjacency for TLC. *)
EXTENDS LinkAdjacency

CONSTANTS A, B, ab, ba, bi

\* ab is A's quantum channel to B, ba a classical one back; bi is the inbound
\* end of ab in B's table.
MCOwner == [k \in Keys |-> IF k = ab THEN A ELSE B]
\* Reports all go out, all fail, or A's fail now and then.
MCSent == [a \in Agents |-> {TRUE}]
MCUnsent == [a \in Agents |-> {FALSE}]
MCSometimesSent == [a \in Agents |-> IF a = A THEN BOOLEAN ELSE {TRUE}]
MCNeighbor == [k \in Keys |-> IF k = ab THEN B ELSE A]
=============================================================================
