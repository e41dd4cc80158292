---------------------------- MODULE LinkProtocol ----------------------------
(***************************************************************************)
(* What the link manager promises of the links of all agents: a link opens *)
(* from DOWN only, it is confirmed (CONTROL_UP) only when both ends have   *)
(* heard each other, and QUANTUM_UP is the mark of an answered probe.      *)
(* LinkAdjacency is the protocol of messages, timers and awaits behind it. *)
(***************************************************************************)

CONSTANTS
    Agents,
    Keys,       \* entries of the link state tables of all agents
    Owner,      \* the agent in whose table an entry is
    Neighbor,   \* entry.neighbor_cid
    Mortal      \* the agents that may crash and forget

VARIABLES
    link,       \* state of each entry
    heard       \* heard[a]: the neighbours a has had a hello from

vars == <<link, heard>>

Init ==
    /\ link = [k \in Keys |-> "DOWN"]
    /\ heard = [a \in Agents |-> {}]

Open(k) ==
    /\ link[k] = "DOWN"
    /\ link' = [link EXCEPT ![k] = "INIT"]
    /\ UNCHANGED heard

\* b hears a, and confirms some of the links it is opening to a.
Hear(b, a) ==
    /\ heard' = [heard EXCEPT ![b] = @ \cup {a}]
    /\ \E K \in SUBSET {k \in Keys : /\ Owner[k] = b /\ Neighbor[k] = a
                                     /\ link[k] = "INIT"} :
          /\ K # {} => a \in Mortal \/ b \in heard'[a]
          /\ link' = [k \in Keys |-> IF k \in K THEN "CONTROL_UP" ELSE link[k]]

\* A probe of the link was answered.
Probed(k) ==
    /\ link' = [link EXCEPT ![k] = "QUANTUM_UP"]
    /\ UNCHANGED heard

Close(K) ==
    /\ link' = [k \in Keys |-> IF k \in K THEN "DOWN" ELSE link[k]]
    /\ UNCHANGED heard

Forget(a) ==
    /\ a \in Mortal
    /\ link' = [k \in Keys |-> IF Owner[k] = a THEN "DOWN" ELSE link[k]]
    /\ heard' = [heard EXCEPT ![a] = {}]

Next ==
    \/ \E k \in Keys : Open(k) \/ Probed(k)
    \/ \E a, b \in Agents : Hear(b, a)
    \/ \E K \in SUBSET Keys : Close(K)
    \/ \E a \in Mortal : Forget(a)

Spec == Init /\ [][Next]_vars
=============================================================================
