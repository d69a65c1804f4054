---------------------------- MODULE MCBalanced ----------------------------
(* Two requests share an endpoint, a third is for another. *)
EXTENDS Balanced

CONSTANTS r1, r2, r3, e1, e2

MCEndpointOf == [r \in {r1, r2, r3} |-> IF r = r3 THEN e2 ELSE e1]

(* Every selector, with and without limiters. *)
MCConfigs == {[nodes |-> 0, qos |-> TRUE], [nodes |-> 1, qos |-> TRUE],
              [nodes |-> 1, qos |-> FALSE], [nodes |-> 2, qos |-> TRUE]}
=============================================================================
