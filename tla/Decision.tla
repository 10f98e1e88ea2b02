------------------------------ MODULE Decision ------------------------------
(***************************************************************************)
(* What the finality of one height promises, with no rounds, votes or      *)
(* databases in it: a node that calls a block final calls final the block  *)
(* every other node does, and never takes it back.                         *)
(***************************************************************************)

CONSTANTS Nodes, Values, None

VARIABLE final      \* node -> the block it holds as final, or None

Init == final = [n \in Nodes |-> None]

Decide(n, b) ==
    /\ final[n] = None
    /\ \A m \in Nodes : final[m] \in {None, b}
    /\ final' = [final EXCEPT ![n] = b]

Next == \E n \in Nodes, b \in Values : Decide(n, b)

Spec == Init /\ [][Next]_final

=============================================================================
