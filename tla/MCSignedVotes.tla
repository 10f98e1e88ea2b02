--------------------------- MODULE MCSignedVotes ---------------------------
(***************************************************************************)
(* SignedVotes on one height, three rounds and two blocks.  b1 obtains a    *)
(* quorum of prevotes in round 0 and b2 in round 1: a lock on b1 can be     *)
(* released for b2, and a lock on b2 must not be released for b1.           *)
(***************************************************************************)
EXTENDS SignedVotes

CONSTANTS b1, b2, p1

MCPols == { [height |-> 1, round |-> 0, hash |-> b1],
            [height |-> 1, round |-> 1, hash |-> b2] }

=============================================================================
