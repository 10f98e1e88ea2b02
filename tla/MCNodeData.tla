----------------------------- MODULE MCNodeData -----------------------------
(* What a node keeps on its machine: the chain database under commits,      *)
(* reverts, imports and crashes (ChainStore), and the boot that installs a  *)
(* genesis in it and loads the files beside it (Boot).  Boot sees a         *)
(* database through its genesis rows and its tip only, so a behaviour       *)
(* follows one of the two.                                                  *)
(*                                                                          *)
(* Store: chains of up to three blocks over two payloads, one writing a key *)
(* the other deletes.  Boot: a chain that is reset once and another one     *)
(* beside it.                                                               *)
EXTENDS ChainStore, Boot

CONSTANTS p1, p2, x, y, core, side, core1, core2, side1, node, tool

VARIABLE part      \* the part this behaviour follows

nodeDataVars == <<vars, bootVars, part>>

NodeDataInit ==
    /\ Init
    /\ BootInit
    /\ part \in {"store", "boot"}
    /\ part = "store" => record["base"] = Unset

StoreStep == part = "store" /\ Next /\ UNCHANGED <<bootVars, part>>

BootStep == part = "boot" /\ BootNext /\ UNCHANGED <<vars, part>>

\* The operator leaves the machine off.
StaysDown ==
    /\ part = "boot" /\ \A p \in Processes : process[p] = Exited
    /\ UNCHANGED nodeDataVars

NodeDataNext == StoreStep \/ BootStep \/ StaysDown

NodeDataSpec == NodeDataInit /\ [][NodeDataNext]_nodeDataVars

-----------------------------------------------------------------------------

MCPuts == p1 :> {x, y} @@ p2 :> {y}

MCDeletes == p1 :> {} @@ p2 :> {x}

MCDecided == <<p1, p2, p1>>

MCGenesis == [n \in {core, side} |-> IF n = core THEN <<core1, core2>> ELSE <<side1>>]
MCFormats == [n \in {core, side} |-> IF n = core THEN {"plain", "raw", "stale"} ELSE {"plain"}]
MCStarts == [p \in {node, tool} |-> IF p = node THEN 2 ELSE 1]
MCRuns == [p \in {node, tool} |->
              IF p = node THEN {"validator"}
              ELSE {"keys", "node_key", "validator_key", "bls_key", "pair", "snapshot",
                    "prune", "observer"}]
=============================================================================
