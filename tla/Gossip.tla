------------------------------- MODULE Gossip -------------------------------
(***************************************************************************)
(* One node's gossip (arxd/network's run_swarm) and the threads around it:  *)
(* the bridges that carry signed votes to the swarm over bounded channels,  *)
(* the shutdown latch, the strikes that ban a peer, and the tips peers      *)
(* claim, which hold a booting validator back from producing.               *)
(***************************************************************************)
EXTENDS Integers, Sequences, FiniteSetsExt

CONSTANTS Peers,
          Foreign,       \* the peers of another genesis
          VoteTopics,    \* of prevotes, precommits and round timeouts
          OutboundCap,   \* OUTBOUND_CHANNEL_CAP
          MaxBadGossip,  \* MAX_BAD_GOSSIP
          MaxTip,        \* bound on tips
          MaxMade,       \* topic -> bound on the messages the node makes on it
          PeerWait,      \* PEER_WAIT and SYNC_WAIT_CAP, in production ticks
          SyncWaitCap

GRACEFUL == 1
HALT == 17

Topics == VoteTopics \cup {"actions", "blocks", "dissents"}

VARIABLES
    latch,      \* SHUTDOWN
    exit,       \* the process's exit code, -1 while it runs
    signed,     \* vote topic -> the votes the finality thread handed to its bridge
    bridge,     \* vote topic -> its bridge: "idle", "send" with the vote in hand, or "ended"
    outbox,     \* topic -> the channel into the swarm loop
    made,       \* bound: topic -> messages made
    wire,       \* what the node published
    loop,       \* the swarm loop: "top" or "select"
    connected, blocked,
    strikes,    \* bad_gossip
    bad,        \* peer -> the bad messages it sent since boot
    peer_tips, unbacked,
    height,     \* this node's tip
    best,       \* BEST_PEER_TIP
    waited,     \* production ticks since boot
    synced      \* the startup gate

outboundVars == <<signed, bridge, outbox, made, wire>>
peerVars == <<connected, blocked, strikes, bad, peer_tips, unbacked, height>>
gateVars == <<best, waited, synced>>
gossipVars == <<latch, exit, outboundVars, loop, peerVars, gateVars>>

\* run_swarm before its first event.
SwarmInit ==
    /\ loop = "top"
    /\ connected = {} /\ blocked = {} /\ unbacked = {}
    /\ strikes = [p \in Peers |-> 0] /\ bad = [p \in Peers |-> 0]
    /\ peer_tips = [p \in Peers |-> -1]

\* spawn_p2p_node hands the channels' other ends to the swarm's thread.
GossipInit ==
    /\ latch = 0 /\ exit = -1
    /\ signed = [t \in VoteTopics |-> <<>>] /\ bridge = [t \in VoteTopics |-> "idle"]
    /\ outbox = [t \in Topics |-> <<>>] /\ made = [t \in Topics |-> 0] /\ wire = {}
    /\ SwarmInit
    /\ height = 0 /\ best = 0 /\ waited = 0 /\ synced = FALSE

Running == exit = -1

-----------------------------------------------------------------------------
(* The shutdown latch *)

\* The first writer wins.
request_shutdown(code) == latch' = IF latch = 0 THEN code ELSE latch

ctrl_c ==
    /\ Running /\ latch = 0
    /\ request_shutdown(GRACEFUL)
    /\ UNCHANGED <<exit, outboundVars, loop, peerVars, gateVars>>

\* Divergence recovery proved this node's chain wrong.
halt ==
    /\ Running
    /\ request_shutdown(HALT)
    /\ UNCHANGED <<exit, outboundVars, loop, peerVars, gateVars>>

-----------------------------------------------------------------------------
(* Votes, blocks, dissents and actions on their way out *)

\* A full channel drops the item.
send_outbound(box, item) == IF Len(box) < OutboundCap THEN Append(box, item) ELSE box

\* A message remembers whether it was made after the latch.
Made(t) == [topic |-> t, late |-> latch # 0]

finality_signs(t) ==
    /\ Running /\ made[t] < MaxMade[t]
    /\ made' = [made EXCEPT ![t] = @ + 1]
    /\ signed' = [signed EXCEPT ![t] = IF bridge[t] = "ended" THEN @ ELSE Append(@, Made(t))]
    /\ UNCHANGED <<latch, exit, bridge, outbox, wire, loop, peerVars, gateVars>>

\* Mutant of bridge_takes: the bridge does not look at the latch.
bridge_takesMutant(t) ==
    /\ Running /\ bridge[t] = "idle" /\ signed[t] # <<>>
    /\ bridge' = [bridge EXCEPT ![t] = "send"]
    /\ UNCHANGED <<latch, exit, signed, outbox, made, wire, loop, peerVars, gateVars>>

\* The bridge takes a vote, and ends when the latch is set, its channel with it.
bridge_takes(t) ==
    /\ Running /\ bridge[t] = "idle" /\ signed[t] # <<>>
    /\ bridge' = [bridge EXCEPT ![t] = IF latch # 0 THEN "ended" ELSE "send"]
    /\ signed' = [signed EXCEPT ![t] = IF latch # 0 THEN <<>> ELSE @]
    /\ UNCHANGED <<latch, exit, outbox, made, wire, loop, peerVars, gateVars>>

bridge_sends(t) ==
    /\ Running /\ bridge[t] = "send"
    /\ outbox' = [outbox EXCEPT ![t] = send_outbound(@, Head(signed[t]))]
    /\ signed' = [signed EXCEPT ![t] = Tail(@)]
    /\ bridge' = [bridge EXCEPT ![t] = "idle"]
    /\ UNCHANGED <<latch, exit, made, wire, loop, peerVars, gateVars>>

\* The node's own dissents, and the actions RPC queued, go straight to the channel.
sends_direct(t) ==
    /\ Running /\ t \in {"actions", "dissents"} /\ made[t] < MaxMade[t]
    /\ made' = [made EXCEPT ![t] = @ + 1]
    /\ outbox' = [outbox EXCEPT ![t] = send_outbound(@, Made(t))]
    /\ UNCHANGED <<latch, exit, signed, bridge, wire, loop, peerVars, gateVars>>

\* The loop publishes, or the publish fails: no peer, too large, a duplicate.
publish(t) ==
    /\ Running /\ loop = "select" /\ outbox[t] # <<>>
    /\ outbox' = [outbox EXCEPT ![t] = Tail(@)]
    /\ wire' \in {wire, wire \cup {Head(outbox[t])}}
    /\ loop' = "top"
    /\ UNCHANGED <<latch, exit, signed, bridge, made, peerVars, gateVars>>

-----------------------------------------------------------------------------
(* The swarm loop's top, and peers coming and going *)

\* The highest tip of a peer that backs its claim, -1 for none.
backed_best_tip == Max({-1} \cup {peer_tips[p] : p \in Peers \ unbacked})

loop_top ==
    /\ Running /\ loop = "top"
    /\ best' = backed_best_tip + 1
    /\ loop' = "select"
    /\ UNCHANGED <<latch, exit, outboundVars, peerVars, waited, synced>>

\* An arm that ends early goes back to the top all the same.
Continue == loop' = "top"

Event == Running /\ loop = "select"
EventUnchanged == UNCHANGED <<latch, exit, outboundVars, gateVars>>

\* A clean slate for sync, not for bad gossip.
ConnectionEstablished(p) ==
    /\ Event /\ p \notin connected \cup blocked
    /\ connected' = connected \cup {p}
    /\ unbacked' = unbacked \ {p}
    /\ loop' = "top"
    /\ UNCHANGED <<blocked, strikes, bad, peer_tips, height>> /\ EventUnchanged

\* By either side, or by the block list.
ConnectionClosed(p) ==
    /\ Event /\ p \in connected
    /\ connected' = connected \ {p}
    /\ peer_tips' = [peer_tips EXCEPT ![p] = -1]
    /\ unbacked' = unbacked \ {p}
    /\ loop' = "top"
    /\ UNCHANGED <<blocked, strikes, bad, height>> /\ EventUnchanged

\* A peer of another genesis is blocked at once.
identify(p) ==
    /\ Event /\ p \in connected
    /\ blocked' = IF p \in Foreign THEN blocked \cup {p} ELSE blocked
    /\ loop' = "top"
    /\ UNCHANGED <<connected, strikes, bad, peer_tips, unbacked, height>> /\ EventUnchanged

-----------------------------------------------------------------------------
(* Gossip from peers *)

record_bad_gossip(p) ==
    /\ bad' = [bad EXCEPT ![p] = @ + 1]
    /\ strikes' = [strikes EXCEPT ![p] = @ + 1]
    /\ blocked' = IF strikes'[p] >= MaxBadGossip THEN blocked \cup {p} ELSE blocked

NoStrike == UNCHANGED <<bad, strikes, blocked>>

Heard(p) == Event /\ p \in connected \ blocked

\* An action: undecodable or forged is a strike; stale, refused by the precheck
\* or by the queue is not, and neither is one that is queued.
gossip_action(p, decodes, authentic, current) ==
    /\ Heard(p)
    /\ IF ~decodes \/ ~authentic THEN record_bad_gossip(p) ELSE NoStrike
    /\ IF decodes /\ authentic /\ current THEN loop' = "top" ELSE Continue
    /\ UNCHANGED <<connected, peer_tips, unbacked, height>> /\ EventUnchanged

\* A block: on_block says whether its signature is forged; otherwise the node
\* takes it on its tip, or refuses it.
gossip_block(p, decodes, forged, extends) ==
    /\ Heard(p)
    /\ IF ~decodes \/ forged THEN record_bad_gossip(p) ELSE NoStrike
    /\ height' = IF decodes /\ ~forged /\ extends /\ height < MaxTip THEN height + 1 ELSE height
    /\ IF decodes THEN loop' = "top" ELSE Continue
    /\ UNCHANGED <<connected, peer_tips, unbacked>> /\ EventUnchanged

\* A prevote, precommit, dissent or round timeout: only its encoding is judged
\* here, the rest is finality's.
gossip_vote(p, decodes) ==
    /\ Heard(p)
    /\ IF ~decodes THEN record_bad_gossip(p) ELSE NoStrike
    /\ IF decodes THEN loop' = "top" ELSE Continue
    /\ UNCHANGED <<connected, peer_tips, unbacked, height>> /\ EventUnchanged

-----------------------------------------------------------------------------
(* Claimed tips, and the startup gate *)

Status(p, tip) ==
    /\ Event /\ p \in connected
    /\ peer_tips' = [peer_tips EXCEPT ![p] = tip]
    /\ loop' = "top"
    /\ UNCHANGED <<connected, blocked, strikes, bad, unbacked, height>> /\ EventUnchanged

\* An empty page: what the peer claims above this tip it cannot back.
empty_page(p) ==
    /\ Event /\ p \in connected
    /\ unbacked' = IF peer_tips[p] > height THEN unbacked \cup {p} ELSE unbacked
    /\ Continue
    /\ UNCHANGED <<connected, blocked, strikes, bad, peer_tips, height>> /\ EventUnchanged

\* A page of blocks: stale, or one that the node takes or refuses, and either way
\* backs the claim; a forged block is a strike.
blocks_page(p, stale, forged, moves) ==
    /\ Heard(p)
    /\ IF forged /\ ~stale THEN record_bad_gossip(p) ELSE NoStrike
    /\ height' = IF moves /\ ~stale /\ ~forged /\ height < MaxTip THEN height + 1 ELSE height
    /\ unbacked' = IF stale THEN unbacked ELSE unbacked \ {p}
    /\ IF stale THEN Continue ELSE loop' = "top"
    /\ UNCHANGED <<connected, peer_tips>> /\ EventUnchanged

caught_up(b, w) ==
    \/ w >= SyncWaitCap
    \/ IF b > 0 THEN height >= b - 1 ELSE w >= PeerWait

\* A tick of the production loop: it waits for the gate, and may produce a block,
\* which it sends.
produce_tick ==
    /\ Running /\ latch = 0
    /\ waited' = IF waited < SyncWaitCap THEN waited + 1 ELSE waited
    /\ synced' = (synced \/ caught_up(best, waited))
    /\ \/ UNCHANGED <<outbox, made, height>>
       \/ /\ synced' /\ made["blocks"] < MaxMade["blocks"] /\ height < MaxTip
          /\ made' = [made EXCEPT !["blocks"] = @ + 1]
          /\ outbox' = [outbox EXCEPT !["blocks"] = send_outbound(@, Made("blocks"))]
          /\ height' = height + 1
    /\ UNCHANGED <<latch, exit, signed, bridge, wire, loop, connected, blocked, strikes, bad,
                   peer_tips, unbacked, best>>

\* A tick after the latch ends the process.
produce_stop ==
    /\ Running /\ latch # 0
    /\ exit' = IF latch = HALT THEN HALT ELSE 0
    /\ UNCHANGED <<latch, outboundVars, loop, peerVars, gateVars>>

-----------------------------------------------------------------------------

OutboundNext ==
    \/ ctrl_c
    \/ halt
    \/ \E t \in VoteTopics : finality_signs(t) \/ bridge_takes(t) \/ bridge_sends(t)
    \/ \E t \in {"actions", "dissents"} : sends_direct(t)
    \/ \E t \in Topics : publish(t)
    \/ loop_top
    \/ produce_tick
    \/ produce_stop

InboundNext ==
    \/ loop_top
    \/ \E p \in Peers :
          \/ ConnectionEstablished(p) \/ ConnectionClosed(p) \/ identify(p)
          \/ \E decodes, authentic, current \in BOOLEAN :
                gossip_action(p, decodes, authentic, current)
          \/ \E decodes, forged, extends \in BOOLEAN : gossip_block(p, decodes, forged, extends)
          \/ \E decodes \in BOOLEAN : gossip_vote(p, decodes)
          \/ \E tip \in 0..MaxTip : Status(p, tip)
          \/ empty_page(p)
          \/ \E stale, forged, moves \in BOOLEAN : blocks_page(p, stale, forged, moves)
    \/ produce_tick

-----------------------------------------------------------------------------

\* What the swarm sends and shows follows the node.  No prevote, precommit or
\* round timeout that was signed after the node latched a stop is ever published:
\* the bridge looks at the latch after it has the vote (precommit_bridge: "it
\* takes effect at once").  And while the loop waits for its next event, the tip
\* it shows the producer is the best one a peer claims and backs, whichever arm
\* ran last and however it ended ("Top of the loop, not the bottom: the select
\* arms `continue`").
SwarmFollowsTheNode ==
    /\ \A m \in wire : m.topic \in VoteTopics => ~m.late
    /\ loop = "select" => best = backed_best_tip + 1
=============================================================================
