-------------------------------- MODULE Sync --------------------------------
(* Catching up with peers (arxd/network): the swarm loop of one node, its    *)
(* block sync, its watermark backfill, divergence recovery and snapshot      *)
(* download, against peers that answer late, in any order or not at all.     *)
(*                                                                           *)
(* The chain the network certifies is "c" at every height.  The node may     *)
(* hold at its tip a block "x" the network does not certify: its own, or a   *)
(* gossiped one.  Peers are honest, so every certificate they serve          *)
(* verifies.  Votes and rounds are Finality's subject, rows and undo records *)
(* ChainStore's.                                                             *)
EXTENDS Naturals, Sequences, FiniteSets, FiniteSetsExt

CONSTANTS
    Peers,
    Servers,        \* peers that still keep the state of the anchor
    None,
    Anchor,         \* --snapshot-trust-height; 0 without one
    Chunks,         \* chunks in the anchor's snapshot
    MAX_PAGE_SIZE,
    MAX_CONSECUTIVE_SYNC_FAILURES,
    MaxTip,         \* heights the network reaches
    MaxWire,        \* requests under way when a tick adds more
    MaxForks,       \* blocks "x" this node commits
    MaxLosses,      \* requests that get no answer
    MaxDrops        \* connections that close

ASSUME SyncAssumption ==
    /\ MaxTip \in Nat /\ MaxTip >= 2
    /\ Anchor \in Nat
    /\ MAX_PAGE_SIZE \in Nat \ {0}

VARIABLES
    net,        \* peer -> [tip, cert]: its blocks and its certified height
    chain,      \* this node's blocks above genesis
    certs,      \* heights whose certificate is stored
    watermark,  \* final watermark
    connected,
    wire,       \* requests under way, answered or not
    tips,       \* peer_tips: the tip a peer last claimed, or None
    failures,   \* sync_failures
    recovering, \* peer -> the reply awaited from it, or None
    stuck,      \* stuck_tip: height and rounds without progress, or None
    halted,     \* halted_below_watermark
    cooled,     \* no revert within REVERT_COOLDOWN
    reverting,  \* a revert between its reads and its write, or None
    raced,      \* history: a block landed or left inside a revert
    snap,       \* the snapshot download, or None
    spent       \* forks, losses and drops so far

vars == <<net, chain, certs, watermark, connected, wire, tips, failures,
          recovering, stuck, halted, cooled, reverting, raced, snap, spent>>

ledger == <<chain, certs, watermark>>
client == <<tips, failures, recovering, stuck>>

tip == Len(chain)

Canon(h) == [i \in 1 .. h |-> "c"]

OnCanon(ch) == \A i \in 1 .. Len(ch) : ch[i] = "c"

\* stage_watermark_advance: over certified heights whose block is the one held.
Advance(w, ch, cs) ==
    Max({w} \cup {h \in w + 1 .. Len(ch) : \A i \in w + 1 .. h : i \in cs /\ ch[i] = "c"})

Kinds == {"Status", "Blocks", "Certificates", "Certificate", "Hashes", "Manifest", "Chunk"}

Request(p, kind, at) == [peer |-> p, kind |-> kind, at |-> at]

Pages(from) == [step |-> "BackfillingCertificates", height |-> from]
Single(h)   == [step |-> "BackfillingCertificate", height |-> h]
Awaiting(h) == [step |-> "AwaitingCertificate", height |-> h]
Hashes      == [step |-> "AwaitingHashes", height |-> 0]

awaited_certificate_height(step) ==
    IF step # None /\ step.step \in {"BackfillingCertificate", "AwaitingCertificate"}
    THEN step.height ELSE None

--------------------------------------------------------------------------------
(* Serving *)

blocks_page_end(from, w, top) == IF w = 0 \/ from > w THEN top ELSE w

Page(from, to) == [from |-> from, to |-> Min({to, from + MAX_PAGE_SIZE - 1})]

\* What a peer answers, read as the answer arrives: peers only move forward, and
\* an answer on its way is one of a slower peer.  A page that ends before it starts is empty.
build_sync_response(p, kind, at) ==
    CASE kind = "Status"       -> net[p].tip
      [] kind = "Blocks"       -> Page(at, blocks_page_end(at, net[p].cert, net[p].tip))
      [] kind = "Certificates" -> Page(at, net[p].cert)
      [] kind = "Certificate"  -> at <= net[p].cert
      [] kind = "Hashes"       -> net[p].tip
      [] kind = "Manifest"     -> p \in Servers /\ Anchor <= net[p].cert
      [] kind = "Chunk"        -> p \in Servers /\ Anchor <= net[p].cert

Reply(m) == build_sync_response(m.peer, m.kind, m.at)

PeerCommits(p) ==
    /\ net[p].tip < MaxTip
    /\ net[p].cert = net[p].tip
    /\ net' = [net EXCEPT ![p].tip = @ + 1]
    /\ UNCHANGED <<ledger, connected, wire, client, halted, cooled, reverting, raced, snap, spent>>

PeerCertifies(p) ==
    /\ net[p].cert < net[p].tip
    /\ net' = [net EXCEPT ![p].cert = @ + 1]
    /\ UNCHANGED <<ledger, connected, wire, client, halted, cooled, reverting, raced, snap, spent>>

--------------------------------------------------------------------------------
(* The swarm loop: one event at a time, a revert included *)

Idle == reverting = None

\* Mutant of Walking: the tip itself is never asked about.
WalkingMutant(p) == recovering[p] = None /\ ~ halted /\ watermark + 1 < tip

Walking(p) == recovering[p] = None /\ ~ halted /\ watermark < tip

\* The status tick: every peer not given up on is asked for its tip, and for
\* certificates where blocks lack them.
StatusTick ==
    LET live == {p \in connected : failures[p] < MAX_CONSECUTIVE_SYNC_FAILURES}
        walking == {p \in live : Walking(p)}
    IN  /\ Idle
        /\ Cardinality(wire) <= MaxWire
        /\ wire' = wire \cup {Request(p, "Status", 0) : p \in live}
                        \cup {Request(p, "Certificates", watermark + 1) : p \in walking}
        /\ recovering' = [p \in Peers |-> IF p \in walking THEN Pages(watermark + 1)
                                          ELSE recovering[p]]
        /\ UNCHANGED <<net, ledger, connected, tips, failures, stuck, halted,
                       cooled, reverting, raced, snap, spent>>

ConnectionEstablished(p) ==
    /\ Idle
    /\ p \notin connected
    /\ connected' = connected \cup {p}
    /\ failures' = [failures EXCEPT ![p] = 0]
    /\ wire' = wire \cup {Request(p, "Status", 0)}
    /\ UNCHANGED <<net, ledger, tips, recovering, stuck, halted, cooled, reverting, raced,
                   snap, spent>>

ConnectionClosed(p) ==
    /\ Idle
    /\ p \in connected
    /\ spent.drops < MaxDrops
    /\ spent' = [spent EXCEPT !.drops = @ + 1]
    /\ connected' = connected \ {p}
    /\ tips' = [tips EXCEPT ![p] = None]
    /\ UNCHANGED <<net, ledger, wire, failures, recovering, stuck, halted, cooled, reverting,
                   raced, snap>>

\* A request that got no answer; one the peer cannot speak gives up at once.
\* Only a lost page closes the conversation it belonged to.
OutboundFailure(m) ==
    LET p == m.peer
    IN  /\ Idle
        /\ m \in wire
        /\ p \notin connected \/ spent.losses < MaxLosses
        /\ spent' = [spent EXCEPT !.losses = Min({@ + 1, MaxLosses})]
        /\ wire' = wire \ {m}
        /\ recovering' = [recovering EXCEPT ![p] =
                IF @ # None /\ @.step = "BackfillingCertificates" THEN None ELSE @]
        /\ \E n \in {failures[p] + 1, MAX_CONSECUTIVE_SYNC_FAILURES} :
                failures' = [failures EXCEPT ![p] = Min({n, MAX_CONSECUTIVE_SYNC_FAILURES})]
        /\ UNCHANGED <<net, ledger, connected, tips, stuck, halted, cooled,
                       reverting, raced, snap>>

\* A response, whatever it says, clears the peer's failures.
Received(m, kind) == Idle /\ m \in wire /\ m.peer \in connected /\ m.kind = kind /\ snap = None

on_status(m) ==
    LET p == m.peer
    IN  /\ Received(m, "Status")
        /\ tips' = [tips EXCEPT ![p] = Reply(m)]
        /\ wire' = (wire \ {m}) \cup
                   IF Reply(m) > tip THEN {Request(p, "Blocks", tip + 1)} ELSE {}
        /\ failures' = [failures EXCEPT ![p] = 0]
        /\ UNCHANGED <<net, ledger, connected, recovering, stuck, halted, cooled,
                       reverting, raced, snap, spent>>

advance_stuck_tip(at) ==
    IF stuck # None /\ stuck.height = at THEN [stuck EXCEPT !.rounds = @ + 1]
    ELSE [height |-> at, rounds |-> 0]

is_stale_page(first, before, after) == first <= before /\ after = before

Ahead(p, h) == tips[p] # None /\ tips[p] > h

\* A page whose blocks do not extend what this node holds moves nothing.
Landed(page) ==
    IF OnCanon(chain) /\ page.from <= tip + 1 /\ page.to > tip THEN Canon(page.to) ELSE chain

\* What follows a page that was not stale: the next one, or, once the tip has
\* been stuck for too many rounds, giving up on the peer and, the first time,
\* asking where the two chains part.
AfterPage(p, now, rest, at) ==
    LET full  == at.rounds >= MAX_CONSECUTIVE_SYNC_FAILURES
        asked == at.rounds = MAX_CONSECUTIVE_SYNC_FAILURES /\ ~ halted
    IN  /\ stuck' = [at EXCEPT !.rounds = Min({@, MAX_CONSECUTIVE_SYNC_FAILURES + 1})]
        /\ failures' = [failures EXCEPT ![p] =
                            IF full THEN MAX_CONSECUTIVE_SYNC_FAILURES ELSE 0]
        /\ recovering' = [recovering EXCEPT ![p] = IF asked THEN Hashes ELSE @]
        /\ wire' = rest \cup (IF asked THEN {Request(p, "Hashes", watermark')} ELSE {})
                        \cup (IF ~ full /\ Ahead(p, now) THEN {Request(p, "Blocks", now + 1)}
                              ELSE {})

on_blocks(m) ==
    LET p == m.peer
        page == Reply(m)
        after == Landed(page)
    IN  /\ Received(m, "Blocks")
        /\ IF page.to < page.from
           THEN /\ failures' = [failures EXCEPT ![p] = 0]
                /\ wire' = wire \ {m}
                /\ UNCHANGED <<ledger, recovering, stuck>>
           ELSE /\ chain' = after
                /\ watermark' = IF after = chain THEN watermark
                                ELSE Advance(watermark, Canon(Len(after) - 1), certs)
                /\ IF is_stale_page(page.from, tip, Len(after))
                   THEN /\ wire' = wire \ {m}
                        /\ failures' = [failures EXCEPT ![p] = 0]
                        /\ UNCHANGED <<recovering, stuck>>
                   ELSE AfterPage(p, Len(after), wire \ {m}, advance_stuck_tip(Len(after)))
                /\ UNCHANGED certs
        /\ UNCHANGED <<net, connected, tips, halted, cooled, reverting, raced, snap, spent>>

first_divergent_height(from, to) ==
    LET apart == {h \in from .. Min({to, tip}) : h > 0 /\ chain[h] # "c"}
    IN  IF apart = {} THEN None ELSE Min(apart)

on_hashes(m) ==
    LET p == m.peer
        divergent == first_divergent_height(m.at, Reply(m))
        ask == recovering[p] = Hashes /\ divergent # None
    IN  /\ Received(m, "Hashes")
        /\ recovering' = [recovering EXCEPT ![p] = IF ask THEN Awaiting(divergent) ELSE None]
        /\ wire' = (wire \ {m}) \cup
                   IF ask THEN {Request(p, "Certificate", divergent)} ELSE {}
        /\ failures' = [failures EXCEPT ![p] = 0]
        /\ UNCHANGED <<net, ledger, connected, tips, stuck, halted, cooled, reverting,
                       raced, snap, spent>>

\* The walk goes on while there is still a gap.
KeepWalking(p, rest) ==
    IF watermark' < tip
    THEN /\ recovering' = [recovering EXCEPT ![p] = Pages(watermark' + 1)]
         /\ wire' = rest \cup {Request(p, "Certificates", watermark' + 1)}
    ELSE /\ recovering' = [recovering EXCEPT ![p] = None]
         /\ wire' = rest

\* A page of certificates: those that name the blocks held are stored in one
\* batch, the first that does not goes to the single-height path.
on_certificates(m) ==
    LET p == m.peer
        from == m.at
        apart == {h \in from .. Min({Reply(m).to, tip}) : chain[h] # "c"}
        last == IF apart = {} THEN Min({Reply(m).to, tip}) ELSE Min(apart) - 1
    IN  /\ Received(m, "Certificates")
        /\ failures' = [failures EXCEPT ![p] = 0]
        /\ IF recovering[p] # Pages(from)
           THEN wire' = wire \ {m} /\ UNCHANGED <<certs, watermark, recovering>>
           ELSE /\ certs' = certs \cup (from .. last)
                /\ watermark' = Advance(watermark, chain, certs')
                /\ IF apart # {}
                   THEN /\ recovering' = [recovering EXCEPT ![p] = Single(Min(apart))]
                        /\ wire' = (wire \ {m}) \cup {Request(p, "Certificate", Min(apart))}
                   ELSE IF last >= from THEN KeepWalking(p, wire \ {m})
                   ELSE /\ recovering' = [recovering EXCEPT ![p] = None]
                        /\ wire' = wire \ {m}
        /\ UNCHANGED <<net, chain, connected, tips, stuck, halted, cooled, reverting,
                       raced, snap, spent>>

\* Mutant of plan: the floor is one height too high.
planMutant(divergent, w) == IF divergent - 1 > w THEN "RevertTo" ELSE "HaltBelowWatermark"

plan(divergent, w) == IF divergent - 1 >= w THEN "RevertTo" ELSE "HaltBelowWatermark"

\* Mutant of Contradicted: the block held is not looked up again when the
\* certificate arrives.
ContradictedMutant(h) == TRUE

\* The certified block is not the one held now, or none is held.
Contradicted(h) == h > tip \/ chain[h] # "c"

\* A certificate that contradicts the block held: a halt, a revert, or nothing
\* while the last revert is recent.
Contradiction(p, h, rest) ==
    /\ recovering' = [recovering EXCEPT ![p] = None]
    /\ wire' = rest
    /\ UNCHANGED <<certs, watermark>>
    /\ IF plan(h, watermark) = "HaltBelowWatermark"
       THEN halted' = TRUE /\ UNCHANGED <<cooled, reverting>>
       ELSE /\ reverting' = IF cooled THEN [peer |-> p, target |-> h - 1, seen |-> chain] ELSE None
            /\ cooled' = FALSE
            /\ UNCHANGED halted

on_certificate(m) ==
    LET p == m.peer
        h == m.at
    IN  /\ Received(m, "Certificate")
        /\ failures' = [failures EXCEPT ![p] = 0]
        /\ IF awaited_certificate_height(recovering[p]) # h \/ ~ Reply(m)
           THEN /\ recovering' = [recovering EXCEPT ![p] = None]
                /\ wire' = wire \ {m}
                /\ UNCHANGED <<certs, watermark, halted, cooled, reverting>>
           ELSE IF Contradicted(h) THEN Contradiction(p, h, wire \ {m})
           ELSE /\ certs' = certs \cup {h}
                /\ watermark' = Advance(watermark, chain, certs')
                /\ KeepWalking(p, wire \ {m})
                /\ UNCHANGED <<halted, cooled, reverting>>
        /\ UNCHANGED <<net, chain, connected, tips, stuck, raced, snap, spent>>

\* revert_to's batch, staged from what was read when the revert began.
revert_to ==
    /\ reverting # None
    /\ reverting' = None
    /\ chain' = IF reverting.target < Len(reverting.seen)
                THEN SubSeq(reverting.seen, 1, reverting.target) ELSE chain
    /\ raced' = (raced \/ reverting.seen # chain)
    /\ wire' = wire \cup {Request(reverting.peer, "Blocks", reverting.target + 1)}
    /\ UNCHANGED <<net, certs, watermark, connected, client, halted, cooled, snap, spent>>

CooldownExpires ==
    /\ ~ cooled
    /\ cooled' = TRUE
    /\ UNCHANGED <<net, ledger, connected, wire, client, halted, reverting, raced, snap, spent>>

--------------------------------------------------------------------------------
(* Snapshot download: while it runs, responses go nowhere else *)

Download(m, kind) == Idle /\ m \in wire /\ m.peer \in connected /\ snap # None /\ m.kind = kind

FreshDownload(tried) == [peer |-> None, manifest |-> FALSE, chunks |-> {}, tried |-> tried]

Downloaded(m) ==
    /\ failures' = [failures EXCEPT ![m.peer] = 0]
    /\ UNCHANGED <<net, connected, tips, recovering, stuck, halted, cooled, reverting,
                   raced, spent>>

on_peer_tip(m) ==
    LET ask == snap.peer = None /\ Reply(m) >= Anchor /\ m.peer \notin snap.tried
    IN  /\ Download(m, "Status")
        /\ snap' = IF ask THEN [snap EXCEPT !.peer = m.peer, !.tried = @ \cup {m.peer}] ELSE snap
        /\ wire' = (wire \ {m}) \cup IF ask THEN {Request(m.peer, "Manifest", 0)} ELSE {}
        /\ UNCHANGED ledger
        /\ Downloaded(m)

on_manifest(m) ==
    /\ Download(m, "Manifest")
    /\ snap' = IF snap.peer # m.peer THEN snap
               ELSE IF Reply(m) THEN [snap EXCEPT !.manifest = TRUE]
               ELSE FreshDownload(snap.tried)
    /\ wire' = (wire \ {m}) \cup
               IF snap.peer = m.peer /\ Reply(m) THEN {Request(m.peer, "Chunk", 0)} ELSE {}
    /\ UNCHANGED ledger
    /\ Downloaded(m)

\* The last chunk: the certificate is checked against the state downloaded and
\* the whole is imported, by a node still at genesis.
on_chunk(m) ==
    LET ours == snap.peer = m.peer /\ snap.manifest
        got == snap.chunks \cup {m.at}
        missing == (0 .. Chunks - 1) \ got
        ask == IF missing = {} THEN {} ELSE {Request(m.peer, "Chunk", Min(missing))}
    IN  /\ Download(m, "Chunk")
        /\ IF ~ ours THEN snap' = snap /\ wire' = wire \ {m} /\ UNCHANGED ledger
           ELSE IF ~ Reply(m) \/ (missing = {} /\ tip > 0)
           THEN snap' = FreshDownload(snap.tried) /\ wire' = wire \ {m} /\ UNCHANGED ledger
           ELSE IF missing # {}
           THEN /\ snap' = [snap EXCEPT !.chunks = got]
                /\ wire' = (wire \ {m}) \cup ask
                /\ UNCHANGED ledger
           ELSE /\ snap' = None
                /\ wire' = (wire \ {m}) \cup {Request(m.peer, "Blocks", Anchor + 1)}
                /\ chain' = Canon(Anchor)
                /\ certs' = {Anchor}
                /\ watermark' = Anchor
        /\ Downloaded(m)

\* Any other response is dropped; so is one for a download that has ended.
Dropped(m) ==
    /\ Idle
    /\ m \in wire
    /\ m.peer \in connected
    /\ IF snap = None THEN m.kind \in {"Manifest", "Chunk"}
       ELSE m.kind \notin {"Status", "Manifest", "Chunk"}
    /\ wire' = wire \ {m}
    /\ UNCHANGED <<ledger, snap>>
    /\ Downloaded(m)

--------------------------------------------------------------------------------
(* The node's other threads, and gossip *)

Land(b) ==
    /\ tip < MaxTip
    /\ ~ halted
    /\ chain' = Append(chain, b)
    /\ watermark' = Advance(watermark, chain, certs)
    /\ UNCHANGED <<net, certs, connected, wire, client, halted, cooled, reverting, raced, snap>>

\* The network's next block, from gossip.
GossipedBlock ==
    /\ Idle
    /\ OnCanon(chain)
    /\ \E p \in connected : net[p].tip > tip
    /\ Land("c")
    /\ UNCHANGED spent

\* A block the network does not certify: on a certified tip, where no
\* certificate names another.  The producer runs beside the swarm loop.
ForkBlock ==
    /\ OnCanon(chain)
    /\ watermark = tip
    /\ tip + 1 \notin certs
    /\ spent.forks < MaxForks
    /\ spent' = [spent EXCEPT !.forks = @ + 1]
    /\ Land("x")

\* The finality thread tallied live votes: the certificate is stored, and a tip
\* it contradicts unwound (enforce_certificate).
FinalityCertificate(h) ==
    /\ h \in tip .. tip + 1
    /\ h > watermark
    /\ h \notin certs
    /\ \E p \in connected : h <= net[p].cert
    /\ certs' = certs \cup {h}
    /\ chain' = IF h = tip /\ chain[h] # "c" THEN SubSeq(chain, 1, h - 1) ELSE chain
    /\ watermark' = Advance(watermark, chain, certs')
    /\ UNCHANGED <<net, connected, wire, client, halted, cooled, reverting, raced, snap, spent>>

\* The round of the tip timed out (unwind_dead_tip).
UnwindDeadTip ==
    /\ tip > 0
    /\ chain[tip] = "x"
    /\ chain' = SubSeq(chain, 1, tip - 1)
    /\ UNCHANGED <<net, certs, watermark, connected, wire, client, halted, cooled, reverting,
                   raced, snap, spent>>

--------------------------------------------------------------------------------
Init ==
    /\ net = [p \in Peers |-> [tip |-> MaxTip - 1, cert |-> MaxTip - 2]]
    /\ chain = <<>> /\ certs = {} /\ watermark = 0
    /\ connected = Peers
    /\ wire = {}
    /\ tips = [p \in Peers |-> None]
    /\ failures = [p \in Peers |-> 0]
    /\ recovering = [p \in Peers |-> None]
    /\ stuck = None
    /\ halted = FALSE /\ cooled = TRUE /\ reverting = None /\ raced = FALSE
    /\ snap \in {None} \cup (IF Anchor = 0 THEN {} ELSE {FreshDownload({})})
    /\ spent = [forks |-> 0, losses |-> 0, drops |-> 0]

Deliver(m) ==
    \/ on_status(m) \/ on_blocks(m) \/ on_hashes(m)
    \/ on_certificates(m) \/ on_certificate(m)
    \/ on_peer_tip(m) \/ on_manifest(m) \/ on_chunk(m)
    \/ Dropped(m)

Next ==
    \/ StatusTick \/ revert_to \/ CooldownExpires
    \/ \E m \in wire : Deliver(m) \/ OutboundFailure(m)
    \/ \E p \in Peers : \/ ConnectionEstablished(p) \/ ConnectionClosed(p)
                        \/ PeerCommits(p) \/ PeerCertifies(p)
    \/ GossipedBlock \/ ForkBlock \/ UnwindDeadTip
    \/ \E h \in 1 .. MaxTip : FinalityCertificate(h)

\* The loop keeps polling, the tick is an interval, libp2p answers or fails every
\* request.  Nothing is assumed of gossip, votes or reconnection.
Fairness ==
    /\ WF_vars(StatusTick) /\ WF_vars(revert_to) /\ WF_vars(CooldownExpires)
    /\ \A p \in Peers, k \in Kinds :
        WF_vars(\E m \in wire : m.peer = p /\ m.kind = k /\ Deliver(m))
    /\ WF_vars(\E m \in wire : m.peer \notin connected /\ OutboundFailure(m))

Spec == Init /\ [][Next]_vars /\ Fairness

--------------------------------------------------------------------------------
\* A node never abandons what the network certified: when blocks leave the chain,
\* the lowest of them is one the network does not certify, and the node stays at
\* or above its watermark, whatever landed between a peer's answer and the
\* request it was for.  The revert of the swarm loop takes no chain_lock: one
\* during which another thread moved the chain is left out.
RevertsOnlyTheUncertified ==
    [][Len(chain') < Len(chain) /\ ~ raced' =>
            Len(chain') >= watermark /\ chain[Len(chain') + 1] = "x"]_vars

\* A node whose peers are honest never halts: no late, repeated or crossed answer
\* makes it take its own lag, or a block it holds no longer, for a certificate
\* against its finalized history (plan, on_certificate).
NeverHaltsOnHonestPeers == halted => raced

\* What the two rest on.  Requests name heights, those for certificates never
\* genesis; a revert under way starts at a block the network does not certify; and
\* unless a revert was overtaken, all the watermark covers is held and certified.
Sent(m) ==
    /\ m.peer \in Peers
    /\ m.kind \in {"Blocks", "Hashes"} => m.at \in Nat
    /\ m.kind \in {"Certificates", "Certificate"} => m.at \in Nat \ {0}

Planned(r) ==
    /\ r.peer \in Peers
    /\ r.target \in Nat
    /\ r.seen \in Seq({"c", "x"})
    /\ r.target < Len(r.seen) => r.seen[r.target + 1] = "x"

Covered(w, ch) == w <= Len(ch) /\ \A i \in 1 .. w : ch[i] = "c"

SyncInv ==
    /\ chain \in Seq({"c", "x"})
    /\ watermark \in Nat
    /\ net \in [Peers -> [tip : Nat, cert : Nat]]
    /\ connected \subseteq Peers
    /\ \A m \in wire : Sent(m)
    /\ reverting = None \/ Planned(reverting)
    /\ ~ raced => Covered(watermark, chain)
    /\ halted => raced

\* Nothing is on its way that would close the conversation with p: the request
\* was lost, and the next tick does not open another.
HeldOpen(p) ==
    recovering[p] # None /\ \A m \in wire : m.peer = p =>
        m.kind \notin {"Hashes", "Certificate", "Certificates"}

GivenUp(p) == failures[p] = MAX_CONSECUTIVE_SYNC_FAILURES \/ HeldOpen(p)

\* The download waits on an answer that was lost, or has tried every peer.
DownloadHeld ==
    snap # None /\ \/ snap.peer # None /\ \A m \in wire : m.kind \notin {"Manifest", "Chunk"}
                   \/ snap.peer = None /\ Peers \subseteq snap.tried

\* A node that lags catches up, blocks and watermark both, with every connected
\* peer it has not given up on: whatever it held, whichever pages crossed and
\* whatever was lost, in the end its watermark is the certified height of the
\* peer, or the conversation is held open by a lost answer.
CatchesUp ==
    <>[](raced \/ DownloadHeld \/ \A p \in connected : watermark >= net[p].cert \/ GivenUp(p))
=============================================================================
