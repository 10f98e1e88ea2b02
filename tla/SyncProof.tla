----------------------------- MODULE SyncProof -----------------------------
(***************************************************************************)
(* Proofs that a node whose peers are honest never halts and never reverts *)
(* a certified block, for any number of peers, heights, forks, losses and  *)
(* pages (arxd/network).                                                   *)
(***************************************************************************)
EXTENDS Sync, SetFacts

Blocks == {"c", "x"}

-----------------------------------------------------------------------------
(* The operators of the model *)

LEMMA MaxIsLargest ==
    ASSUME NEW S \in SUBSET Nat, S # {}, NEW n \in Nat, \A s \in S : s <= n
    PROVE  Max(S) \in S /\ \A s \in S : s <= Max(S)
  <1>1. PICK m \in S : \A s \in S : s <= m
    BY LargestElement, Zenon
  <1>2. \A s \in S : m >= s
    BY <1>1
  <1> QED  BY <1>2, Zenon DEF Max

LEMMA MinOfTwo ==
    ASSUME NEW a \in Nat, NEW b \in Nat
    PROVE  Min({a, b}) \in Nat /\ Min({a, b}) <= a /\ Min({a, b}) <= b
  <1>1. \E x \in {a, b} : \A y \in {a, b} : x <= y
    <2>1. a <= b \/ b <= a
      OBVIOUS
    <2> QED  BY <2>1
  <1>2. Min({a, b}) \in {a, b} /\ \A y \in {a, b} : Min({a, b}) <= y
    BY <1>1 DEF Min
  <1> QED  BY <1>2

\* The least member of a set of naturals is one.
LEMMA MinIsMember ==
    ASSUME NEW S \in SUBSET Nat, S # {}
    PROVE  Min(S) \in S
  <1>1. PICK x \in S : \A y \in S : x <= y
    <2>1. IsWellFoundedOn(OpToRel(<, Nat), Nat)
      BY NatLessThanWellFounded, Zenon
    <2>2. PICK x \in S : \A y \in S : ~(<<y, x>> \in OpToRel(<, Nat))
      BY <2>1, WFMin, Zenon
    <2>3. \A y \in S : ~(y < x)
      BY <2>2, Zenon DEF OpToRel
    <2> QED  BY <2>3
  <1> QED  BY <1>1, Zenon DEF Min

\* The canonical chain of h blocks.
LEMMA CanonIsAChain ==
    ASSUME NEW h \in Nat
    PROVE  Canon(h) \in Seq(Blocks) /\ Len(Canon(h)) = h
           /\ \A i \in 1 .. h : Canon(h)[i] = "c"
  BY DEF Canon, Blocks

\* stage_watermark_advance passes only over blocks the network certifies.
LEMMA AdvanceIsCovered ==
    ASSUME NEW w \in Nat, NEW ch \in Seq(Blocks), NEW cs
    PROVE  /\ Advance(w, ch, cs) \in Nat
           /\ Advance(w, ch, cs) >= w
           /\ Covered(w, ch) => Covered(Advance(w, ch, cs), ch)
  <1> DEFINE above == {h \in w + 1 .. Len(ch) : \A i \in w + 1 .. h : i \in cs /\ ch[i] = "c"}
             S == {w} \cup above
  <1>0. Len(ch) \in Nat
    OBVIOUS
  <1>1. S \in SUBSET Nat /\ S # {} /\ w + Len(ch) \in Nat /\ \A s \in S : s <= w + Len(ch)
    BY <1>0
  <1>2. PICK r : r = Max(S)
    BY Zenon
  <1>3. r \in S /\ \A s \in S : s <= r
    <2> HIDE DEF S
    <2> QED  BY <1>1, <1>2, MaxIsLargest, Zenon
  <1>4. Advance(w, ch, cs) = r
    BY <1>2 DEF Advance
  <1>5. r \in Nat /\ r >= w
    BY <1>1, <1>3
  <1>6. ASSUME Covered(w, ch) PROVE Covered(r, ch)
    <2>1. CASE r = w
      BY <1>6, <2>1
    <2>2. CASE r \in above
      <3>1. r <= Len(ch)
        BY <1>0, <2>2
      <3>2. ASSUME NEW i \in 1 .. r PROVE ch[i] = "c"
        <4>1. CASE i <= w
          BY <1>6, <4>1 DEF Covered
        <4>2. CASE ~(i <= w)
          BY <2>2, <4>2
        <4> QED  BY <4>1, <4>2
      <3> QED  BY <3>1, <3>2 DEF Covered
    <2> QED  BY <1>3, <2>1, <2>2
  <1> QED  BY <1>4, <1>5, <1>6

\* What is covered stays covered when the chain is cut at or above the watermark.
LEMMA CutIsCovered ==
    ASSUME NEW w \in Nat, NEW ch \in Seq(Blocks), NEW n \in Nat, n <= Len(ch)
    PROVE  /\ SubSeq(ch, 1, n) \in Seq(Blocks)
           /\ Len(SubSeq(ch, 1, n)) = n
           /\ Covered(w, ch) /\ w <= n => Covered(w, SubSeq(ch, 1, n))
  <1>1. SubSeq(ch, 1, n) \in Seq(Blocks) /\ Len(SubSeq(ch, 1, n)) = n
    OBVIOUS
  <1>2. \A i \in 1 .. n : SubSeq(ch, 1, n)[i] = ch[i]
    OBVIOUS
  <1> QED  BY <1>1, <1>2 DEF Covered

\* A covered watermark ends below a block the network does not certify.
LEMMA CoveredIsBelow ==
    ASSUME NEW w \in Nat, NEW ch, Covered(w, ch), NEW h \in Nat \ {0}, ch[h] # "c"
    PROVE  w < h
  BY DEF Covered

LEMMA AppendIsCovered ==
    ASSUME NEW w \in Nat, NEW ch \in Seq(Blocks), NEW b \in Blocks
    PROVE  /\ Append(ch, b) \in Seq(Blocks)
           /\ Len(Append(ch, b)) = Len(ch) + 1
           /\ Covered(w, ch) => Covered(w, Append(ch, b))
  <1>1. Append(ch, b) \in Seq(Blocks) /\ Len(Append(ch, b)) = Len(ch) + 1
    OBVIOUS
  <1>2. \A i \in 1 .. Len(ch) : Append(ch, b)[i] = ch[i]
    OBVIOUS
  <1> QED  BY <1>1, <1>2 DEF Covered

\* Two peers' answers are pages that end at a height.
LEMMA PageEnds ==
    ASSUME NEW from \in Nat, NEW to \in Nat
    PROVE  Page(from, to).from = from /\ Page(from, to).to \in Nat
  <1>1. from + MAX_PAGE_SIZE - 1 \in Nat
    BY SyncAssumption
  <1>2. Min({to, from + MAX_PAGE_SIZE - 1}) \in Nat
    BY <1>1, MinOfTwo
  <1> QED  BY <1>2 DEF Page

-----------------------------------------------------------------------------
(* The steps.  Quiet ones leave the chain and the reverts alone. *)

Quiet ==
    /\ chain' = chain /\ watermark' = watermark
    /\ reverting' = reverting /\ raced' = raced /\ halted' = halted

LEMMA QuietKeeps ==
    ASSUME SyncInv, Quiet, net' \in [Peers -> [tip : Nat, cert : Nat]],
           connected' \subseteq Peers,
           \A m \in wire' : Sent(m)
    PROVE  SyncInv'
  BY DEF SyncInv, Quiet, Sent, Planned, Covered

\* What a swarm handler may change without a revert: blocks and certificates that
\* extend what is covered.
LEMMA SwarmKeeps ==
    ASSUME SyncInv, net' = net, connected' = connected, reverting' = reverting, raced' = raced, halted' = halted,
           \A m \in wire' : Sent(m),
           chain' \in Seq(Blocks), watermark' \in Nat,
           Covered(watermark, chain) => Covered(watermark', chain')
    PROVE  SyncInv'
  BY DEF SyncInv, Sent, Planned, Covered, Blocks

LEMMA RequestsAreSent ==
    ASSUME NEW p \in Peers
    PROVE  /\ Sent(Request(p, "Status", 0))
           /\ Sent(Request(p, "Manifest", 0))
           /\ \A n : Sent(Request(p, "Chunk", n))
           /\ \A n \in Nat : Sent(Request(p, "Blocks", n)) /\ Sent(Request(p, "Hashes", n))
           /\ \A n \in Nat \ {0} : Sent(Request(p, "Certificates", n))
                                   /\ Sent(Request(p, "Certificate", n))
  BY DEF Sent, Request

LEMMA StatusTickKeeps == SyncInv /\ StatusTick => SyncInv'
  <1> SUFFICES ASSUME SyncInv, StatusTick PROVE SyncInv'
    OBVIOUS
  <1>1. Quiet /\ net' = net /\ connected' = connected
    BY DEF StatusTick, Quiet, ledger
  <1>2. watermark + 1 \in Nat \ {0}
    BY DEF SyncInv
  <1>3. \A m \in wire' : m \in wire \/ \E p \in Peers : m = Request(p, "Status", 0)
                                      \/ m = Request(p, "Certificates", watermark + 1)
    BY DEF StatusTick, SyncInv
  <1>4. \A m \in wire' : Sent(m)
    BY <1>2, <1>3, RequestsAreSent DEF SyncInv
  <1> QED  BY <1>1, <1>4, QuietKeeps DEF SyncInv

LEMMA ConnectionsKeep ==
    ASSUME SyncInv, NEW p \in Peers,
           ConnectionEstablished(p) \/ ConnectionClosed(p)
    PROVE  SyncInv'
  <1>1. Quiet /\ net' = net /\ connected' \subseteq Peers
    BY DEF ConnectionEstablished, ConnectionClosed, Quiet, ledger, SyncInv
  <1>2. \A m \in wire' : m \in wire \/ m = Request(p, "Status", 0)
    BY DEF ConnectionEstablished, ConnectionClosed
  <1>3. \A m \in wire' : Sent(m)
    BY <1>2, RequestsAreSent DEF SyncInv
  <1> QED  BY <1>1, <1>3, QuietKeeps DEF SyncInv

LEMMA PeersKeep ==
    ASSUME SyncInv, NEW p \in Peers, PeerCommits(p) \/ PeerCertifies(p)
    PROVE  SyncInv'
  <1>1. Quiet /\ wire' = wire /\ connected' = connected
    BY DEF PeerCommits, PeerCertifies, Quiet, ledger
  <1>2. net' \in [Peers -> [tip : Nat, cert : Nat]]
    BY DEF PeerCommits, PeerCertifies, SyncInv
  <1> QED  BY <1>1, <1>2, QuietKeeps DEF SyncInv

\* Answers and failures that only ask again.
LEMMA AnswersKeep ==
    ASSUME SyncInv, NEW m \in wire,
           on_status(m) \/ on_peer_tip(m) \/ on_manifest(m) \/ Dropped(m) \/ OutboundFailure(m)
    PROVE  SyncInv'
  <1> DEFINE p == m.peer
  <1>0. p \in Peers /\ Len(chain) + 1 \in Nat
    BY DEF SyncInv, Sent
  <1>1. Quiet /\ net' = net /\ connected' = connected
    BY DEF on_status, on_peer_tip, on_manifest, Dropped, OutboundFailure, Downloaded, Received,
           Download, Quiet, ledger
  <1>2. \A k \in wire' : \/ k \in wire
                         \/ k = Request(p, "Blocks", Len(chain) + 1)
                         \/ k = Request(p, "Manifest", 0)
                         \/ k = Request(p, "Chunk", 0)
    BY DEF on_status, on_peer_tip, on_manifest, Dropped, OutboundFailure, tip
  <1>3. \A k \in wire' : Sent(k)
    BY <1>0, <1>2, RequestsAreSent DEF SyncInv
  <1> QED  BY <1>1, <1>3, QuietKeeps DEF SyncInv

LEMMA HashesKeep ==
    ASSUME SyncInv, NEW m \in wire, on_hashes(m)
    PROVE  SyncInv'
  <1> DEFINE p == m.peer
             d == first_divergent_height(m.at, Reply(m))
  <1>0. m.kind = "Hashes" /\ p \in Peers /\ m.at \in Nat
    BY DEF SyncInv, Sent, on_hashes, Received
  <1>1. Quiet /\ net' = net /\ connected' = connected
    BY DEF on_hashes, Quiet, ledger
  <1>2. d # None => d \in Nat \ {0}
    <2> DEFINE apart == {h \in m.at .. Min({Reply(m), tip}) : h > 0 /\ chain[h] # "c"}
    <2>1. apart \in SUBSET (Nat \ {0})
      BY <1>0
    <2>2. apart # {} => Min(apart) \in apart
      <3> HIDE DEF apart
      <3> QED  BY <2>1, MinIsMember
    <2>3. d # None => d = Min(apart) /\ apart # {}
      BY DEF first_divergent_height
    <2> HIDE DEF apart, d
    <2> QED  BY <2>1, <2>2, <2>3, Zenon
  <1>3. \A k \in wire' : k \in wire \/ (d # None /\ k = Request(p, "Certificate", d))
    BY DEF on_hashes
  <1> HIDE DEF d
  <1>4. \A k \in wire' : Sent(k)
    BY <1>0, <1>2, <1>3, RequestsAreSent DEF SyncInv
  <1> QED  BY <1>1, <1>4, QuietKeeps DEF SyncInv

\* A page of blocks: it lands on a chain without an uncertified block, or not at all.
LEMMA BlocksKeep ==
    ASSUME SyncInv, NEW m \in wire, on_blocks(m)
    PROVE  SyncInv' /\ Len(chain') >= Len(chain)
  <1> DEFINE p == m.peer
  <1>0. m.kind = "Blocks" /\ p \in Peers /\ m.at \in Nat /\ chain \in Seq(Blocks)
        /\ Len(chain) \in Nat /\ watermark \in Nat
    BY DEF SyncInv, Sent, on_blocks, Received, Blocks
  <1>1. PICK page : page = Reply(m)
    OBVIOUS
  <1>2. page.to \in Nat
    <2>1. net[p].tip \in Nat /\ net[p].cert \in Nat
      BY <1>0 DEF SyncInv
    <2>2. PICK e \in Nat : e = blocks_page_end(m.at, net[p].cert, net[p].tip)
      BY <2>1 DEF blocks_page_end
    <2>3. page = Page(m.at, e)
      BY <1>0, <1>1, <2>2 DEF Reply, build_sync_response
    <2> QED  BY <1>0, <2>3, PageEnds
  <1>3. PICK after : after = Landed(page)
    OBVIOUS
  <1>4. after = chain \/ (OnCanon(chain) /\ page.to > Len(chain) /\ after = Canon(page.to))
    BY <1>3 DEF Landed, tip
  <1>5. after \in Seq(Blocks) /\ Len(after) \in Nat /\ Len(after) >= Len(chain)
    BY <1>0, <1>2, <1>4, CanonIsAChain, SMTT(30)
  <1>6. net' = net /\ connected' = connected /\ reverting' = reverting /\ raced' = raced
        /\ halted' = halted
    BY DEF on_blocks
  <1>7. \/ chain' = chain /\ watermark' = watermark /\ wire' = wire \ {m}
        \/ /\ chain' = after
           /\ watermark' = IF after = chain THEN watermark
                           ELSE Advance(watermark, Canon(Len(after) - 1), certs)
           /\ \A k \in wire' : \/ k \in wire
                               \/ k = Request(p, "Blocks", Len(after) + 1)
                               \/ k = Request(p, "Hashes", watermark')
    BY <1>1, <1>3 DEF on_blocks, AfterPage, ledger
  <1>8. watermark' \in Nat /\ (Covered(watermark, chain) => Covered(watermark', chain'))
    <2>1. CASE chain' = chain /\ watermark' = watermark
      BY <1>0, <2>1
    <2>2. CASE chain' = after /\ after # chain
               /\ watermark' = Advance(watermark, Canon(Len(after) - 1), certs)
      <3>1. after = Canon(page.to) /\ page.to > Len(chain) /\ Len(after) = page.to
        BY <1>2, <1>4, <2>2, CanonIsAChain
      <3>2. PICK n \in Nat : n = page.to - 1
        BY <1>0, <1>2, <3>1
      <3>3. Canon(n) \in Seq(Blocks) /\ Len(Canon(n)) = n /\ \A i \in 1 .. n : Canon(n)[i] = "c"
        BY CanonIsAChain
      <3>4. watermark' = Advance(watermark, Canon(n), certs)
        BY <2>2, <3>1, <3>2
      <3>5. /\ watermark' \in Nat
            /\ Covered(watermark, Canon(n)) => Covered(watermark', Canon(n))
        BY <1>0, <3>3, <3>4, AdvanceIsCovered
      <3>6. Covered(watermark, chain) => Covered(watermark, Canon(n))
        BY <1>0, <1>2, <3>1, <3>2, <3>3 DEF Covered
      <3>7. Covered(watermark', Canon(n)) => Covered(watermark', after)
        <4>1. PICK w \in Nat : w = watermark'
          BY <3>5
        <4>2. \A i \in 1 .. page.to : after[i] = "c"
          BY <1>2, <3>1, CanonIsAChain, SMTT(30)
        <4>3. w <= n => Covered(w, after)
          BY <1>2, <3>1, <3>2, <4>2 DEF Covered
        <4>4. Covered(w, Canon(n)) => w <= n
          BY <3>3 DEF Covered
        <4> QED  BY <4>1, <4>3, <4>4
      <3> QED  BY <2>2, <3>5, <3>6, <3>7
    <2> QED  BY <1>7, <2>1, <2>2
  <1>9. \A k \in wire' : Sent(k)
    <2>1. Len(after) + 1 \in Nat
      BY <1>5
    <2> QED  BY <1>0, <1>7, <1>8, <2>1, RequestsAreSent DEF SyncInv
  <1>10. chain' \in Seq(Blocks) /\ Len(chain') >= Len(chain)
    BY <1>0, <1>5, <1>7
  <1> QED  BY <1>6, <1>8, <1>9, <1>10, SwarmKeeps

\* The walk asks for a page, or ends.
LEMMA WalkIsSent ==
    ASSUME NEW p \in Peers, NEW rest, KeepWalking(p, rest), \A k \in rest : Sent(k),
           watermark' \in Nat
    PROVE  \A k \in wire' : Sent(k)
  <1>0. PICK w \in Nat : w = watermark'
    OBVIOUS
  <1>1. w + 1 \in Nat \ {0}
    OBVIOUS
  <1>2. \A k \in wire' : k \in rest \/ k = Request(p, "Certificates", w + 1)
    BY <1>0 DEF KeepWalking
  <1> QED  BY <1>1, <1>2, RequestsAreSent

LEMMA CertificatesKeep ==
    ASSUME SyncInv, NEW m \in wire, on_certificates(m)
    PROVE  SyncInv' /\ chain' = chain
  <1> DEFINE p == m.peer
             apart == {h \in m.at .. Min({Reply(m).to, tip}) : chain[h] # "c"}
  <1>0. m.kind = "Certificates" /\ p \in Peers /\ m.at \in Nat \ {0} /\ chain \in Seq(Blocks)
        /\ watermark \in Nat
    BY DEF SyncInv, Sent, on_certificates, Received, Blocks
  <1>1. net' = net /\ connected' = connected /\ reverting' = reverting /\ raced' = raced
        /\ halted' = halted /\ chain' = chain
    BY DEF on_certificates
  <1>2. watermark' = watermark \/ watermark' = Advance(watermark, chain, certs')
    BY DEF on_certificates
  <1>3. watermark' \in Nat /\ (Covered(watermark, chain) => Covered(watermark', chain))
    BY <1>0, <1>2, AdvanceIsCovered
  <1>4. apart # {} => Min(apart) \in Nat \ {0}
    <2>1. apart \in SUBSET (Nat \ {0})
      BY <1>0
    <2> HIDE DEF apart
    <2>2. apart # {} => Min(apart) \in apart
      BY <2>1, MinIsMember
    <2> QED  BY <2>1, <2>2, Zenon
  <1>5. \/ wire' = wire \ {m}
        \/ apart # {} /\ wire' = (wire \ {m}) \cup {Request(p, "Certificate", Min(apart))}
        \/ KeepWalking(p, wire \ {m})
    BY Zenon DEF on_certificates
  <1> HIDE DEF apart
  <1>6. \A k \in wire' : Sent(k)
    <2>0. \A k \in wire \ {m} : Sent(k)
      BY DEF SyncInv
    <2>1. CASE wire' = wire \ {m}
      BY <2>0, <2>1
    <2>2. CASE apart # {} /\ wire' = (wire \ {m}) \cup {Request(p, "Certificate", Min(apart))}
      BY <1>0, <1>4, <2>0, <2>2, RequestsAreSent
    <2>3. CASE KeepWalking(p, wire \ {m})
      <3> HIDE DEF p
      <3> QED  BY <1>0, <1>3, <2>0, <2>3, WalkIsSent
    <2> QED  BY <1>5, <2>1, <2>2, <2>3
  <1> QED  BY <1>0, <1>1, <1>3, <1>6, SwarmKeeps, SMTT(30)

\* A certificate: what it contradicts lies above the watermark, so it never halts
\* the node, and the revert it starts begins at the block it contradicts.
LEMMA CertificateKeeps ==
    ASSUME SyncInv, NEW m \in wire, on_certificate(m)
    PROVE  SyncInv' /\ chain' = chain
  <1> DEFINE p == m.peer
             h == m.at
  <1>0. m.kind = "Certificate" /\ p \in Peers /\ h \in Nat \ {0} /\ chain \in Seq(Blocks)
        /\ watermark \in Nat /\ Len(chain) \in Nat /\ reverting = None
    BY DEF SyncInv, Sent, on_certificate, Received, Blocks, Idle
  <1>1. net' = net /\ connected' = connected /\ raced' = raced /\ chain' = chain
    BY DEF on_certificate
  <1>2. \A k \in wire \ {m} : Sent(k)
    BY DEF SyncInv
  <1>3. CASE wire' = wire \ {m} /\ watermark' = watermark /\ halted' = halted
             /\ reverting' = reverting
    BY <1>0, <1>1, <1>2, <1>3, SwarmKeeps
  <1>4. CASE Contradicted(h) /\ Contradiction(p, h, wire \ {m})
    <2>1. wire' = wire \ {m} /\ watermark' = watermark
      BY <1>4 DEF Contradiction
    <2>2. CASE plan(h, watermark) = "HaltBelowWatermark"
      <3>1. h <= watermark
        BY <1>0, <2>2 DEF plan
      <3>2. ~ Covered(watermark, chain)
        BY <1>0, <1>4, <3>1, SMTT(30) DEF Covered, Contradicted, tip
      <3>3. raced /\ reverting' = reverting
        BY <1>4, <2>2, <3>2, SMTT(30) DEF SyncInv, Contradiction
      <3> QED  BY <1>1, <1>2, <2>1, <3>3 DEF SyncInv, Sent, Planned, Covered
    <2>3. CASE plan(h, watermark) # "HaltBelowWatermark"
      <3>1. /\ reverting' = None \/ reverting' = [peer |-> p, target |-> h - 1, seen |-> chain]
            /\ halted' = halted
        BY <1>4, <2>3 DEF Contradiction
      <3>2. Planned([peer |-> p, target |-> h - 1, seen |-> chain])
        <4>1. h - 1 \in Nat /\ (h - 1) + 1 = h
          BY <1>0
        <4>2. h - 1 < Len(chain) => h \in 1 .. Len(chain) /\ chain[h] # "c"
          BY <1>0, <1>4 DEF Contradicted, tip
        <4>3. h \in 1 .. Len(chain) => chain[h] \in Blocks
          BY <1>0
        <4> QED  BY <1>0, <4>1, <4>2, <4>3 DEF Planned, Blocks
      <3>3. reverting' = None \/ Planned(reverting)'
        BY <3>1, <3>2 DEF Planned
      <3> QED  BY <1>1, <1>2, <2>1, <3>1, <3>3, SMTT(30) DEF SyncInv, Sent, Planned, Covered
    <2> QED  BY <2>2, <2>3
  <1>5. CASE watermark' = Advance(watermark, chain, certs') /\ KeepWalking(p, wire \ {m})
             /\ halted' = halted /\ reverting' = reverting
    <2>1. watermark' \in Nat /\ (Covered(watermark, chain) => Covered(watermark', chain))
      BY <1>0, <1>5, AdvanceIsCovered
    <2>2. \A k \in wire' : Sent(k)
      <3> HIDE DEF p
      <3> QED  BY <1>0, <1>2, <1>5, <2>1, WalkIsSent
    <2> QED  BY <1>0, <1>1, <1>5, <2>1, <2>2, SwarmKeeps, SMTT(30)
  <1> QED
    BY <1>1, <1>3, <1>4, <1>5 DEF on_certificate

\* The last chunk: a node at genesis imports the anchor.
LEMMA ChunkKeeps ==
    ASSUME SyncInv, NEW m \in wire, on_chunk(m)
    PROVE  SyncInv' /\ Len(chain') >= Len(chain)
  <1> DEFINE p == m.peer
  <1>0. p \in Peers /\ chain \in Seq(Blocks) /\ watermark \in Nat /\ Len(chain) \in Nat
        /\ Anchor \in Nat
    BY SyncAssumption DEF SyncInv, Sent, Blocks
  <1>1. net' = net /\ connected' = connected /\ reverting' = reverting /\ raced' = raced
        /\ halted' = halted
    BY DEF on_chunk, Downloaded
  <1>2. \/ chain' = chain /\ watermark' = watermark
        \/ Len(chain) = 0 /\ chain' = Canon(Anchor) /\ watermark' = Anchor
    BY <1>0 DEF on_chunk, ledger, tip
  <1>3. \A k \in wire' : \/ k \in wire
                         \/ \E n : k = Request(p, "Chunk", n)
                         \/ k = Request(p, "Blocks", Anchor + 1)
    BY DEF on_chunk
  <1>4. \A k \in wire' : Sent(k)
    BY <1>0, <1>3, RequestsAreSent DEF SyncInv
  <1>5. CASE chain' = chain /\ watermark' = watermark
    BY <1>0, <1>1, <1>4, <1>5, SwarmKeeps, SMTT(30)
  <1>6. CASE Len(chain) = 0 /\ chain' = Canon(Anchor) /\ watermark' = Anchor
    <2>1. chain' \in Seq(Blocks) /\ Len(chain') = Anchor /\ \A i \in 1 .. Anchor : chain'[i] = "c"
      BY <1>0, <1>6, CanonIsAChain
    <2>2. Covered(watermark', chain') /\ watermark' \in Nat
      BY <1>0, <1>6, <2>1 DEF Covered
    <2> QED  BY <1>0, <1>1, <1>4, <1>6, <2>1, <2>2, SwarmKeeps, SMTT(30)
  <1> QED  BY <1>2, <1>5, <1>6

\* Blocks that leave the chain leave from one the network does not certify, and
\* never below the watermark.
Unwinds(ch, w, next) ==
    Len(next) < Len(ch) => Len(next) >= w /\ ch[Len(next) + 1] = "x"

\* revert_to, not overtaken: it cuts the chain it read.
LEMMA RevertKeeps ==
    ASSUME SyncInv, revert_to
    PROVE  SyncInv' /\ (~ raced' => Unwinds(chain, watermark, chain'))
  <1>0. Planned(reverting) /\ chain \in Seq(Blocks) /\ watermark \in Nat /\ Len(chain) \in Nat
    BY DEF SyncInv, revert_to, Blocks
  <1>1. PICK t, seen : t = reverting.target /\ seen = reverting.seen
    OBVIOUS
  <1>2. t \in Nat /\ seen \in Seq(Blocks) /\ Len(seen) \in Nat /\ (t < Len(seen) => seen[t + 1] = "x")
    BY <1>0, <1>1 DEF Planned, Blocks
  <1>3. net' = net /\ connected' = connected /\ watermark' = watermark /\ halted' = halted
        /\ reverting' = None /\ raced' = (raced \/ seen # chain)
    BY <1>1 DEF revert_to
  <1>4. \A k \in wire' : Sent(k)
    <2>1. \A k \in wire' : k \in wire \/ k = Request(reverting.peer, "Blocks", t + 1)
      BY <1>1 DEF revert_to
    <2>2. reverting.peer \in Peers /\ t + 1 \in Nat
      BY <1>0, <1>2 DEF Planned
    <2> QED  BY <2>1, <2>2, RequestsAreSent DEF SyncInv
  <1>5. CASE t < Len(seen)
    <2>1. chain' = SubSeq(seen, 1, t)
      BY <1>1, <1>5, Zenon DEF revert_to
    <2>2. chain' \in Seq(Blocks) /\ Len(chain') = t
          /\ (Covered(watermark, seen) /\ watermark <= t => Covered(watermark, chain'))
      BY <1>0, <1>2, <1>5, <2>1, CutIsCovered
    <2>3. ASSUME ~ raced' PROVE Covered(watermark, chain') /\ Unwinds(chain, watermark, chain')
      <3>1. seen = chain /\ Covered(watermark, chain)
        BY <1>3, <2>3, ZenonT(60) DEF SyncInv
      <3>2. PICK h \in Nat \ {0} : h = t + 1
        BY <1>2
      <3>3. watermark < h
        <4>1. chain[h] # "c"
          BY <1>2, <1>5, <3>1, <3>2
        <4> QED  BY <1>0, <3>1, <4>1, CoveredIsBelow
      <3>4. watermark <= t
        BY <1>0, <1>2, <3>2, <3>3
      <3> QED  BY <1>2, <1>5, <2>2, <3>1, <3>4 DEF Unwinds
    <2>4. SyncInv'
      BY <1>0, <1>3, <1>4, <2>2, <2>3, Zenon DEF SyncInv, Sent, Blocks, Covered
    <2> QED  BY <2>3, <2>4
  <1>6. CASE ~(t < Len(seen))
    <2>1. chain' = chain
      BY <1>1, <1>6 DEF revert_to
    <2>2. Unwinds(chain, watermark, chain')
      BY <1>0, <2>1 DEF Unwinds
    <2>3. SyncInv'
      BY <1>3, <1>4, <2>1, Zenon DEF SyncInv, Sent, Covered
    <2> QED  BY <2>2, <2>3
  <1> QED  BY <1>5, <1>6

LEMMA LandingKeeps ==
    ASSUME SyncInv, GossipedBlock \/ ForkBlock
    PROVE  SyncInv' /\ Len(chain') >= Len(chain)
  <1>0. chain \in Seq(Blocks) /\ watermark \in Nat /\ Len(chain) \in Nat
    BY DEF SyncInv, Blocks
  <1>1. PICK b \in Blocks : Land(b)
    BY DEF GossipedBlock, ForkBlock, Blocks
  <1>2. chain' = Append(chain, b) /\ watermark' = Advance(watermark, chain, certs)
        /\ net' = net /\ connected' = connected /\ wire' = wire /\ reverting' = reverting
        /\ raced' = raced /\ halted' = halted
    BY <1>1 DEF Land
  <1>3. PICK w : w = Advance(watermark, chain, certs)
    OBVIOUS
  <1>4. w \in Nat /\ (Covered(watermark, chain) => Covered(w, chain))
    BY <1>0, <1>3, AdvanceIsCovered
  <1>5. chain' \in Seq(Blocks) /\ Len(chain') = Len(chain) + 1
        /\ (Covered(w, chain) => Covered(w, chain'))
    BY <1>0, <1>2, <1>4, AppendIsCovered, SMTT(30)
  <1> QED  BY <1>0, <1>2, <1>3, <1>4, <1>5, SwarmKeeps DEF SyncInv

\* The finality thread stores a certificate, and unwinds the tip it contradicts.
LEMMA FinalityKeeps ==
    ASSUME SyncInv, NEW h \in 1 .. MaxTip, FinalityCertificate(h)
    PROVE  SyncInv' /\ (~ raced' => Unwinds(chain, watermark, chain'))
  <1>0. chain \in Seq(Blocks) /\ watermark \in Nat /\ Len(chain) \in Nat /\ h \in Nat \ {0}
    BY SyncAssumption DEF SyncInv, Blocks
  <1>1. net' = net /\ connected' = connected /\ wire' = wire /\ reverting' = reverting
        /\ raced' = raced /\ halted' = halted /\ h > watermark
        /\ watermark' = Advance(watermark, chain, certs')
    BY DEF FinalityCertificate
  <1>2. watermark' \in Nat /\ (Covered(watermark, chain) => Covered(watermark', chain))
    BY <1>0, <1>1, AdvanceIsCovered
  <1>3. CASE chain' = chain
    <2>1. SyncInv'
      BY <1>0, <1>1, <1>2, <1>3, SwarmKeeps, SMTT(30) DEF SyncInv
    <2> QED  BY <1>0, <1>3, <2>1 DEF Unwinds
  <1>4. CASE h = Len(chain) /\ chain[h] # "c" /\ chain' = SubSeq(chain, 1, h - 1)
    <2>1. PICK n \in Nat : n = h - 1
      BY <1>0
    <2>2. PICK w \in Nat : w = watermark'
      BY <1>2
    <2>3. chain' \in Seq(Blocks) /\ Len(chain') = n
          /\ (Covered(w, chain) /\ w <= n => Covered(w, chain'))
      BY <1>0, <1>4, <2>1, CutIsCovered
    <2>4. Covered(w, chain) => w < h
      BY <1>0, <1>4, CoveredIsBelow
    <2>5. Covered(watermark, chain) => Covered(watermark', chain')
      BY <1>0, <1>2, <2>1, <2>2, <2>3, <2>4, SMTT(30)
    <2>6. SyncInv'
      BY <1>0, <1>1, <1>2, <2>3, <2>5, SwarmKeeps, SMTT(30) DEF SyncInv
    <2>7. chain[h] = "x"
      <3>1. chain[h] \in Blocks
        BY <1>0, <1>4
      <3> QED  BY <1>4, <3>1 DEF Blocks
    <2> QED  BY <1>0, <1>1, <2>1, <2>3, <2>6, <2>7 DEF Unwinds
  <1> QED  BY <1>3, <1>4 DEF FinalityCertificate, tip

LEMMA DeadTipKeeps ==
    ASSUME SyncInv, UnwindDeadTip
    PROVE  SyncInv' /\ (~ raced' => Unwinds(chain, watermark, chain'))
  <1>0. chain \in Seq(Blocks) /\ watermark \in Nat /\ Len(chain) \in Nat /\ Len(chain) > 0
        /\ chain[Len(chain)] = "x"
    BY DEF SyncInv, Blocks, UnwindDeadTip, tip
  <1>1. net' = net /\ connected' = connected /\ wire' = wire /\ reverting' = reverting
        /\ raced' = raced /\ halted' = halted /\ watermark' = watermark
        /\ chain' = SubSeq(chain, 1, Len(chain) - 1)
    BY DEF UnwindDeadTip, tip
  <1>2. PICK n \in Nat, h \in Nat \ {0} : n = Len(chain) - 1 /\ h = Len(chain)
    BY <1>0
  <1>3. chain' \in Seq(Blocks) /\ Len(chain') = n
        /\ (Covered(watermark, chain) /\ watermark <= n => Covered(watermark, chain'))
    BY <1>0, <1>1, <1>2, CutIsCovered
  <1>4. Covered(watermark, chain) => watermark < h
    BY <1>0, <1>2, CoveredIsBelow
  <1>5. Covered(watermark, chain) => Covered(watermark', chain') /\ watermark <= n
    BY <1>0, <1>1, <1>2, <1>3, <1>4, SMTT(30)
  <1>6. SyncInv'
    BY <1>0, <1>1, <1>3, <1>5, SwarmKeeps DEF SyncInv
  <1>7. Covered(watermark, chain) => Unwinds(chain, watermark, chain')
    BY <1>0, <1>2, <1>3, <1>5 DEF Unwinds
  <1> QED  BY <1>1, <1>6, <1>7 DEF SyncInv

-----------------------------------------------------------------------------
(* The theorems *)

LEMMA SyncStarts == Init => SyncInv
  <1> SUFFICES ASSUME Init PROVE SyncInv
    OBVIOUS
  <1>1. MaxTip - 1 \in Nat /\ MaxTip - 2 \in Nat
    BY SyncAssumption
  <1>2. Covered(watermark, chain)
    BY DEF Init, Covered
  <1> QED  BY <1>1, <1>2 DEF Init, SyncInv

LEMMA SyncStep ==
    SyncInv /\ [Next]_vars => SyncInv' /\ (~ raced' => Unwinds(chain, watermark, chain'))
  <1> SUFFICES ASSUME SyncInv, [Next]_vars
               PROVE  SyncInv' /\ (~ raced' => Unwinds(chain, watermark, chain'))
    OBVIOUS
  <1>0. Len(chain) \in Nat /\ watermark \in Nat
    BY DEF SyncInv
  <1>1. Len(chain') >= Len(chain) /\ Len(chain') \in Nat => Unwinds(chain, watermark, chain')
    BY <1>0 DEF Unwinds
  <1>2. SyncInv' => Len(chain') \in Nat
    BY DEF SyncInv
  <1>3. chain' = chain => Len(chain') >= Len(chain)
    BY <1>0
  <1>4. CASE vars' = vars \/ CooldownExpires
    <2>1. Quiet /\ chain' = chain /\ net' = net /\ wire' = wire /\ connected' = connected
      BY <1>4 DEF vars, CooldownExpires, Quiet, ledger
    <2>2. SyncInv'
      BY <2>1, QuietKeeps DEF SyncInv
    <2> QED  BY <1>1, <1>2, <1>3, <2>1, <2>2
  <1>5. CASE StatusTick
    <2>1. chain' = chain
      BY <1>5 DEF StatusTick, ledger
    <2> QED  BY <1>1, <1>2, <1>3, <1>5, <2>1, StatusTickKeeps, SMTT(30)
  <1>6. CASE revert_to
    BY <1>6, RevertKeeps
  <1>7. ASSUME NEW m \in wire, Deliver(m) \/ OutboundFailure(m)
        PROVE  SyncInv' /\ Len(chain') >= Len(chain)
    <2>1. CASE on_status(m) \/ on_peer_tip(m) \/ on_manifest(m) \/ Dropped(m) \/ OutboundFailure(m)
      <3>1. chain' = chain
        BY <2>1 DEF on_status, on_peer_tip, on_manifest, Dropped, OutboundFailure, ledger
      <3> QED  BY <1>3, <2>1, <3>1, AnswersKeep
    <2>2. CASE on_hashes(m)
      <3>1. chain' = chain
        BY <2>2 DEF on_hashes, ledger
      <3> QED  BY <1>3, <2>2, <3>1, HashesKeep
    <2>3. CASE on_blocks(m)
      BY <2>3, BlocksKeep
    <2>4. CASE on_certificates(m)
      BY <1>3, <2>4, CertificatesKeep
    <2>5. CASE on_certificate(m)
      BY <1>3, <2>5, CertificateKeeps
    <2>6. CASE on_chunk(m)
      BY <2>6, ChunkKeeps
    <2> QED  BY <1>7, <2>1, <2>2, <2>3, <2>4, <2>5, <2>6 DEF Deliver
  <1>8. ASSUME NEW p \in Peers, ConnectionEstablished(p) \/ ConnectionClosed(p)
                                \/ PeerCommits(p) \/ PeerCertifies(p)
        PROVE  SyncInv' /\ Len(chain') >= Len(chain)
    <2>1. chain' = chain
      BY <1>8 DEF ConnectionEstablished, ConnectionClosed, PeerCommits, PeerCertifies, ledger
    <2> QED  BY <1>3, <1>8, <2>1, ConnectionsKeep, PeersKeep
  <1>9. CASE GossipedBlock \/ ForkBlock
    BY <1>1, <1>2, <1>9, LandingKeeps
  <1>10. CASE UnwindDeadTip
    BY <1>10, DeadTipKeeps
  <1>11. ASSUME NEW h \in 1 .. MaxTip, FinalityCertificate(h)
         PROVE  SyncInv' /\ (~ raced' => Unwinds(chain, watermark, chain'))
    BY <1>11, FinalityKeeps
  <1> QED
    BY <1>1, <1>2, <1>4, <1>5, <1>6, <1>7, <1>8, <1>9, <1>10, <1>11, SMTT(30) DEF Next

\* The inductive invariant of the sync client: every watermark it holds covers
\* blocks it holds and the network certified, and every revert under way starts
\* at a block the network does not certify.
THEOREM SyncInvHolds == Spec => []SyncInv
  <1>1. SyncInv /\ [Next]_vars => SyncInv'
    BY SyncStep
  <1> QED  BY <1>1, SyncStarts, PTL DEF Spec

\* With honest peers no late, repeated or crossed answer halts the node below its
\* watermark (plan, on_certificate), for every number of peers, heights, losses
\* and reconnections.
THEOREM NeverHaltsOnHonestPeersHolds == Spec => []NeverHaltsOnHonestPeers
  <1>1. SyncInv => NeverHaltsOnHonestPeers
    BY DEF SyncInv, NeverHaltsOnHonestPeers
  <1> QED  BY <1>1, SyncInvHolds, PTL

\* Nor does any step abandon what the network certified: what leaves the chain
\* starts with a block the network does not certify, at or above the watermark,
\* except in a revert that another thread overtook.
THEOREM RevertsOnlyTheUncertifiedHolds == Spec => RevertsOnlyTheUncertified
  <1>1. SyncInv /\ [Next]_vars =>
            [Len(chain') < Len(chain) /\ ~ raced' =>
                Len(chain') >= watermark /\ chain[Len(chain') + 1] = "x"]_vars
    BY SyncStep DEF Unwinds
  <1> QED  BY <1>1, SyncInvHolds, PTL DEF Spec, RevertsOnlyTheUncertified

=============================================================================
