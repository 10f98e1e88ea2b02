------------------------------- MODULE StateTrie -------------------------------
(***************************************************************************)
(* The sparse Merkle trie that a block's state root commits to, as the     *)
(* functions of core/poe/src/lib.rs (hashing, descending, proofs, the      *)
(* proof-backed trie of an adjudicator) and of core/storage/src/lib.rs     *)
(* (the content-addressed node store with its shortcut records).           *)
(*                                                                         *)
(* A key hash is a sequence of Depth bits (256 in the code); a hash is the *)
(* term that was hashed, so distinct inputs have distinct hashes, which is *)
(* what the code takes from SHA-256.  A partial function from hashes to    *)
(* contents stands for CF_MERKLE and for every in-memory node map.         *)
(***************************************************************************)
EXTENDS Integers, Sequences, FiniteSets, TLC, SequencesExt

CONSTANTS Depth,     \* levels of the trie
          None,      \* an absent value
          Unproven   \* a node or a value that the walk needs and does not have

Levels == 0 .. Depth - 1

leaf_hash(key, value) == <<"leaf", key, value>>

internal_hash(left, right) == <<"node", left, right>>

bit_at(key, level) == key[level + 1]

\* default_hashes[d] is the root of an empty subtree of height d.
default_hashes[d \in 0 .. Depth] ==
    IF d = 0 THEN <<"zero">>
             ELSE internal_hash(default_hashes[d - 1], default_hashes[d - 1])

\* The node at a level and its sibling, in the order the parent hashes them.
Ordered(key, level, node, sibling) ==
    IF bit_at(key, level) = 0 THEN <<node, sibling>> ELSE <<sibling, node>>

\* The nodes on key's path, from the leaf at level Depth up to the root at
\* level 0, given the siblings on the way.
climb(key, leaf, siblings) ==
    LET node[l \in 0 .. Depth] ==
            IF l = Depth THEN leaf
            ELSE LET kids == Ordered(key, l, node[l + 1], siblings[l + 1])
                 IN  internal_hash(kids[1], kids[2])
    IN  [l \in 0 .. Depth |-> node[l]]

\* The node at the leaf level for a key with this value.
LeafNode(key, value) ==
    IF value = None THEN default_hashes[0] ELSE leaf_hash(key, value)

\* The walk from root along key: siblings on the way and the node at the leaf
\* level.  An empty subtree answers from the defaults; children answers for
\* every other node (it may remember what it rebuilt in memo), and the walk
\* fails with Unproven where it has no answer.
StepDown(acc, level, key, found) ==
    IF found = Unproven THEN Unproven
    ELSE [node     |-> found.kids[bit_at(key, level) + 1],
          siblings |-> Append(acc.siblings, found.kids[2 - bit_at(key, level)]),
          memo     |-> found.memo]

Empty(level) == default_hashes[Depth - level - 1]

descend(root, key, children(_, _)) ==
    LET Step(acc, l) ==
            IF acc = Unproven THEN Unproven
            ELSE StepDown(acc, l, key,
                     IF acc.node = default_hashes[Depth - l]
                     THEN [kids |-> <<Empty(l), Empty(l)>>, memo |-> acc.memo]
                     ELSE children(acc.memo, acc.node))
    IN  FoldLeft(Step, [node |-> root, siblings |-> <<>>, memo |-> <<>>],
                 [i \in 1 .. Depth |-> i - 1])

--------------------------------------------------------------------------------
(* The reference: the root of a set of leaves, computed from nothing. *)

RECURSIVE subtree_root(_, _)
subtree_root(leaves, level) ==
    IF DOMAIN leaves = {} THEN default_hashes[Depth - level]
    ELSE IF level = Depth
    THEN LET key == CHOOSE k \in DOMAIN leaves : TRUE IN leaf_hash(key, leaves[key])
    ELSE LET half(b) == {k \in DOMAIN leaves : bit_at(k, level) = b}
             side(b) == [k \in half(b) |-> leaves[k]]
         IN  internal_hash(subtree_root(side(0), level + 1),
                           subtree_root(side(1), level + 1))

\* The keys of rows with a value, and the root over them.
root_of(rows) == subtree_root([k \in {k \in DOMAIN rows : rows[k] # None} |-> rows[k]], 0)

--------------------------------------------------------------------------------
(* Proofs. *)

InclusionProof(key, value, siblings) == [key |-> key, value |-> value, siblings |-> siblings]

\* A proof on the wire: the levels whose sibling is not the default, and those
\* siblings only.
compress(proof) ==
    LET kept == {l \in Levels : proof.siblings[l + 1] # default_hashes[Depth - 1 - l]}
    IN  [key |-> proof.key, value |-> proof.value, bitmap |-> kept,
         siblings |-> [i \in 1 .. Cardinality(kept) |->
             proof.siblings[1 + CHOOSE l \in kept : Cardinality({m \in kept : m < l}) = i - 1]]]

\* The wire form expanded again; Unproven (a malformed proof) unless the bitmap
\* names exactly as many levels as there are siblings.
decode_proof(p) ==
    IF Cardinality(p.bitmap) # Len(p.siblings) THEN Unproven
    ELSE InclusionProof(p.key, p.value,
             [i \in 1 .. Depth |->
                 IF i - 1 \in p.bitmap
                 THEN p.siblings[1 + Cardinality({m \in p.bitmap : m < i - 1})]
                 ELSE default_hashes[Depth - i]])

verify_proof(root, proof) ==
    /\ proof # Unproven
    /\ Len(proof.siblings) = Depth
    /\ climb(proof.key, LeafNode(proof.key, proof.value), proof.siblings)[0] = root

--------------------------------------------------------------------------------
(* ProofBackedTrie: a trie known only through proofs against its root. *)

\* The nodes and the leaf of one path, with siblings beside it.
NodesOf(path, key, siblings, levels) ==
    [h \in {path[l] : l \in levels} |->
        LET l == CHOOSE l \in levels : path[l] = h
        IN  Ordered(key, l, path[l + 1], siblings[l + 1])]

PathLeaf(key, value) ==
    IF value = None THEN <<>> ELSE leaf_hash(key, value) :> value

record_path(trie, proof) ==
    [trie EXCEPT
        !.nodes  = NodesOf(climb(proof.key, LeafNode(proof.key, proof.value), proof.siblings),
                           proof.key, proof.siblings, Levels) @@ @,
        !.leaves = PathLeaf(proof.key, proof.value) @@ @]

from_proofs(root, proofs) ==
    IF \E p \in proofs : ~ verify_proof(root, p) THEN Unproven
    ELSE FoldLeft(record_path, [root |-> root, nodes |-> <<>>, leaves |-> <<>>], SetToSeq(proofs))

pbt_descend(trie, key) ==
    descend(trie.root, key,
            LAMBDA memo, h : IF h \in DOMAIN trie.nodes
                             THEN [kids |-> trie.nodes[h], memo |-> memo] ELSE Unproven)

pbt_get(trie, key) ==
    LET Found(d) == IF d = Unproven THEN Unproven
                    ELSE IF d.node = default_hashes[0] THEN None
                    ELSE IF d.node \in DOMAIN trie.leaves THEN trie.leaves[d.node]
                    ELSE Unproven
    IN  Found(pbt_descend(trie, key))

PutPath(trie, key, value, siblings, path) ==
    [root   |-> path[0],
     nodes  |-> NodesOf(path, key, siblings, Levels) @@ trie.nodes,
     leaves |-> PathLeaf(key, value) @@ trie.leaves]

PutLeaf(trie, key, value, siblings) ==
    PutPath(trie, key, value, siblings, climb(key, LeafNode(key, value), siblings))

\* The trie after writing value under key; Unproven when no proof covers key.
pbt_apply(trie, key, value) ==
    LET Put(d) == IF d = Unproven THEN Unproven ELSE PutLeaf(trie, key, value, d.siblings)
    IN  Put(pbt_descend(trie, key))

--------------------------------------------------------------------------------
(* The node store of the database.  A record is an internal node, a leaf,  *)
(* or a shortcut that stands for the whole chain above a lone leaf.        *)

Internal(kids) == [kind |-> "internal", kids |-> kids]
LeafRecord(key, value) == [kind |-> "leaf", key |-> key, value |-> value]

shortcut(key, leaf, level) == [kind |-> "shortcut", key |-> key, leaf |-> leaf, level |-> level]

\* The nodes on the path of a key that is alone in its subtree.
lone_chain(key, leaf) == climb(key, leaf, [i \in 1 .. Depth |-> default_hashes[Depth - i]])

\* Every node that a shortcut record stands for, with its own shortcut record
\* and its two children.
ExpandChain(record, chain, levels) ==
    [h \in {chain[l] : l \in levels} |->
        LET l == CHOOSE l \in levels : chain[l] = h
        IN  [content |-> shortcut(record.key, record.leaf, l),
             kids    |-> Ordered(record.key, l, chain[l + 1], Empty(l))]]

Expand(record) ==
    ExpandChain(record, lone_chain(record.key, record.leaf), record.level .. Depth - 1)

\* A node's children: from the nodes this walk already rebuilt, or from its
\* record.  A missing record is a corrupted store.
node_children(store, expanded, h) ==
    LET Kids(n) == [kids |-> n[h].kids, memo |-> n]
    IN  IF h \in DOMAIN expanded THEN Kids(expanded)
        ELSE IF h \notin DOMAIN store THEN Unproven
        ELSE IF store[h].kind = "internal" THEN [kids |-> store[h].kids, memo |-> expanded]
        ELSE Kids(Expand(store[h]) @@ expanded)

db_descend(store, root, key) ==
    descend(root, key, LAMBDA memo, h : node_children(store, memo, h))

\* The proof of key against any root the store ever held; Unproven when a
\* record is missing.
prove(store, root, key) ==
    LET Proof(d) == IF d = Unproven THEN Unproven
                    ELSE IF d.node = default_hashes[0] THEN InclusionProof(key, None, d.siblings)
                    ELSE IF d.node \in DOMAIN store
                    THEN InclusionProof(key, store[d.node].value, d.siblings)
                    ELSE Unproven
    IN  Proof(db_descend(store, root, key))

\* The siblings rebuilt from a shortcut are left without a record of their own.
SiblingRecordsMutant(siblings, expanded) == <<>>

\* The siblings of a walk that existed only inside a shortcut: they are about
\* to get a stored parent, so they need a record of their own.
SiblingRecords(siblings, expanded) ==
    [h \in {siblings[i] : i \in 1 .. Depth} \cap DOMAIN expanded |-> expanded[h].content]

\* The highest level at which the subtree around a new leaf holds only it.
LoneLevel(siblings) ==
    CHOOSE m \in 0 .. Depth :
        /\ \A l \in m .. Depth - 1 : siblings[l + 1] = default_hashes[Depth - 1 - l]
        /\ m > 0 => siblings[m] # default_hashes[Depth - m]

\* The records of one update.  The chain above the new leaf becomes one
\* shortcut as far up as the leaf is alone; above it every node that is not an
\* empty subtree is written.
Records(key, value, siblings, path, lone) ==
    LET above == {l \in 0 .. lone - 1 : path[l] # default_hashes[Depth - l]}
        nodes == NodesOf(path, key, siblings, above)
    IN  [h \in {path[l] : l \in above} |-> Internal(nodes[h])]
        @@ (IF lone = Depth THEN <<>> ELSE path[lone] :> shortcut(key, path[Depth], lone))
        @@ (IF value = None THEN <<>> ELSE path[Depth] :> LeafRecord(key, value))

WritePath(db, key, value, d, path) ==
    [root  |-> path[0],
     store |-> Records(key, value, d.siblings, path,
                       IF value = None THEN Depth ELSE LoneLevel(d.siblings))
               @@ SiblingRecords(d.siblings, d.memo) @@ db.store]

\* One key's update: down its path, then up again with the new leaf.
WriteKey(db, key, value) ==
    LET Write(d) == IF d = Unproven THEN Unproven
                    ELSE WritePath(db, key, value, d, climb(key, LeafNode(key, value), d.siblings))
    IN  IF db = Unproven THEN Unproven ELSE Write(db_descend(db.store, db.root, key))

\* The store and root after a set of changes, applied in key order.
trie_root_after(store, root, changes) ==
    FoldLeft(LAMBDA db, key : WriteKey(db, key, changes[key]),
             [store |-> store, root |-> root],
             SetToSortSeq(DOMAIN changes, LAMBDA a, b :
                 \E i \in 1 .. Depth : a[i] < b[i] /\ \A j \in 1 .. i - 1 : a[j] = b[j]))

================================================================================
