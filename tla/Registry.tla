------------------------------ MODULE Registry ------------------------------
(***************************************************************************)
(* The rows that look each other up: a validator's BLS key, the owner of a  *)
(* key and the history of keys by height; a validator's operator and an     *)
(* operator's validators; an asset's balances and the lists of assets,      *)
(* holdings and holders.  Actions of one block read and write them through  *)
(* the block's view; the block then writes its updates kind by kind, and    *)
(* within a kind item by item, in one batch.                                *)
(*                                                                          *)
(* Lists are sets: nothing depends on their order.  What the asset circuits *)
(* put into a balance row is any amount (module Assets has the rules).      *)
(***************************************************************************)
EXTENDS Naturals, Sequences, SequencesExt, FiniteSetsExt, Functions

CONSTANTS
  Members,          \* addresses that may hold a BLS key
  Managers,         \* addresses that may be an operator
  BlsKeys,          \* BLS public keys
  Securities,       \* asset refs
  Holders,          \* addresses that may own an asset
  OldBalances,      \* balances that may be there when the lists are introduced
  EpochLength,
  NoRow,            \* no row under the key
  MaxBlocks, MaxBlockActions    \* bounds of the model

VARIABLES
  rows,             \* the committed rows
  view,             \* the block's view: the rows its actions left
  updates,          \* what the block will write
  blocks            \* the committed height

registryVars == <<rows, view, updates, blocks>>

Heights == 0 .. MaxBlocks + EpochLength

\* The updates of a block, kind by kind; an absent entry is not written.
NoUpdates ==
    [balances |-> <<>>, bls_keys |-> <<>>, assets |-> {}, operator |-> <<>>,
     operator_index |-> <<>>, count |-> 0]

\* The rows a view overlays: those of the column families under the state root.
Merkleized(r) ==
    [bls |-> r.bls, owner |-> r.owner, operator |-> r.operator,
     operator_index |-> r.operator_index, assets |-> r.assets, balances |-> r.balances]

\* A block's first action reads the committed rows.
View == IF updates = NoUpdates THEN Merkleized(rows) ELSE view

-----------------------------------------------------------------------------
(* BLS keys *)

next_epoch_start == ((blocks + 1) \div EpochLength + 1) * EpochLength

\* The key in force at a height: the newest entry at or below it.
get_bls_pubkey_at(r, v, h) ==
    LET at == {e \in 0..h : r.history[v][e] # NoRow}
    IN  IF at = {} THEN NoRow ELSE r.history[v][Max(at)]

\* Mutant of bls_pubkey_owner: the committed row, not the block's.
bls_pubkey_ownerMutant(k) == rows.owner[k]

bls_pubkey_owner(k) == View.owner[k]

authorized(sender, v) == sender = v \/ View.operator[v] = sender

\* A proof of possession is made with the key it is for.
validated_bls_pubkey(k, pop) == pop = k

\* The current key, its owner, and the end of the owner row of the key before.
apply_bls_key(r, x) ==
    LET put == [r EXCEPT !.bls[x.address] = x.pubkey, !.owner[x.pubkey] = x.address]
    IN  IF x.previous \notin {NoRow, x.pubkey} THEN [put EXCEPT !.owner[x.previous] = NoRow]
        ELSE put

\* One registration in the batch: the same, and the history row.
BlsKeyRegistration(r, x) ==
    [apply_bls_key(r, x) EXCEPT !.history[x.address][x.effective] = x.pubkey]

write_bls_keys(r, s) == FoldLeft(BlsKeyRegistration, r, s)

-----------------------------------------------------------------------------
(* Actions of the block *)

Executes(v, u) ==
    /\ updates.count < MaxBlockActions
    /\ view' = v
    /\ updates' = [u EXCEPT !.count = @ + 1]
    /\ UNCHANGED <<rows, blocks>>

\* RegisterBlsKey; a JoinValidator registers its key in the same way.
register_bls_key(a, v, k, pop) ==
    LET x == [address |-> v, pubkey |-> k, effective |-> next_epoch_start, previous |-> View.bls[v]]
    IN  /\ authorized(a, v)
        /\ validated_bls_pubkey(k, pop)
        /\ bls_pubkey_owner(k) \in {NoRow, v}
        /\ Executes(apply_bls_key(View, x), [updates EXCEPT !.bls_keys = Append(@, x)])

\* An operator update: forward rows and the reverse lists they change.
apply_operator(r, forward, index) ==
    [r EXCEPT !.operator = forward @@ @, !.operator_index = index @@ @]

OperatorUpdates(forward, index) ==
    Executes(apply_operator(View, forward, index),
             [updates EXCEPT !.operator = forward @@ @, !.operator_index = index @@ @])

set_operator(v, o) ==
    LET previous == View.operator[v]
        list == View.operator_index
        left == IF previous \in {NoRow, o} THEN <<>> ELSE previous :> list[previous] \ {v}
    IN  OperatorUpdates(v :> o, (o :> list[o] \cup {v}) @@ left)

clear_operator(v) ==
    LET previous == View.operator[v]
    IN  /\ previous # NoRow
        /\ OperatorUpdates(v :> NoRow, previous :> View.operator_index[previous] \ {v})

apply_asset_registration(x) ==
    /\ x \notin View.assets
    /\ Executes([View EXCEPT !.assets = @ \cup {x}], [updates EXCEPT !.assets = @ \cup {x}])

\* Balances go to zero; a row is never deleted.
apply_asset_balances(x, owners, amounts) ==
    /\ x \in View.assets
    /\ LET written == [p \in {x} \X owners |-> amounts[p[2]]]
       IN  Executes([View EXCEPT !.balances = written @@ @],
                    [updates EXCEPT !.balances = written @@ @])

-----------------------------------------------------------------------------
(* Asset lists *)

\* The cap table: the list, or a scan of the balances of an asset older than
\* the list.
get_asset_holders(r, x) ==
    IF r.holders[x] # NoRow THEN r.holders[x]
    ELSE {o \in Holders : r.balances[<<x, o>>] \notin {NoRow, 0}}

asset_index_updates(r, u) ==
    LET touched == {p[1] : p \in DOMAIN u.balances}
        listed(x) == {o \in Holders : IF <<x, o>> \in DOMAIN u.balances
                                      THEN u.balances[<<x, o>>] > 0
                                      ELSE o \in get_asset_holders(r, x)}
    IN  [registry |-> r.registry \cup u.assets,
         held |-> [o \in Holders |-> r.held[o] \cup {x \in touched : <<x, o>> \in DOMAIN u.balances}],
         holders |-> [x \in Securities |-> IF x \in touched THEN listed(x) ELSE r.holders[x]]]

\* One batch, in the order of accept_block's list; the asset lists come from
\* the rows before it.
write_block_batches(r, u) ==
    LET index == asset_index_updates(r, u)
        keyed == write_bls_keys(r, u.bls_keys)
    IN  [keyed EXCEPT !.balances = u.balances @@ @,
                      !.registry = index.registry, !.held = index.held, !.holders = index.holders,
                      !.assets = @ \cup u.assets,
                      !.operator = u.operator @@ @,
                      !.operator_index = u.operator_index @@ @]

CommitBlock ==
    /\ blocks < MaxBlocks
    /\ rows' = write_block_batches(rows, updates)
    /\ view' = IF updates = NoUpdates THEN Merkleized(rows) ELSE view
    /\ updates' = NoUpdates
    /\ blocks' = blocks + 1

-----------------------------------------------------------------------------
\* Genesis registers at most one validator per key.  An asset may be older than
\* the lists: balances, and no list of holders.
RegistryInit ==
    /\ \E bls \in [Members -> BlsKeys \cup {NoRow}], old \in OldBalances :
          /\ \A v, w \in Members : v # w /\ bls[v] # NoRow => bls[v] # bls[w]
          /\ LET known == {x \in Securities : \E o \in Holders : old[<<x, o>>] # NoRow}
             IN  rows = [bls |-> bls,
                         owner |-> [k \in BlsKeys |->
                                      IF \E v \in Members : bls[v] = k
                                      THEN CHOOSE v \in Members : bls[v] = k ELSE NoRow],
                         history |-> [v \in Members |-> [h \in Heights |->
                                        IF h = 0 THEN bls[v] ELSE NoRow]],
                         operator |-> [v \in Members |-> NoRow],
                         operator_index |-> [o \in Managers |-> {}],
                         assets |-> known, registry |-> known, balances |-> old,
                         held |-> [o \in Holders |-> {x \in Securities : old[<<x, o>>] # NoRow}],
                         holders |-> [x \in Securities |-> NoRow]]
    /\ view = Merkleized(rows)
    /\ updates = NoUpdates
    /\ blocks = 0

RegistryNext ==
    \/ \E v \in Members :
          \/ \E a \in Members \cup Managers, k, pop \in BlsKeys : register_bls_key(a, v, k, pop)
          \/ \E o \in Managers : set_operator(v, o)
          \/ clear_operator(v)
    \/ \E x \in Securities :
          \/ apply_asset_registration(x)
          \/ \E owners \in SUBSET Holders \ {{}} : \E amounts \in [owners -> {0, 1}] :
                apply_asset_balances(x, owners, amounts)
    \/ CommitBlock

-----------------------------------------------------------------------------
(* Properties *)

\* No two validators are in force with one BLS key at any height, also when a
\* key is given up and taken over within a block or an epoch: a signature of
\* one would count for the other in a certificate (register_bls_key,
\* next_epoch_start, get_bls_pubkey_at).
OneKeyOneValidator ==
    \A h \in Heights, v, w \in Members :
        LET k == get_bls_pubkey_at(rows, v, h)
        IN  k # NoRow /\ v # w => get_bls_pubkey_at(rows, w, h) # k

\* A committed block left exactly the rows its actions saw, whichever of them
\* wrote a row first, and every list answers what a scan of the rows it is made
\* from would: the owners of the keys, the validators of an operator, the
\* assets, and the holders with a balance (write_batches, asset_index_updates).
ListsAnswerLikeScans ==
    updates = NoUpdates =>
        /\ Merkleized(rows) = view
        /\ \A k \in BlsKeys, v \in Members : rows.owner[k] = v <=> rows.bls[v] = k
        /\ \A o \in Managers : rows.operator_index[o] = {v \in Members : rows.operator[v] = o}
        /\ rows.registry = rows.assets
        /\ \A x \in Securities :
              /\ get_asset_holders(rows, x) = {o \in Holders : rows.balances[<<x, o>>] \notin {NoRow, 0}}
              /\ \A o \in Holders : x \in rows.held[o] <=> rows.balances[<<x, o>>] # NoRow

\* The registries agree with the rows they are made from: one validator per BLS
\* key at every height, and lists that answer what a scan would
\* (OneKeyOneValidator, ListsAnswerLikeScans).
RegistriesAgree == rows # <<>> => OneKeyOneValidator /\ ListsAnswerLikeScans
=============================================================================
