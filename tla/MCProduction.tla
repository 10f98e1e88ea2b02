---------------------------- MODULE MCProduction ----------------------------
(* A small instance of Production: a programmable wallet `w` owned by key    *)
(* o1, with guardian g, a session key and a limit of 5 per three heights, this  *)
(* validator `me` and a receiver `r`.  A transfer of 2 costs 3 with its fee. *)
EXTENDS Production

One(key) == [threshold |-> 1, members |-> {key}]

MCFee == 1
MCKinds == {"Transfer", "Report"} \cup PolicyKinds
MCWeight == [k \in MCKinds |-> IF k = "Transfer" THEN 2 ELSE 1]
MCSize == [k \in MCKinds |-> IF k = "Transfer" THEN 2 ELSE 1]

Policy == [owners     |-> One("o1"),
           limits     |-> "Native" :> [period |-> 3, amount |-> 5],
           recipients |-> {"r", "w"},
           sessions   |-> One("s") :> [expires_at |-> 4, asset |-> "Native",
                                  allowance |-> 2, recipients |-> {"r"}],
           recovery   |-> [guardians |-> One("g"), delay |-> 2]]

Account(key, balance, prog) ==
  [bal |-> "Native" :> balance, nonce |-> 0, address |-> One(key), prog |-> prog]

MCGenesisLedger ==
  [w  |-> Account("o1", 12, [policy |-> Policy, counters |-> <<>>, pending |-> None]),
   me |-> Account("m", 3, None),
   r  |-> Account("r", 0, None)]

Owner(key) == [mode |-> "owner", key |-> One(key), by |-> {key}]
Guardian == [mode |-> "guardian", key |-> One("g"), by |-> {"g"}]
Session == [mode |-> "session", key |-> One("s"), by |-> {"s"}]

Transfer(n, sig, amount) ==
  [sender |-> "w", nonce |-> n, kind |-> "Transfer", sig |-> sig, asset |-> "Native",
   to |-> "r", amount |-> amount]
Manage(n, kind, sig) == [sender |-> "w", nonce |-> n, kind |-> kind, sig |-> sig]
Rotate(n, kind, sig, owner) ==
  [sender |-> "w", nonce |-> n, kind |-> kind, sig |-> sig, owners |-> One(owner)]

Resubmit(n) ==
  [sender |-> "w", nonce |-> n, kind |-> "SetPolicy", sig |-> Owner("o1"), policy |-> Policy]
Sessions(n, kind, key) ==
  [sender |-> "w", nonce |-> n, kind |-> kind, sig |-> Owner("o1"), session |-> One(key),
   grant |-> Policy.sessions[One("s")]]

Nonces == 0 .. 2

MCSubmissions ==
  {Transfer(n, Owner("o1"), 2) : n \in Nonces}
  \cup {Transfer(1, Session, 1), Resubmit(1)}
  \cup {Rotate(n, "StartRecovery", Guardian, "o2") : n \in 0 .. 1}
  \cup {Manage(n, "ExecuteRecovery", Guardian) : n \in 1 .. 2}
  \cup {[sender |-> "me", nonce |-> 0, kind |-> "Transfer", asset |-> "Native",
         sig |-> [mode |-> "address", key |-> One("m"), by |-> {"m"}],
         to |-> "r", amount |-> 1]}

MCPeerActions ==
  {Sessions(0, "AddSession", "t"), Sessions(0, "RevokeSession", "s"),
   Rotate(1, "RotateMembers", Owner("o1"), "o2"),
   Manage(1, "CancelRecovery", Owner("o1"))}

\* Two validators in rotation: this one's turns are where height and round add
\* up to an odd number.
MCMine(h, r) == (h + r) % 2 = 1
=============================================================================
