--------------------------- MODULE AccountPolicy ---------------------------
(* Programmable accounts: an owner multisig that can be rotated, spending   *)
(* limits per period, a recipient allowlist, session keys and time-locked   *)
(* recovery by guardians, and the way `dispatch` wraps every action in      *)
(* them (circuits/account, core/primitives policy.rs and action.rs,         *)
(* arxd/runtime account_policy.rs).                                         *)
(*                                                                          *)
(* A ledger is a function from accounts to entries                          *)
(*   [bal |-> asset -> amount, nonce, prog]                                 *)
(* where prog is None or                                                    *)
(*   [policy |-> [owners, limits, recipients, sessions, recovery],          *)
(*    counters, pending].                                                   *)
(* limits, sessions and counters are partial functions keyed as the code    *)
(* keys its lists (a policy with a duplicate key is refused by validate).   *)
(* An action is [sender, nonce, kind, sig, ...]; sig says who signed it:    *)
(*   [mode |-> "address" | "owner" | "session" | "guardian", key, by]       *)
(* where key is the multisig the witness names (or the session key) and by  *)
(* the members whose signatures it holds.  A refused operation is None.     *)
EXTENDS Naturals, FiniteSets, FiniteSetsExt, Functions, TLC

CONSTANTS
  Fee,          \* action_fee_for: the metered fee of an action
  Weight,       \* action_weight: a function of the action's kind
  None,         \* absent: a policy, an allowlist, a refused operation
  Extensions    \* ChainParams.account_extensions_enabled

\* MultisigPolicy::validate: a threshold between one and the member count.
validate_owners(m) == m.threshold \in 1 .. Cardinality(m.members)

\* SpendingPolicy::validate, its list caps aside (every list here is short).
validate(p) ==
  /\ validate_owners(p.owners)
  /\ \A x \in DOMAIN p.limits : p.limits[x].period > 0
  /\ DOMAIN p.sessions # {} => "Native" \in DOMAIN p.limits
  /\ p.recovery # None => validate_owners(p.recovery.guardians) /\ p.recovery.delay > 0

\* A witness names its multisig in full and carries exactly threshold
\* signatures by distinct members.
verify_multisig(m, sig) ==
  sig.key = m /\ sig.by \subseteq m.members /\ Cardinality(sig.by) = m.threshold

\* ChainAction::verify_account_signature: what the signature authorizes under
\* the account's current policy, or None.  An account without a policy is
\* controlled by the key (or multisig) its address is made of.
verify_account_signature(e, a) ==
  CASE e.prog = None /\ a.sig.mode = "address" /\ verify_multisig(e.address, a.sig) -> "Owner"
    [] e.prog # None /\ a.sig.mode = "owner"
         /\ verify_multisig(e.prog.policy.owners, a.sig) -> "Owner"
    [] e.prog # None /\ a.sig.mode = "session"
         /\ a.sig.key \in DOMAIN e.prog.policy.sessions -> "Session"
    [] e.prog # None /\ a.sig.mode = "guardian" /\ e.prog.policy.recovery # None
         /\ verify_multisig(e.prog.policy.recovery.guardians, a.sig) -> "Guardian"
    [] OTHER -> None

PolicyKinds == {"SetPolicy", "RotateMembers", "AddSession", "RevokeSession",
                "StartRecovery", "CancelRecovery", "ExecuteRecovery"}

\* account_policy::authorization: the capability the action is dispatched
\* under, its scope checked before anything is executed.
authorization(e, a, h) ==
  LET auth == IF e.prog = None THEN "Owner" ELSE verify_account_signature(e, a)
      Session == e.prog.policy.sessions[a.sig.key]
      scoped ==
        \/ auth = "Owner"
        \/ auth = "Guardian" /\ a.kind \in {"StartRecovery", "ExecuteRecovery"}
        \/ /\ auth = "Session"
           /\ a.kind = "Transfer"
           /\ h < Session.expires_at
           /\ a.asset = Session.asset
           /\ a.to \in Session.recipients
           /\ a.amount <= Session.allowance
      activated ==
        \/ Extensions
        \/ /\ a.kind \notin {"AddSession", "StartRecovery", "ExecuteRecovery"}
           /\ a.kind = "SetPolicy" => a.policy.sessions = <<>> /\ a.policy.recovery = None
           /\ auth = "Owner"
  IN  IF scoped /\ activated /\ (a.kind = "SetPolicy" => validate(a.policy))
      THEN auth ELSE None

----------------------------------------------------------------------------
(* apply_policy_action, one operator per kind of action.                     *)

\* Mutant of KeptCounters: a new policy starts with fresh counters.
KeptCountersMutant(old, new) == <<>>

\* Counters survive a policy that keeps their asset's limit as it was.
KeptCounters(old, new) ==
  IF old = None THEN <<>>
  ELSE Restrict(old.counters,
         {x \in DOMAIN old.counters \cap DOMAIN old.policy.limits :
            \E y \in DOMAIN new.limits : y = x /\ new.limits[y] = old.policy.limits[x]})

SetPolicy(e, a) ==
  [policy |-> a.policy, counters |-> KeptCounters(e.prog, a.policy), pending |-> None]

RotateMembers(prog, owners) ==
  [prog EXCEPT !.policy.owners = owners, !.policy.sessions = <<>>, !.pending = None]

AddSession(prog, a, h) ==
  LET p == [prog.policy EXCEPT !.sessions = (a.session :> a.grant) @@ @]
  IN  IF a.grant.expires_at > h /\ a.session \notin DOMAIN prog.policy.sessions /\ validate(p)
      THEN [prog EXCEPT !.policy = p] ELSE None

StartRecovery(prog, a, h) ==
  IF validate_owners(a.owners) /\ prog.pending = None /\ prog.policy.recovery # None
  THEN [prog EXCEPT !.pending = [owners |-> a.owners,
                                 execute_after |-> h + prog.policy.recovery.delay]]
  ELSE None

ExecuteRecovery(prog, h) ==
  IF prog.pending # None /\ h >= prog.pending.execute_after
  THEN RotateMembers([prog EXCEPT !.pending = None], prog.pending.owners) ELSE None

\* The entry's programmable state after the action, or None.
apply_policy_action(e, a, auth, h) ==
  CASE auth \notin {"Owner", "Guardian"} -> None
    [] auth = "Guardian" /\ a.kind \notin {"StartRecovery", "ExecuteRecovery"} -> None
    [] a.kind \in {"StartRecovery", "ExecuteRecovery"} /\ auth # "Guardian" -> None
    [] a.kind = "SetPolicy" -> IF validate(a.policy) THEN SetPolicy(e, a) ELSE None
    [] e.prog = None -> None
    [] a.kind = "RotateMembers" ->
         IF validate_owners(a.owners) THEN RotateMembers(e.prog, a.owners) ELSE None
    [] a.kind = "AddSession" -> AddSession(e.prog, a, h)
    [] a.kind = "RevokeSession" ->
         [e.prog EXCEPT !.policy.sessions = Restrict(@, DOMAIN @ \ {a.session})]
    [] a.kind = "StartRecovery" -> StartRecovery(e.prog, a, h)
    [] a.kind = "CancelRecovery" -> [e.prog EXCEPT !.pending = None]
    [] a.kind = "ExecuteRecovery" -> ExecuteRecovery(e.prog, h)

----------------------------------------------------------------------------
(* Spending.                                                                 *)

\* The counter of one limit after spending amount at height h.
Count(prog, x, h, amount) ==
  LET window == h \div prog.policy.limits[x].period
      old    == IF x \in DOMAIN prog.counters THEN prog.counters[x]
                ELSE [window |-> window, spent |-> 0]
  IN  [window |-> window,
       spent  |-> amount + (IF old.window = window THEN old.spent ELSE 0)]

\* enforce_spending: spends is a function asset -> amount debited.  The clock
\* never moves backwards on one chain, so that refusal has no case here.
enforce_spending(prog, a, auth, h, spends, recipients) ==
  LET counted == [x \in DOMAIN prog.policy.limits |-> Count(prog, x, h, spends[x])]
      s       == prog.policy.sessions[a.sig.key]
      inScope ==
        /\ h < s.expires_at
        /\ a.asset = s.asset
        /\ a.to \in s.recipients
        /\ a.amount <= s.allowance
      charged == [prog EXCEPT !.counters = counted @@ @]
  IN  IF \/ auth = "Guardian"
         \/ prog.policy.recipients # None /\ ~ recipients \subseteq prog.policy.recipients
         \/ \E x \in DOMAIN counted : counted[x].spent > prog.policy.limits[x].amount
         \/ auth = "Session" /\ ~ inScope
      THEN None
      ELSE IF auth = "Session"
           THEN [charged EXCEPT !.policy.sessions[a.sig.key].allowance = @ - a.amount]
           ELSE charged

\* account_policy::enforce over the entry as dispatched (after: nonce consumed
\* and fee charged).  Policy management is exempt.
enforce(before, after, a, auth, h) ==
  IF before.prog = None \/ a.kind \in PolicyKinds THEN after
  ELSE LET debit(x) == IF before.bal[x] > after.bal[x] THEN before.bal[x] - after.bal[x] ELSE 0
           spends == [x \in DOMAIN before.bal |->
                        IF x = "Native" THEN Max({debit(x), Fee}) ELSE debit(x)]
           prog == enforce_spending(before.prog, a, auth, h, spends, {a.to})
       IN  IF prog = None THEN None ELSE [after EXCEPT !.prog = prog]

\* apply_transfer: a self-transfer only consumes the nonce.
apply_transfer(k, a) ==
  CASE a.nonce # k[a.sender].nonce \/ k[a.sender].bal[a.asset] < a.amount -> None
    [] a.to = a.sender -> [k EXCEPT ![a.sender].nonce = @ + 1]
    [] OTHER -> [k EXCEPT ![a.sender].nonce = @ + 1,
                          ![a.sender].bal[a.asset] = @ - a.amount,
                          ![a.to].bal[a.asset] = @ + a.amount]

\* account_policy::apply: an account's first policy must be signed by the key
\* its address is made of.
apply(k, a, auth, h) ==
  LET e    == k[a.sender]
      prog == apply_policy_action(e, a, auth, h)
  IN  IF prog = None \/ (e.prog = None /\ verify_account_signature(e, a) = None)
      THEN None ELSE [k EXCEPT ![a.sender].prog = prog]

\* consume_nonce: the circuits that check the nonce themselves left it bumped.
consume_nonce(k, after, a) ==
  CASE after = None -> None
    [] after[a.sender].nonce # k[a.sender].nonce -> after
    [] a.nonce # k[a.sender].nonce -> None
    [] OTHER -> [after EXCEPT ![a.sender].nonce = @ + 1]

charge_action_fee(after, a) ==
  IF after = None \/ after[a.sender].bal["Native"] < Fee THEN None
  ELSE [after EXCEPT ![a.sender].bal["Native"] = @ - Fee]

Enforced(k, after, a, auth, h) ==
  IF after = None THEN None
  ELSE LET e == enforce(k[a.sender], after[a.sender], a, auth, h)
       IN  IF e = None THEN None ELSE [after EXCEPT ![a.sender] = e]

\* dispatch: the ledger after the action, or None when it is refused.  An
\* action of another kind has its effect outside the accounts.
Dispatched(k, a, auth, h) ==
  IF auth = None THEN None
  ELSE LET inner == CASE a.kind = "Transfer" -> apply_transfer(k, a)
                      [] a.kind \in PolicyKinds -> apply(k, a, auth, h)
                      [] OTHER -> k
       IN  Enforced(k, charge_action_fee(consume_nonce(k, inner, a), a), a, auth, h)

dispatch(k, a, h) == Dispatched(k, a, authorization(k[a.sender], a, h), h)

=============================================================================
