---------------------------- MODULE RpcSessions ----------------------------
(***************************************************************************)
(* What the RPC server keeps in memory for its clients.                    *)
(*                                                                         *)
(* Operator pairing: the server's sessions (core/rpc pairing.rs), the      *)
(* `arxd pair` process that starts one and polls it (arxd/runtime          *)
(* pair.rs), and the wallet apps that answer.  A process starts one        *)
(* session, whose nonce is drawn at random, so the process names its       *)
(* session.                                                                *)
(*                                                                         *)
(* The per-address request budget (core/rpc lib.rs): a fixed window per    *)
(* (ip, is_write), swept when the map grows past a threshold, behind the   *)
(* bearer token (guard) and keyed by the address client_ip picks.          *)
(***************************************************************************)
EXTENDS Integers, FiniteSets, Sequences, TLC

CONSTANTS Pairers,      \* `arxd pair` processes, one per validator key
          Operators,    \* operator addresses apps submit
          PairingTtl,   \* PAIRING_TTL, in ticks
          MaxClock,     \* bound: ticks
          NoOperator

ASSUME PairingAssumption == PairingTtl \in Nat /\ MaxClock \in Nat

VARIABLES clock,
          sessions,     \* PairingStore.sessions: process -> session
          pairer,       \* the processes
          answered      \* history: process -> operators its session accepted, in order

pairingVars == <<clock, sessions, pairer, answered>>

PairingInit ==
    /\ clock = 0
    /\ sessions = <<>>
    /\ pairer = [p \in Pairers |-> [pc |-> "idle"]]
    /\ answered = [p \in Pairers |-> <<>>]

Expired(session) == clock - session.created_at > PairingTtl

Drop(f, s) == [x \in DOMAIN f \ {s} |-> f[x]]

tick ==
    /\ clock < MaxClock
    /\ clock' = clock + 1
    /\ UNCHANGED <<sessions, pairer, answered>>

\* POST /pairing: expired sessions are swept and a new one inserted; the process
\* shows its id and sets its own deadline.
start(p) ==
    LET live == {x \in DOMAIN sessions : ~Expired(sessions[x])}
    IN  /\ pairer[p].pc = "idle"
        /\ sessions' = (p :> [operator |-> NoOperator, created_at |-> clock])
                         @@ [x \in live |-> sessions[x]]
        /\ pairer' = [pairer EXCEPT ![p] = [pc |-> "waiting", deadline |-> clock + PairingTtl]]
        /\ UNCHANGED <<clock, answered>>

\* Mutant of Fulfilled: a later answer replaces the first.
FulfilledMutant(session) == FALSE

Fulfilled(session) == session.operator # NoOperator

\* POST /pairing/{nonce}, from an app that scanned the code: the first answer
\* within the session's life is kept, any later one refused.
submit(p, operator) ==
    /\ p \in DOMAIN sessions
    /\ IF Expired(sessions[p])
       THEN sessions' = Drop(sessions, p) /\ UNCHANGED answered
       ELSE /\ ~Fulfilled(sessions[p])
            /\ sessions' = [sessions EXCEPT ![p].operator = operator]
            /\ answered' = [answered EXCEPT ![p] = Append(@, operator)]
    /\ UNCHANGED <<clock, pairer>>

\* GET /pairing/{nonce}, one turn of wait_for_operator: an expired session is
\* dropped, a fulfilled one is consumed, and a pending one is asked for again
\* until the deadline.
poll(p) ==
    LET gone == p \notin DOMAIN sessions \/ Expired(sessions[p])
    IN  /\ pairer[p].pc = "waiting"
        /\ IF gone
           THEN /\ sessions' = Drop(sessions, p)
                /\ pairer' = [pairer EXCEPT ![p].pc = "failed"]
           ELSE IF sessions[p].operator # NoOperator
           THEN /\ pairer' = [pairer EXCEPT ![p] = [pc |-> "confirm",
                                                    operator |-> sessions[p].operator]]
                /\ sessions' = Drop(sessions, p)
           ELSE /\ clock >= pairer[p].deadline
                /\ pairer' = [pairer EXCEPT ![p].pc = "failed"]
                /\ UNCHANGED sessions
        /\ UNCHANGED <<clock, answered>>

\* The person at the terminal compares the address with the app's; only a yes
\* signs and submits AuthorizeOperator.
confirmed(p, yes) ==
    /\ pairer[p].pc = "confirm"
    /\ pairer' = [pairer EXCEPT ![p].pc = IF yes THEN "authorized" ELSE "failed"]
    /\ UNCHANGED <<clock, sessions, answered>>

\* The RPC server restarts: sessions live in memory only.
PairingRestart ==
    /\ sessions # <<>>
    /\ sessions' = <<>>
    /\ UNCHANGED <<clock, pairer, answered>>

PairingNext ==
    \/ tick
    \/ \E p \in Pairers : start(p)
    \/ \E p \in Pairers, o \in Operators : submit(p, o)
    \/ \E p \in Pairers : poll(p)
    \/ \E p \in Pairers, yes \in BOOLEAN : confirmed(p, yes)
    \/ PairingRestart

-----------------------------------------------------------------------------

\* A validator authorizes only the first operator that answered its own session
\* within the session's life: no later answer, other session or restart of the
\* server puts another address in its place (PairingStore::start, submit, poll,
\* wait_for_operator, run).
PairsWithTheFirst ==
    \A p \in Pairers :
        pairer[p].pc \in {"confirm", "authorized"} =>
            pairer[p].operator = answered[p][1]

-----------------------------------------------------------------------------
(* The request budget.                                                     *)

CONSTANTS Ips,              \* socket addresses and forwarded entries
          Window,           \* rpc_rate_limit_window_secs, in ticks
          MaxBudget,        \* is_write -> requests per window
          SweepThreshold,   \* RATE_LIMIT_SWEEP_THRESHOLD
          TrustedHops,      \* rpc_trusted_proxy_hops
          MaxTime           \* bound: ticks

ASSUME RateLimiterAssumption ==
    /\ Window \in Nat /\ TrustedHops \in Nat
    /\ MaxBudget \in [BOOLEAN -> Nat]

VARIABLES now, hits,        \* (ip, is_write) -> window start and count
          served            \* history: (ip, is_write) -> when it was allowed

limiterVars == <<now, hits, served>>

Buckets == Ips \X BOOLEAN

LimiterInit ==
    /\ now = 0
    /\ hits = <<>>
    /\ served = [k \in Buckets |-> <<>>]

\* The entry TrustedHops from the right of X-Forwarded-For, else the socket's.
client_ip(forwarded, addr) ==
    IF TrustedHops = 0 \/ Len(forwarded) < TrustedHops THEN addr
    ELSE forwarded[Len(forwarded) - TrustedHops + 1]

\* Entries whose window is over go once the map is large.
Swept(h) ==
    IF Cardinality(DOMAIN h) > SweepThreshold
    THEN [k \in {x \in DOMAIN h : now - h[x].seen <= Window} |-> h[k]]
    ELSE h

\* The bucket's entry for this request: a new window, or one more in this one.
Entry(h, k) ==
    IF k \in DOMAIN h /\ now - h[k].seen <= Window
    THEN [h[k] EXCEPT !.count = @ + 1]
    ELSE [seen |-> now, count |-> 1]

\* guard: an authorized request is counted, then served or refused.
guard(forwarded, addr, is_write) ==
    LET k == <<client_ip(forwarded, addr), is_write>>
        swept == Swept(hits)
        entry == Entry(swept, k)
    IN  /\ entry.count <= MaxBudget[is_write] + 1     \* bound: refusals counted
        /\ hits' = (k :> entry) @@ swept
        /\ served' = IF entry.count <= MaxBudget[is_write]
                     THEN [served EXCEPT ![k] = Append(@, now)]
                     ELSE served
        /\ UNCHANGED now

LimiterTick ==
    /\ now < MaxTime
    /\ now' = now + 1
    /\ UNCHANGED <<hits, served>>

LimiterNext ==
    \/ LimiterTick
    \/ \E addr \in Ips, f \in Ips, is_write \in BOOLEAN : guard(<<f>>, addr, is_write)
    \/ \E addr \in Ips, is_write \in BOOLEAN : guard(<<>>, addr, is_write)

-----------------------------------------------------------------------------

\* No address is served more than twice its budget within any one window's span,
\* whatever other addresses do and whenever the map is swept (RateLimiter::allow,
\* client_ip, guard).
BudgetHolds ==
    \A k \in Buckets : \A i \in DOMAIN served[k] :
        Cardinality({j \in DOMAIN served[k] : served[k][j] \in served[k][i]..(served[k][i] + Window)})
            <= 2 * MaxBudget[k[2]]

=============================================================================
