----------------------------- MODULE SecretSlots -----------------------------
(***************************************************************************)
(* The table of client secrets of one proxy process: its slots, the        *)
(* SIGHUP reload that places, revives and drains them, the 1 Hz sweeper    *)
(* that releases them, and the client connections that are admitted under  *)
(* a slot and give it back when they close (relay mode; direct mode is     *)
(* module DirectRelay).                                                    *)
(*                                                                         *)
(* In the default build every job below runs on the main thread, so one    *)
(* action is one job.  What interleaves is the jobs themselves: a TLS      *)
(* client is checked in one job and counted in a later one, a close is a   *)
(* JS_ABORT job that queues a notification, and only the notification      *)
(* gives the count back.                                                   *)
(***************************************************************************)
EXTENDS Integers, FiniteSets, Sequences, FiniteSetsExt

CONSTANTS
  MaxSlots,     \* EXT_SECRET_MAX_SLOTS
  MaxActive,    \* EXT_SECRET_MAX_ACTIVE
  Pinned,       \* ext_secret_pinned: number of -S secrets, slots 0..Pinned-1
  PinnedKey,    \* their keys, a function on 0..Pinned-1
  Keys,         \* the 16-byte secrets that occur
  NoKey,        \* the zeroed key of a FREE slot
  Conns,        \* client connections
  Configs,      \* [[secret]] arrays a reload may read: sequences of entries
  Timeouts,     \* values of drain_timeout_secs, 0 = never force-close
  Mixed,        \* may a client use two secrets, one per handshake layer?
  MaxAge,       \* bound: ages and times to live saturate here
  Never         \* ttl of a secret without an expiry date

Slots == 0 .. MaxSlots - 1
Entries == [key : Keys, limit : Nat, ttl : Nat \cup {Never}]

ASSUME SlotAssumption ==
  /\ MaxSlots \in Nat
  /\ MaxActive \in Nat
  /\ Pinned \in 0 .. MaxSlots
  /\ PinnedKey \in [0 .. Pinned - 1 -> Keys]
  /\ NoKey \notin Keys
  /\ Mixed \in BOOLEAN
  /\ MaxAge \in Nat
  /\ Never \notin Nat
  /\ Timeouts \subseteq 0 .. MaxAge
  /\ Timeouts # {}
  /\ IsFiniteSet(Conns)
  /\ Configs \subseteq Seq(Entries)

VARIABLES
  state,    \* ext_secret_state[s]
  key,      \* ext_secret[s]
  limit,    \* ext_secret_limit[s], 0 = unlimited
  ttl,      \* ext_secret_expires[s] - now, 0 once the secret has expired
  age,      \* precise_now - ext_secret_drain_started_at[s]
  conns,    \* per_secret_connections[s]
  cnt,      \* ext_secret_cnt: lookups only look at slots below it
  timeout,  \* drain_timeout_secs
  conn      \* the client connections: phase, secret proved, extra_int2

vars == <<state, key, limit, ttl, age, conns, cnt, timeout, conn>>

\* "new": accepted, no handshake yet; "tls": ClientHello accepted, C_IS_TLS;
\* "open": obfuscated2 header parsed, counted; "skip": global skip mode;
\* "err": fail_connection done, JS_ABORT pending; "closing": the close
\* notification is queued; "idle": no connection, or handed to the backend.
Phases == {"idle", "new", "tls", "open", "skip", "err", "closing"}
Idle == [phase |-> "idle", key |-> NoKey, sid |-> 0]

TypeOK ==
  /\ state \in [Slots -> {"FREE", "ACTIVE", "DRAINING"}]
  /\ key \in [Slots -> Keys \cup {NoKey}]
  /\ limit \in [Slots -> Nat]
  /\ ttl \in [Slots -> Nat \cup {Never}]
  /\ age \in [Slots -> 0 .. MaxAge]
  /\ conns \in [Slots -> Int]
  /\ cnt \in 0 .. MaxSlots
  /\ timeout \in Timeouts
  /\ conn \in [Conns -> [phase : Phases, key : Keys \cup {NoKey}, sid : 0 .. MaxSlots]]

\* The -S secrets have been added and pinned; TOML secrets come by Reload.
Init ==
  /\ state = [s \in Slots |-> IF s < Pinned THEN "ACTIVE" ELSE "FREE"]
  /\ key = [s \in Slots |-> IF s < Pinned THEN PinnedKey[s] ELSE NoKey]
  /\ limit = [s \in Slots |-> 0]
  /\ ttl = [s \in Slots |-> Never]
  /\ age = [s \in Slots |-> 0]
  /\ conns = [s \in Slots |-> 0]
  /\ cnt = Pinned
  /\ timeout \in Timeouts
  /\ conn = [c \in Conns |-> Idle]

-----------------------------------------------------------------------------
(* Admission: tcp_rpcs_compact_parse_execute                               *)

slotVars == <<state, key, limit, ttl, age, cnt, timeout>>

\* Slots a handshake with key k can match; the code takes the first.
Visible == {s \in Slots : s < cnt /\ state[s] # "FREE"}
Matches(k) == {s \in Visible : key[s] = k}

secret_expired(s) == ttl[s] = 0
secret_over_limit(s) == limit[s] > 0 /\ conns[s] >= limit[s]
Rejects(s) == state[s] = "DRAINING" \/ secret_expired(s) \/ secret_over_limit(s)

Accept(c) ==
  /\ conn[c].phase = "idle"
  /\ conn' = [conn EXCEPT ![c].phase = "new"]
  /\ UNCHANGED <<slotVars, conns>>

\* Mutant: extra_int2 is set when the ClientHello is accepted.
ClientHello_SetsSid(c, k) ==
  /\ conn[c].phase = "new"
  /\ Matches(k) # {}
  /\ ~ Rejects(Min(Matches(k)))
  /\ conn' = [conn EXCEPT ![c] = [phase |-> "tls", key |-> k, sid |-> Min(Matches(k)) + 1]]
  /\ UNCHANGED <<slotVars, conns>>

\* A fake-TLS ClientHello signed with k passes every check and is answered.
\* extra_int2 is not set: the slot is not held yet.
ClientHello(c, k) ==
  /\ conn[c].phase = "new"
  /\ Matches(k) # {}
  /\ ~ Rejects(Min(Matches(k)))
  /\ conn' = [conn EXCEPT ![c].phase = "tls", ![c].key = k]
  /\ UNCHANGED <<slotVars, conns>>

\* proxy_connection: a ClientHello fails a check (these and the replay, quota,
\* IP and cipher checks) or the handshake times out while in_packet_num = -3;
\* the connection becomes a ct_proxy_pass one, which carries no secret.
ProxyConnection(c) ==
  /\ conn[c].phase \in {"new", "tls", "skip"}
  /\ conn' = [conn EXCEPT ![c] = Idle]
  /\ UNCHANGED <<slotVars, conns>>

\* An obfuscated2 header made with k.  Without TLS the checks are made here
\* (extra_int2 goes back to 0 on a rejection); under TLS they were made at the
\* ClientHello and are not repeated, nor is the secret compared with the one
\* that signed the ClientHello.
Obfs2Header(c, k) ==
  /\ conn[c].phase = "tls" => Mixed \/ conn[c].key = k
  /\ LET s == Min(Matches(k)) IN
       \/ /\ Matches(k) = {}
          /\ conn' = [conn EXCEPT ![c].phase = "skip"]
          /\ UNCHANGED conns
       \/ /\ Matches(k) # {}
          /\ conn[c].phase = "new" /\ Rejects(s)
          /\ conn' = [conn EXCEPT ![c].phase = "err"]
          /\ UNCHANGED conns
       \/ /\ Matches(k) # {}
          /\ conn[c].phase = "new" => ~ Rejects(s)
          /\ conn' = [conn EXCEPT ![c] = [phase |-> "open", key |-> k, sid |-> s + 1]]
          /\ conns' = [conns EXCEPT ![s] = @ + 1]
  /\ UNCHANGED slotVars

\* With no visible slot the header is read without a secret and accepted:
\* compact_to_slot[0] was never written, so the slot index is arbitrary.
Obfs2NoSecret(c) ==
  /\ Visible = {}
  /\ \/ conn' = [conn EXCEPT ![c].phase = "open", ![c].key = NoKey] /\ UNCHANGED conns
     \/ \E s \in Slots :
          /\ conn[c].phase = "new" => ~ Rejects(s)
          /\ conn' = [conn EXCEPT ![c] = [phase |-> "open", key |-> NoKey, sid |-> s + 1]]
          /\ conns' = [conns EXCEPT ![s] = @ + 1]
     \/ \E s \in Slots :
          /\ conn[c].phase = "new" /\ Rejects(s)
          /\ conn' = [conn EXCEPT ![c].phase = "err"]
          /\ UNCHANGED conns
  /\ UNCHANGED slotVars

\* The first bytes of a connection, or the first ones under TLS.
Obfs2(c) ==
  /\ conn[c].phase \in {"new", "tls"}
  /\ Obfs2NoSecret(c) \/ \E k \in Keys : Obfs2Header(c, k)

-----------------------------------------------------------------------------
(* Closing: fail_connection, the JS_ABORT job, the close notification      *)

Fail(c) ==
  /\ conn[c].phase \in {"new", "tls", "open", "skip"}
  /\ conn' = [conn EXCEPT ![c].phase = "err"]
  /\ UNCHANGED <<slotVars, conns>>

CloseConnection(c) ==
  /\ conn[c].phase = "err"
  /\ conn' = [conn EXCEPT ![c].phase = "closing"]
  /\ UNCHANGED <<slotVars, conns>>

mtproto_ext_rpc_close(c) ==
  /\ conn[c].phase = "closing"
  /\ conns' = [s \in Slots |-> IF s + 1 = conn[c].sid THEN conns[s] - 1 ELSE conns[s]]
  /\ conn' = [conn EXCEPT ![c] = Idle]
  /\ UNCHANGED slotVars

-----------------------------------------------------------------------------
(* SIGHUP: tcp_rpcs_reload_ext_secrets and tcp_rpcs_drain_set_timeout      *)

\* Mutant: the loops start at slot 0 instead of at ext_secret_pinned.
Loaded_All == 0 .. MaxSlots - 1

Loaded == Pinned .. MaxSlots - 1

\* Mutant: no check against the pinned slots.

\* Config entries that collide with a pinned slot are dropped.
Collides(e) == \E p \in 0 .. Pinned - 1 : key[p] = e.key

\* Mutant: Pass B only looks at ACTIVE slots, a draining secret is not revived.
Matching_Active(e) == {s \in Loaded : state[s] = "ACTIVE" /\ key[s] = e.key}

Matching(e) == {s \in Loaded : state[s] # "FREE" /\ key[s] = e.key}

\* Pass B: the entries that refresh slot s, all of them the first match of
\* their key; the last one in the file wins.
Refreshing(cfg, s) ==
  {i \in DOMAIN cfg : /\ ~ Collides(cfg[i])
                      /\ Matching(cfg[i]) # {}
                      /\ s = Min(Matching(cfg[i]))}

\* Pass D: the entries still unplaced take the FREE slots, lowest first: the
\* n-th such entry the n-th FREE slot.
Unplaced(cfg) == {i \in DOMAIN cfg : ~ Collides(cfg[i]) /\ Matching(cfg[i]) = {}}
FreeSlots == {s \in Loaded : state[s] = "FREE"}
Below(S, x) == Cardinality({y \in S : y < x})
Takers(cfg, s) == {i \in Unplaced(cfg) : Below(Unplaced(cfg), i) = Below(FreeSlots, s)}
Filled(cfg) == {s \in FreeSlots : Takers(cfg, s) # {}}

\* Mutant: a removed secret's slot is freed at once.

NewState(cfg) ==
  [s \in Slots |->
     IF s \notin Loaded THEN state[s]
     ELSE IF Refreshing(cfg, s) # {} \/ s \in Filled(cfg) THEN "ACTIVE"
     ELSE IF state[s] = "ACTIVE" THEN "DRAINING" ELSE state[s]]

\* The entry that gives slot s its metadata.
EntryOf(cfg, s) ==
  cfg[IF s \in Filled(cfg) THEN Min(Takers(cfg, s)) ELSE Max(Refreshing(cfg, s))]
Placed(cfg) == Filled(cfg) \cup {s \in Loaded : Refreshing(cfg, s) # {}}

\* Mutant: the mark is one slot too high.
HighWater_Off(st) == Max({Pinned} \cup {s + 2 : s \in {t \in Loaded : st[t] # "FREE"}})

HighWater(st) == Max({Pinned} \cup {s + 1 : s \in {t \in Loaded : st[t] # "FREE"}})
ActiveTotal(st) == Pinned + Cardinality({s \in Loaded : st[s] = "ACTIVE"})

\* Both error returns leave what the passes did and skip the count update.
\* apply_toml_secrets ignores the result and sets the timeout.
Reload(cfg, to) ==
  /\ state' = NewState(cfg)
  /\ key' = [s \in Slots |-> IF s \in Filled(cfg) THEN EntryOf(cfg, s).key ELSE key[s]]
  /\ limit' = [s \in Slots |-> IF s \in Placed(cfg) THEN EntryOf(cfg, s).limit ELSE limit[s]]
  /\ ttl' = [s \in Slots |-> IF s \in Placed(cfg) THEN EntryOf(cfg, s).ttl ELSE ttl[s]]
  /\ age' = [s \in Slots |-> IF state[s] = "DRAINING" /\ s \notin Placed(cfg)
                               THEN age[s] ELSE 0]
  /\ conns' = [s \in Slots |-> IF s \in Filled(cfg) THEN 0 ELSE conns[s]]
  /\ cnt' = IF \/ Cardinality(Unplaced(cfg)) > Cardinality(FreeSlots)
               \/ ActiveTotal(NewState(cfg)) > MaxActive
              THEN cnt ELSE HighWater(NewState(cfg))
  /\ timeout' = to
  /\ UNCHANGED conn

-----------------------------------------------------------------------------
(* drain_sweep_gw and the helpers it calls                                 *)

Draining == {s \in Loaded : s < cnt /\ state[s] = "DRAINING"}

\* Mutant: the release does not look at per_secret_connections.
Released_Any == Draining

\* tcp_rpcs_drain_release_slot_if_empty
Released == {s \in Draining : conns[s] = 0}

\* Mutant: the drain timeout never fires.
Overdue_Never == {}

\* tcp_rpcs_drain_force_close_for_slot
Overdue == {s \in Draining : conns[s] # 0 /\ timeout > 0 /\ age[s] >= timeout}

DrainSweep ==
  /\ state' = [s \in Slots |-> IF s \in Released THEN "FREE" ELSE state[s]]
  /\ key' = [s \in Slots |-> IF s \in Released THEN NoKey ELSE key[s]]
  /\ limit' = [s \in Slots |-> IF s \in Released THEN 0 ELSE limit[s]]
  /\ ttl' = [s \in Slots |-> IF s \in Released THEN Never ELSE ttl[s]]
  /\ age' = [s \in Slots |-> IF s \in Released THEN 0 ELSE age[s]]
  /\ cnt' = IF Released = {} THEN cnt ELSE HighWater(state')
  /\ conn' = [c \in Conns |->
                IF conn[c].phase = "open" /\ conn[c].sid - 1 \in Overdue
                  THEN [conn[c] EXCEPT !.phase = "err"] ELSE conn[c]]
  /\ UNCHANGED <<conns, timeout>>

\* One second passes.
Tick ==
  /\ age' = [s \in Slots |-> IF state[s] = "DRAINING" /\ age[s] < MaxAge
                               THEN age[s] + 1 ELSE age[s]]
  /\ ttl' = [s \in Slots |-> IF ttl[s] \in Nat \ {0} THEN ttl[s] - 1 ELSE ttl[s]]
  /\ UNCHANGED <<state, key, limit, conns, cnt, timeout, conn>>

-----------------------------------------------------------------------------
ClientStep(c) ==
  \/ Accept(c)
  \/ ProxyConnection(c)
  \/ Fail(c)
  \/ Obfs2(c)
  \/ \E k \in Keys : ClientHello(c, k)

Next ==
  \/ \E c \in Conns : ClientStep(c) \/ CloseConnection(c) \/ mtproto_ext_rpc_close(c)
  \/ \E cfg \in Configs, to \in Timeouts : Reload(cfg, to)
  \/ DrainSweep
  \/ Tick

\* The main loop runs every queued job and every due timer; clients and the
\* operator owe nothing.
Fairness ==
  /\ WF_vars(DrainSweep)
  /\ WF_vars(Tick)
  /\ \A c \in Conns : WF_vars(CloseConnection(c)) /\ WF_vars(mtproto_ext_rpc_close(c))

Spec == Init /\ [][Next]_vars /\ Fairness

-----------------------------------------------------------------------------
(* Properties                                                              *)

Holders(s) == {c \in Conns : conn[c].sid = s + 1}

\* per_secret_connections[s] is exactly the number of connections whose
\* extra_int2 names slot s and whose close notification has not run, however
\* reloads, revivals, releases, forced and ordinary closes interleave.
ConnAccounting == \A s \in Slots : conns[s] = Cardinality(Holders(s))

\* A connection stays with the secret it proved: while extra_int2 names a
\* slot, the slot is not released or given to another secret.
SlotKeepsSecret ==
  \A c \in Conns : \A s \in Slots :
    conn[c].sid = s + 1 => state[s] # "FREE" /\ key[s] = conn[c].key

\* A config without repeated keys never puts one secret into two slots, also
\* when it collides with pinned, draining or half-failed entries.
OneSlotPerSecret ==
  \A s, t \in Slots : state[s] # "FREE" /\ key[s] = key[t] => s = t

\* Pinned -S slots stay active with their key whatever a reload or the sweeper
\* does, and are always visible to lookups.
PinnedServed ==
  /\ cnt >= Pinned
  /\ \A p \in Slots : p < Pinned => state[p] = "ACTIVE" /\ key[p] = PinnedKey[p]

\* A slot changes its secret only through FREE, and leaves the table only from
\* DRAINING with no connection left: nobody is cut off by a reload.
SlotStep ==
  \A s \in Slots :
    state[s] # "FREE" =>
      \/ state'[s] # "FREE" /\ key'[s] = key[s]
      \/ state[s] = "DRAINING" /\ state'[s] = "FREE" /\ Holders(s) = {}
SlotLifecycle == [][SlotStep]_vars

\* A draining slot is eventually released or revived once drain_timeout_secs
\* is positive.
DrainEnds ==
  \A s \in Slots :
    (state[s] = "DRAINING" /\ timeout > 0) ~> (state[s] # "DRAINING" \/ timeout = 0)
=============================================================================
