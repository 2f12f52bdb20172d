---------------------------- MODULE DirectRelay ----------------------------
(***************************************************************************)
(* Direct mode: a client connection and the connection to a Telegram DC it *)
(* is paired with.  The two refer to each other through c->extra, each     *)
(* reference counting as one job reference.  A DC connection that fails    *)
(* before its handshake is replaced after a timer; one that fails later    *)
(* takes the client down, and the client takes its DC connection down.     *)
(*                                                                         *)
(* fail_connection only marks a connection; its close handler runs later,  *)
(* as a step of its own.  All clients use one secret.  The DC table does   *)
(* not change after the start, so a DC found once is found by a retry.     *)
(* Statistics counters are left out except the ones a property is about.   *)
(***************************************************************************)
EXTENDS Integers, FiniteSets

CONSTANTS
  Clients, DCs,   \* connection jobs; DCs bounds those alive at one time
  None,           \* c->extra = NULL
  Methods,        \* the server functions c->extra points to before direct mode
  MaxRetries,     \* DIRECT_MAX_RETRIES
  Confs           \* [socks, sync, limit]: socks5_config.enabled, whether every
                  \* address may fail at once on the first try, ext_secret_limit

ASSUME DirectAssumption ==
  /\ IsFiniteSet(Clients)
  /\ None \notin Clients \cup DCs /\ Methods \notin DCs \cup {None}
  /\ MaxRetries \in Nat
  /\ Confs \subseteq [socks : BOOLEAN, sync : BOOLEAN, limit : Nat]

VARIABLES
  cl,       \* client connections
  dc,       \* DC connections
  active,   \* direct_dc_connections_active
  on_secret,    \* per_secret_connections of the secret
  up,       \* the worker has not crashed
  conf      \* the configuration of this behaviour

directVars == <<cl, dc, active, on_secret, up, conf>>

\* st: "ext" is the server type a client has until direct_connect_to_dc changes
\* it.  retry: extra_int.  pend: bytes in c->in.  sig: JS_RUN is pending.
ClientType == [st : {"new", "ext", "direct", "closed"}, extra : DCs \cup {None, Methods},
               retry : 0 .. MaxRetries, timer : BOOLEAN, err : BOOLEAN,
               pend : BOOLEAN, sig : BOOLEAN]

\* st: c->crypto is set in "ready".  err: "net" for a failure of the network,
\* "us" for one this proxy decided on.
DcType == [st : {"free", "connecting", "socks", "ready", "closed"},
           extra : Clients \cup {None}, err : {"ok", "net", "us"}, refs : 0 .. 2]

DirectTypeOK ==
  /\ cl \in [Clients -> ClientType]
  /\ dc \in [DCs -> DcType]
  /\ active \in Nat /\ on_secret \in Int
  /\ up \in BOOLEAN /\ conf \in Confs

NewClient == [st |-> "new", extra |-> None, retry |-> 0, timer |-> FALSE, err |-> FALSE,
              pend |-> FALSE, sig |-> FALSE]
DirectClient == [NewClient EXCEPT !.st = "direct", !.timer = TRUE]   \* the handshake timer is still armed
FreeDc == [st |-> "free", extra |-> None, err |-> "ok", refs |-> 0]

DirectInit ==
  /\ cl = [c \in Clients |-> NewClient]
  /\ dc = [d \in DCs |-> FreeDc]
  /\ active = 0 /\ on_secret = 0 /\ up = TRUE
  /\ conf \in Confs

-----------------------------------------------------------------------------
Open(c) == cl[c].st = "direct" /\ ~ cl[c].err
Alive(d) == dc[d].st \in {"connecting", "socks", "ready"} /\ dc[d].err = "ok"

\* A closed client whose last reference is gone is freed; the record then
\* stands for the next connection.
NoClient(c) ==
  \/ cl[c].st = "new"
  \/ cl[c].st = "closed" /\ ~ cl[c].timer /\ \A d \in DCs : dc[d].extra # c

Undefined ==   \* the outcomes of following the Methods pointer: a crash, or nothing
  /\ up' = FALSE
  /\ UNCHANGED <<cl, dc, active, on_secret, conf>>

fail_connection(r, why) == IF r.err = "ok" THEN [r EXCEPT !.err = why] ELSE r

direct_schedule_retry(r, attempt) ==
  IF attempt >= MaxRetries THEN [r EXCEPT !.err = TRUE]
  ELSE [r EXCEPT !.retry = attempt + 1, !.timer = TRUE]

\* One address of the DC accepts a connect: both ends are linked.
Linked(c, d, r) ==
  /\ dc[d].st = "free"
  /\ cl' = [cl EXCEPT ![c] = [r EXCEPT !.extra = d, !.retry = 0]]
  /\ dc' = [dc EXCEPT ![d] = [st |-> "connecting", extra |-> c, err |-> "ok", refs |-> 2]]
  /\ active' = active + 1

\* direct_connect_to_dc, called when the obfuscated2 header has been accepted and
\* the connection counted.
direct_connect_to_dc(c) ==
  /\ up /\ NoClient(c) /\ on_secret < conf.limit
  /\ on_secret' = on_secret + 1
  /\ \/ \E d \in DCs : Linked(c, d, DirectClient)
     \/ /\ conf.sync         \* every address fails at once; c->extra stays as it was
        /\ cl' = [cl EXCEPT ![c] = direct_schedule_retry([DirectClient EXCEPT !.extra = Methods], 0)]
        /\ UNCHANGED <<dc, active>>
     \/ /\ cl' = [cl EXCEPT ![c] = [NewClient EXCEPT !.st = "ext", !.err = TRUE]]  \* unknown DC
        /\ UNCHANGED <<dc, active>>
  /\ UNCHANGED <<up, conf>>

\* secret_over_limit: the connection is refused before it is counted.
Reject(c) == up /\ NoClient(c) /\ on_secret >= conf.limit /\ UNCHANGED directVars

\* mtproto_ext_rpc_close, for a client whose DC is unknown.
CloseExt(c) ==
  /\ up /\ cl[c].st = "ext" /\ cl[c].err
  /\ cl' = [cl EXCEPT ![c].st = "closed"]
  /\ on_secret' = on_secret - 1
  /\ UNCHANGED <<dc, active, up, conf>>

-----------------------------------------------------------------------------
\* Mutant: the client is not woken up.
tcp_direct_dc_send_obfs2_init_Quiet(d) ==
  /\ dc' = [dc EXCEPT ![d].st = "ready"]
  /\ cl' = cl

tcp_direct_dc_send_obfs2_init(d) ==
  /\ dc' = [dc EXCEPT ![d].st = "ready"]
  /\ cl' = IF dc[d].extra = None THEN cl ELSE [cl EXCEPT ![dc[d].extra].sig = TRUE]

tcp_direct_dc_connected(d) ==
  /\ up /\ Alive(d) /\ dc[d].st = "connecting"
  /\ IF conf.socks THEN dc' = [dc EXCEPT ![d].st = "socks"] /\ cl' = cl
     ELSE tcp_direct_dc_send_obfs2_init(d)
  /\ UNCHANGED <<active, on_secret, up, conf>>

\* The last answer of the SOCKS5 server is positive.
Socks5Done(d) ==
  /\ up /\ Alive(d) /\ dc[d].st = "socks"
  /\ tcp_direct_dc_send_obfs2_init(d)
  /\ UNCHANGED <<active, on_secret, up, conf>>

\* The network fails a DC connection, the SOCKS5 server refuses, or the quota is
\* found exhausted by bytes from the DC.
DcFail(d, why) ==
  /\ up /\ Alive(d)
  /\ why = "us" => dc[d].st # "connecting"
  /\ dc' = [dc EXCEPT ![d] = fail_connection(@, why)]
  /\ UNCHANGED <<cl, active, on_secret, up, conf>>

ClientFail(c) ==
  /\ up /\ Open(c)
  /\ cl' = [cl EXCEPT ![c].err = TRUE]
  /\ UNCHANGED <<dc, active, on_secret, up, conf>>

ClientData(c) ==
  /\ up /\ Open(c)
  /\ cl' = [cl EXCEPT ![c].pend = TRUE, ![c].sig = TRUE]
  /\ UNCHANGED <<dc, active, on_secret, up, conf>>

\* What parse_execute does with the bytes read: keep them, relay them, or fail
\* because there is nothing to wait for or, when relaying, the quota is exhausted.
tcp_direct_client_parse_execute(c, over) ==
  LET r == [cl[c] EXCEPT !.sig = FALSE] IN
  IF ~ r.pend THEN r
  ELSE IF r.extra = None THEN [r EXCEPT !.err = r.retry = 0]
  ELSE IF r.extra = Methods \/ dc[r.extra].st # "ready" THEN r
  ELSE [r EXCEPT !.pend = over, !.err = over]

ClientRun(c) ==
  /\ up /\ Open(c) /\ cl[c].sig
  /\ \/ /\ \E over \in BOOLEAN :
             cl' = [cl EXCEPT ![c] = tcp_direct_client_parse_execute(c, over)]
        /\ UNCHANGED <<dc, active, on_secret, up, conf>>
     \/ cl[c].extra = Methods /\ cl[c].pend /\ Undefined

-----------------------------------------------------------------------------
\* A reference to a DC connection is dropped; without references it is freed.
Decref(r) == IF r.st = "closed" /\ r.refs = 1 THEN FreeDc ELSE [r EXCEPT !.refs = @ - 1]

CountedOut ==
  IF active > 0 THEN active' = active - 1 /\ on_secret' = on_secret - 1
  ELSE UNCHANGED <<active, on_secret>>

PeerFailed(c) ==
  IF cl[c].extra \in DCs
  THEN [dc EXCEPT ![cl[c].extra] = Decref(fail_connection(@, "us"))] ELSE dc

\* tcp_direct_close of a client.
CloseClient(c) ==
  /\ up /\ cl[c].st = "direct" /\ cl[c].err
  /\ \/ /\ CountedOut
        /\ dc' = PeerFailed(c)
        /\ cl' = [cl EXCEPT ![c].st = "closed", ![c].extra = None, ![c].timer = FALSE]
        /\ UNCHANGED <<up, conf>>
     \/ cl[c].extra = Methods /\ Undefined

\* Mutant: the failed try is taken off the count that guards the client's own.
Detach_Counts(d, c) ==
  /\ dc' = [dc EXCEPT ![d] = Decref([@ EXCEPT !.st = "closed", !.extra = None])]
  /\ cl' = [cl EXCEPT ![c] = direct_schedule_retry([@ EXCEPT !.extra = None], cl[c].retry)]
  /\ active' = active - 1
  /\ UNCHANGED on_secret

\* tcp_direct_close of a DC connection before its handshake is complete.  The
\* client may itself be closed already.  Its reference to this connection, if it
\* still has one, is not dropped.
Detach(d, c) ==
  /\ dc' = [dc EXCEPT ![d] = Decref([@ EXCEPT !.st = "closed", !.extra = None])]
  /\ cl' = [cl EXCEPT ![c] = direct_schedule_retry([@ EXCEPT !.extra = None], cl[c].retry)]
  /\ UNCHANGED <<active, on_secret>>

\* tcp_direct_close of any other DC connection: it takes the client with it.
TearDown(d, c) ==
  /\ dc' = [dc EXCEPT ![d] = Decref([@ EXCEPT !.st = "closed", !.extra = None])]
  /\ cl' = [cl EXCEPT ![c].err = TRUE]
  /\ UNCHANGED <<active, on_secret>>

CloseDc(d) ==
  /\ up /\ dc[d].st \notin {"free", "closed"} /\ dc[d].err # "ok"
  /\ LET c == dc[d].extra IN
       IF dc[d].st # "ready" /\ cl[c].retry < MaxRetries THEN Detach(d, c) ELSE TearDown(d, c)
  /\ UNCHANGED <<up, conf>>

\* Mutant: a retry that finds no address is the last one.
direct_retry_dc_connection_Drops(c) ==
  \/ \E d \in DCs : Linked(c, d, [cl[c] EXCEPT !.timer = FALSE])
  \/ /\ cl' = [cl EXCEPT ![c].timer = FALSE]
     /\ UNCHANGED <<dc, active>>

direct_retry_dc_connection(c) ==
  \/ \E d \in DCs : Linked(c, d, [cl[c] EXCEPT !.timer = FALSE])
  \/ /\ cl' = [cl EXCEPT ![c] = direct_schedule_retry([@ EXCEPT !.timer = FALSE], @.retry)]
     /\ UNCHANGED <<dc, active>>

\* Mutant: the alarm does not look whether there is a DC connection.
Alarm_Blind(c) ==
  /\ up /\ cl[c].timer
  /\ IF Open(c) THEN direct_retry_dc_connection(c)
     ELSE cl' = [cl EXCEPT ![c].timer = FALSE] /\ UNCHANGED <<dc, active>>
  /\ UNCHANGED <<on_secret, up, conf>>

\* The timer fires: tcp_direct_client_alarm.  Closed connections ignore it.
Alarm(c) ==
  /\ up /\ cl[c].timer
  /\ IF Open(c) /\ cl[c].extra = None /\ cl[c].retry > 0
     THEN direct_retry_dc_connection(c)
     ELSE cl' = [cl EXCEPT ![c].timer = FALSE] /\ UNCHANGED <<dc, active>>
  /\ UNCHANGED <<on_secret, up, conf>>

\* The service is started again after a crash; all of this state is in memory.
Restart ==
  /\ ~ up
  /\ cl' = [c \in Clients |-> NewClient]
  /\ dc' = [d \in DCs |-> FreeDc]
  /\ active' = 0 /\ on_secret' = 0 /\ up' = TRUE
  /\ UNCHANGED conf

RelayClientStep(c) ==
  \/ direct_connect_to_dc(c) \/ Reject(c) \/ CloseExt(c) \/ ClientFail(c) \/ ClientData(c)
  \/ ClientRun(c) \/ CloseClient(c) \/ Alarm(c)
DcStep(d) ==
  \/ tcp_direct_dc_connected(d) \/ Socks5Done(d) \/ CloseDc(d)
  \/ \E why \in {"net", "us"} : DcFail(d, why)

DirectNext ==
  \/ \E c \in Clients : RelayClientStep(c)
  \/ \E d \in DCs : DcStep(d)
  \/ Restart

DirectSpec == DirectInit /\ [][DirectNext]_directVars

\* A signalled job is run and an armed timer fires.  A connect is answered or
\* times out in the kernel.
DirectFairness ==
  /\ \A c \in Clients : WF_directVars(ClientRun(c)) /\ WF_directVars(CloseClient(c)) /\ WF_directVars(Alarm(c))
  /\ \A d \in DCs : WF_directVars(CloseDc(d)) /\ WF_directVars(tcp_direct_dc_connected(d))

FairDirect == DirectSpec /\ DirectFairness

-----------------------------------------------------------------------------
\* The two ends of a pair agree, across failures and closes of either in any
\* order.  A client's DC connection is not freed and refers back, unless it was
\* closed and took the client down; a DC connection's client refers to it, unless
\* it was closed: no client has two DC connections.  An open client without one has
\* a retry counted and its timer armed, as tcp_direct_client_parse_execute takes
\* for granted ("retry timer will fire").
PairsHold ==
  /\ \A c \in Clients :
       /\ cl[c].extra \in DCs =>
            LET r == dc[cl[c].extra] IN r.extra = c \/ (r.st = "closed" /\ r.refs > 0 /\ cl[c].err)
       /\ Open(c) /\ cl[c].extra = None => cl[c].retry > 0 /\ cl[c].timer
  /\ \A d \in DCs : dc[d].extra # None =>
       cl[dc[d].extra].extra = d \/ cl[dc[d].extra].st = "closed"

Counted == {c \in Clients : cl[c].st \in {"ext", "direct"}}

\* Every counted connection is counted out by the one close handler it ends in
\* (comment at the increment in tcp_rpcs_compact_parse_execute), when the first
\* connect of a client does not fail at once.
CountReturns == up /\ ~ conf.sync => on_secret = Cardinality(Counted)

\* A closed DC connection is freed as soon as its client lets go of it: "a leaked
\* job reference prevents this" (test_direct_e2e.py).
JobsFreed == \A d \in DCs : dc[d].st = "closed" => \E c \in Clients : cl[c].extra = d

RetryMade(c) == (Open(c) /\ cl[c].retry > 0) ~> (~ Open(c) \/ cl[c].retry = 0 \/ ~ up)

\* A scheduled retry is made, or the client is closed (direct-mode.md: "Retry with
\* backoff", tcp_direct_client_alarm).
RetryAlwaysFollows == \A c \in Clients : RetryMade(c)

\* So it is when the first connect of a client does not fail at once.
RetryFollows == ~ conf.sync => \A c \in Clients : RetryMade(c)

\* Bytes deferred while the DC connection was set up are relayed once it is ready:
\* the wake-up of tcp_direct_dc_send_obfs2_init is not lost.  A DC connection does
\* not outlive its client.
PairMoves ==
  \A c \in Clients, d \in DCs :
    /\ (cl[c].pend /\ cl[c].extra = d /\ dc[d].st = "ready") ~> (~ cl[c].pend \/ ~ Open(c) \/ ~ up)
    /\ (dc[d].extra = c /\ cl[c].st = "closed") ~> (dc[d].extra # c \/ ~ up)

(***************************************************************************)
(* Configurations                                                          *)
(***************************************************************************)

Conf(socks, sync, most) == [socks |-> socks, sync |-> sync, limit |-> most]

(* Connects without a proxy that fail at once, and later.                  *)
FailsAtOnce == {Conf(FALSE, TRUE, 1)}
FailsLater == {Conf(FALSE, FALSE, 2)}
=============================================================================
