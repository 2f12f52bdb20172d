----------------------------- MODULE ConnTarget -----------------------------
(***************************************************************************)
(* Connection targets (net-conn-targets.c) and the outbound connections    *)
(* they keep: the configuration holds targets by address and counts its    *)
(* entries in global_refcnt; the job of a target replaces dead connections *)
(* and opens new ones; a target that lost its last entry closes its        *)
(* connections and leaves the table.  A target found again by its address  *)
(* before that is revived.                                                 *)
(*                                                                         *)
(* The engine is single-threaded: a job handler is one step.  Time is      *)
(* abstract: a timer that is set may fire, a reconnect delay may end, and  *)
(* a connection that is not ready may be over its three seconds.           *)
(***************************************************************************)
EXTENDS Integers, FiniteSets

CONSTANTS
  Addrs,        \* the addresses a configuration can name
  NJobs,        \* bound: target jobs that exist at a time
  NConns,       \* file descriptors for outbound connections (max_connection_fd)
  Limits,       \* the min_connections and max_connections of a configuration
  MaxEntries    \* bound: entries of a configuration with the same address

Jobs == 1..NJobs
Conns == 1..NConns
None == 0

ASSUME TargetConstants ==
  /\ None \notin Addrs
  /\ {NJobs, NConns, MaxEntries} \subseteq Nat \ {0}
  /\ Limits # {}
  /\ \A l \in Limits : l.min \in Nat \ {0} /\ l.max \in Nat /\ l.min <= l.max

VARIABLES
  epoll,    \* init_epoll has been called (epoll_fd > 0)
  conf,     \* the entries of CurConf, by address
  tgt,      \* conn_target_info and job state of each target job
  con,      \* connection_info of each outbound connection
  stat      \* the target counters of the connections module

targetVars == <<epoll, conf, tgt, con, stat>>

(* A target job: in the hash table or not, completed or not, its counters, *)
(* its tree of connections, its limits, whether next_reconnect has passed, *)
(* and whether it has a timer or a JS_RUN coming.                          *)
FreeTarget == [addr |-> None, hashed |-> FALSE, completed |-> FALSE, global_refcnt |-> 0,
               tree |-> {}, outbound |-> 0, active |-> 0, ready |-> 0,
               lim |-> CHOOSE l \in Limits : TRUE, due |-> FALSE, timer |-> FALSE, run |-> FALSE]

(* status: connecting, pending (C_READY_PENDING), working, ok (the RPC     *)
(* handshake is over); error is C_ERROR, failed is C_FAILED (closed).      *)
FreeConn == [status |-> "none", target |-> None, error |-> FALSE, failed |-> FALSE]

connection_is_active(c) == con[c].status \in {"working", "ok"}

InHash(a) == {j \in Jobs : tgt[j].hashed /\ tgt[j].addr = a}
FreeJobs == {j \in Jobs : tgt[j] = FreeTarget}
FreeConns == {c \in Conns : con[c] = FreeConn}

TargetInit ==
  /\ epoll = FALSE
  /\ conf = [a \in Addrs |-> 0]
  /\ tgt = [j \in Jobs |-> FreeTarget]
  /\ con = [c \in Conns |-> FreeConn]
  /\ stat = [active |-> 0, inactive |-> 0, ready_targets |-> 0, ready |-> 0]

init_epoll == ~ epoll /\ epoll' = TRUE /\ UNCHANGED <<conf, tgt, con, stat>>

(***************************************************************************)
(* The configuration                                                       *)
(***************************************************************************)

(* create_target once per entry of the new configuration: a target that is *)
(* in the table gets one more reference and the new limits, a missing one  *)
(* is made (in job make[a]) and scheduled.                                 *)
create_targets(new, lim, make) ==
  [j \in Jobs |->
     IF \E a \in DOMAIN make : make[a] = j
     THEN LET a == CHOOSE a \in DOMAIN make : make[a] = j
          IN  [FreeTarget EXCEPT !.addr = a, !.hashed = TRUE, !.global_refcnt = new[a],
                                 !.lim = lim, !.due = TRUE, !.run = TRUE]
     ELSE IF tgt[j].hashed /\ new[tgt[j].addr] > 0
     THEN [tgt[j] EXCEPT !.global_refcnt = @ + new[tgt[j].addr], !.lim = lim]
     ELSE tgt[j]]

(* destroy_target once per entry of the old one: the target that loses its *)
(* last reference is told to run.                                          *)
destroy_targets(T, old) ==
  [j \in Jobs |->
     IF T[j].hashed /\ old[T[j].addr] > 0
     THEN [T[j] EXCEPT !.global_refcnt = @ - old[T[j].addr],
                       !.run = @ \/ T[j].global_refcnt = old[T[j].addr]]
     ELSE T[j]]

Unused(T) == {j \in Jobs : T[j].hashed /\ T[j].global_refcnt = 0}

(* do_reload_config with a file that parses: all targets of the new file   *)
(* are taken, the configurations are swapped, those of the old are let go. *)
do_reload_config(new, lim) ==
  LET missing == {a \in Addrs : new[a] > 0 /\ InHash(a) = {}} IN
  \E make \in [missing -> FreeJobs] :
    LET T1 == create_targets(new, lim, make)
        T2 == destroy_targets(T1, conf)
        revived == Unused(tgt) \ Unused(T1)
        dropped == Unused(T2) \ Unused(T1)
    IN
    /\ \A a, b \in missing : make[a] = make[b] => a = b
    /\ \A a \in missing, j \in FreeJobs \ {make[b] : b \in missing} : make[a] < j
    /\ tgt' = T2
    /\ stat' = [stat EXCEPT !.active = @ + Cardinality(missing) + Cardinality(revived) - Cardinality(dropped),
                            !.inactive = @ - Cardinality(revived) + Cardinality(dropped)]
    /\ conf' = new
    /\ UNCHANGED <<epoll, con>>

(***************************************************************************)
(* The job of a target                                                     *)
(***************************************************************************)

(* destroy_dead_target_connections: connections with C_ERROR leave the     *)
(* tree and the counters; check_ready of the others fails those that took  *)
(* too long (late).                                                        *)
DeadIn(j) == {c \in tgt[j].tree : con[c].error}

destroy_dead_target_connections(j) ==
  [tgt[j] EXCEPT !.tree = @ \ DeadIn(j),
                 !.outbound = @ - Cardinality(DeadIn(j)),
                 !.active = @ - Cardinality({c \in DeadIn(j) : connection_is_active(c)}),
                 !.ready = Cardinality({c \in tgt[j].tree \ DeadIn(j) : con[c].status = "ok"})]

(* The connections check_ready may fail: older than CONNECT_TIMEOUT and    *)
(* still connecting or in their handshake.                                 *)
check_ready_fails(t) == {c \in t.tree : con[c].status # "ok"}

FailAll(cs) == [c \in Conns |-> IF c \in cs THEN [con[c] EXCEPT !.error = TRUE] ELSE con[c]]

ReadyStat(j, t) ==
  LET was == tgt[j].ready IN
  [stat EXCEPT !.ready = @ + t.ready - was,
               !.ready_targets = @ + (IF was = 0 /\ t.ready > 0 THEN 1 ELSE 0)
                                   - (IF was > 0 /\ t.ready = 0 THEN 1 ELSE 0)]

NeedMin(t, bad) == t.lim.min + bad

(* How many connections create_new_connections wants: one more for every   *)
(* failed one, up to the maximum.                                          *)
NeedConnections(t, bad) == IF t.lim.min + bad > t.lim.max THEN t.lim.max ELSE t.lim.min + bad

(* create_new_connections: after the dead are gone, connect until there    *)
(* are enough or an attempt fails; not before next_reconnect unless some   *)
(* connection is active.                                                   *)
create_new_connections(j, t) ==
  \E late \in SUBSET check_ready_fails(t) :
    LET want == NeedConnections(t, Cardinality(late)) - t.outbound IN
    \E new \in SUBSET FreeConns :
      /\ Cardinality(new) <= (IF (t.due \/ t.active > 0) /\ want > 0 THEN want ELSE 0)
      /\ \A c \in new, d \in FreeConns \ new : c < d
      /\ con' = [c \in Conns |-> IF c \in new THEN [FreeConn EXCEPT !.status = "connecting", !.target = j]
                                 ELSE FailAll(late)[c]]
      /\ tgt' = [tgt EXCEPT ![j] = [t EXCEPT !.tree = @ \cup new,
                                             !.outbound = @ + Cardinality(new),
                                             !.due = IF t.due \/ t.active > 0 THEN FALSE ELSE @,
                                             !.timer = TRUE]]
      /\ stat' = ReadyStat(j, t)

(* clean_unused_target and free_target: fail every connection that is      *)
(* left; once the tree is empty, take the target out of the table and      *)
(* complete the job.                                                       *)
FreeAtOnce(j, t) ==
  /\ tgt' = [tgt EXCEPT ![j] = [t EXCEPT !.due = FALSE, !.timer = FALSE, !.hashed = FALSE, !.completed = TRUE]]
  /\ stat' = [ReadyStat(j, t) EXCEPT !.inactive = @ - 1]
  /\ UNCHANGED con

CleanWaiting(j, t) ==
  \/ /\ t.tree # {}
     /\ tgt' = [tgt EXCEPT ![j] = [t EXCEPT !.due = FALSE, !.timer = TRUE]]
     /\ stat' = ReadyStat(j, t) /\ UNCHANGED con
  \/ t.tree = {} /\ FreeAtOnce(j, t)

clean_unused_target(j, t) ==
  \/ /\ t.tree # {}
     /\ con' = FailAll(t.tree)
     /\ tgt' = [tgt EXCEPT ![j] = [t EXCEPT !.due = FALSE, !.timer = TRUE]]
     /\ stat' = ReadyStat(j, t)
  \/ /\ t.tree = {}
     /\ tgt' = [tgt EXCEPT ![j] = [t EXCEPT !.due = FALSE, !.timer = FALSE,
                                            !.hashed = FALSE, !.completed = TRUE]]
     /\ stat' = [ReadyStat(j, t) EXCEPT !.inactive = @ - (IF t.completed THEN 0 ELSE 1)]
     /\ UNCHANGED con

(* do_conn_target_job: JS_ALARM uses up the timer, JS_RUN the signal.      *)
do_conn_target_job(j) ==
  \E op \in {"timer", "run"} :
    /\ tgt[j][op]
    /\ LET t == [destroy_dead_target_connections(j) EXCEPT ![op] = FALSE] IN
       \/ /\ ~ epoll
          /\ tgt' = [tgt EXCEPT ![j] = [@ EXCEPT ![op] = FALSE, !.timer = TRUE]]
          /\ UNCHANGED <<con, stat>>
       \/ epoll /\ t.global_refcnt = 0 /\ clean_unused_target(j, t)
       \/ epoll /\ t.global_refcnt > 0 /\ create_new_connections(j, t)
  /\ UNCHANGED <<epoll, conf>>

(* The job is freed when nothing holds or signals it.                      *)
FinishTarget(j) ==
  /\ tgt[j].completed /\ ~ tgt[j].run
  /\ \A c \in Conns : con[c].target # j
  /\ tgt' = [tgt EXCEPT ![j] = FreeTarget]
  /\ UNCHANGED <<epoll, conf, con, stat>>

(* next_reconnect passes.                                                  *)
ReconnectDue(j) ==
  /\ tgt[j].hashed /\ ~ tgt[j].due
  /\ tgt' = [tgt EXCEPT ![j].due = TRUE]
  /\ UNCHANGED <<epoll, conf, con, stat>>

(***************************************************************************)
(* Outbound connections                                                    *)
(***************************************************************************)

(* The socket is connected: C_READY_PENDING until the connection job runs. *)
(* The socket job may do this after the connection has failed.             *)
socket_connected(c) ==
  /\ con[c].status = "connecting" /\ ~ con[c].failed
  /\ con' = [con EXCEPT ![c].status = "pending"]
  /\ UNCHANGED <<epoll, conf, tgt, stat>>

(* do_connection_job, JS_RUN of a connection that has become ready.        *)
ConnectionReady(c) ==
  /\ con[c].status = "pending" /\ ~ con[c].error
  /\ con' = [con EXCEPT ![c].status = "working"]
  /\ tgt' = [tgt EXCEPT ![con[c].target].active = @ + 1]
  /\ UNCHANGED <<epoll, conf, stat>>

(* The nonce and handshake packets have been exchanged.                    *)
HandshakeDone(c) ==
  /\ con[c].status = "working" /\ ~ con[c].error
  /\ con' = [con EXCEPT ![c].status = "ok"]
  /\ UNCHANGED <<epoll, conf, tgt, stat>>

(* The socket or the protocol fails.                                       *)
fail_connection(c) ==
  /\ con[c].status # "none" /\ ~ con[c].error
  /\ con' = [con EXCEPT ![c].error = TRUE]
  /\ UNCHANGED <<epoll, conf, tgt, stat>>

(* JS_ABORT: cpu_server_close_connection passes the reference to the       *)
(* target on with a JS_RUN.                                                *)
cpu_server_close_connection(c) ==
  /\ con[c].error /\ ~ con[c].failed
  /\ con' = [con EXCEPT ![c] = [@ EXCEPT !.failed = TRUE, !.target = None]]
  /\ tgt' = [tgt EXCEPT ![con[c].target].run = TRUE]
  /\ UNCHANGED <<epoll, conf, stat>>

(* JS_FINISH, after the tree has dropped its reference.                    *)
cpu_server_free_connection(c) ==
  /\ con[c].failed
  /\ \A j \in Jobs : c \notin tgt[j].tree
  /\ con' = [con EXCEPT ![c] = FreeConn]
  /\ UNCHANGED <<epoll, conf, tgt, stat>>

TargetNext ==
  \/ init_epoll
  \/ \E new \in [Addrs -> 0..MaxEntries], lim \in Limits : do_reload_config(new, lim)
  \/ \E j \in Jobs : do_conn_target_job(j) \/ FinishTarget(j) \/ ReconnectDue(j)
  \/ \E c \in Conns :
       \/ socket_connected(c) \/ ConnectionReady(c) \/ HandshakeDone(c)
       \/ fail_connection(c) \/ cpu_server_close_connection(c) \/ cpu_server_free_connection(c)

TargetSpec == TargetInit /\ [][TargetNext]_targetVars

-----------------------------------------------------------------------------
(* Types.                                                                  *)
TargetType ==
  [addr : Addrs \cup {None}, hashed : BOOLEAN, completed : BOOLEAN, global_refcnt : Nat,
   tree : SUBSET Conns, outbound : Nat, active : Nat, ready : Nat,
   lim : Limits, due : BOOLEAN, timer : BOOLEAN, run : BOOLEAN]
ConnType ==
  [status : {"none", "connecting", "pending", "working", "ok"}, target : Jobs \cup {None},
   error : BOOLEAN, failed : BOOLEAN]
TargetTypeOK ==
  /\ epoll \in BOOLEAN /\ conf \in [Addrs -> Nat]
  /\ tgt \in [Jobs -> TargetType] /\ con \in [Conns -> ConnType]
  /\ stat \in [active : Int, inactive : Int, ready_targets : Int, ready : Int]

(* The counters of a target agree with its tree whatever order a connect,  *)
(* a failure, the close handler and the target's job come in, so the       *)
(* decisions made from them (reconnect at once, open more) are right; the  *)
(* statistics agree with the targets (destroy_dead_target_connections,     *)
(* do_connection_job, create_target, destroy_target, free_target).  A      *)
(* connection that has not failed belongs to the tree of a target in the   *)
(* table: targets do not go before their connections.                      *)
ConnectionsCounted ==
  /\ \A j \in Jobs :
       /\ tgt[j].outbound = Cardinality(tgt[j].tree)
       /\ tgt[j].active = Cardinality({c \in tgt[j].tree : connection_is_active(c)})
  /\ stat.inactive = Cardinality(Unused(tgt))
  /\ stat.active = Cardinality({j \in Jobs : tgt[j].hashed}) - stat.inactive
  /\ stat.ready_targets = Cardinality({j \in Jobs : tgt[j].ready > 0})
  /\ \A c \in Conns : con[c].status # "none" /\ ~ con[c].error =>
       con[c].target \in {j \in Jobs : tgt[j].hashed /\ c \in tgt[j].tree}

(* The job opens connections only for a target the configuration uses, and *)
(* never beyond its max_connections, also after a reload that lowers it.   *)
OpensWithinLimit ==
  [][\A j \in Jobs : tgt'[j].outbound > tgt[j].outbound =>
       tgt[j].global_refcnt > 0 /\ tgt'[j].outbound <= tgt[j].lim.max]_targetVars

(* A target that no entry uses is revived by a reload or leaves the table. *)
(* One in use that stays short of min_connections tries again and again:   *)
(* next_reconnect, which only an attempt moves, never stays passed         *)
(* (do_conn_target_job, clean_unused_target, create_new_connections).      *)
TargetsMove ==
  \A j \in Jobs :
    /\ tgt[j].hashed /\ tgt[j].global_refcnt = 0 ~> ~ tgt[j].hashed \/ tgt[j].global_refcnt > 0
    /\ <>[](tgt[j].global_refcnt > 0 /\ tgt[j].outbound < tgt[j].lim.min) => []<>(~ tgt[j].due)
=============================================================================
