------------------------------ MODULE ExtConn ------------------------------
(***************************************************************************)
(* Relay mode: the table of external connections that joins a client to a  *)
(* connection to a middle proxy (mtproto-proxy.c, mtproto-proxy-http.c,    *)
(* net-thread.c).                                                          *)
(*                                                                         *)
(* Connections are closed by their own jobs; the table is touched by       *)
(* engine jobs only: the notification job, one job for every packet of a   *)
(* client and one for every packet of a middle proxy, run in the order in  *)
(* which they were queued.  The table remembers descriptors and            *)
(* generations, and the kernel gives descriptors out again.                *)
(***************************************************************************)
EXTENDS Integers, Sequences

CONSTANTS
  Fds,         \* descriptors
  NConns,      \* bound: connections in the life of the process
  MaxPackets,  \* bound: packets of a client
  MaxQueue     \* bound: engine jobs queued when a packet arrives

ASSUME ExtAssumption == NConns \in Nat

Conns == 1..NConns   \* a connection is named by its generation
NoExt == [in_gen |-> 0, out |-> 0, id |-> <<0, 0>>]
N == [op |-> "notify"]

VARIABLES
  con,        \* connections
  ext,        \* the external connection of a descriptor (ExtConnectionHead[fd].i_next)
  next_id,    \* how many ids the slot of a descriptor has given (OutExtConnections)
  lru,        \* descriptors whose external connection is in ConnLRU
  jobs,       \* engine jobs
  events,     \* the queue of the notification job
  asked,      \* queries each middle-proxy connection got: id, true sender, owner of the entry
  delivered   \* by the last step: receiver of an answer, true sender of the query

extVars == <<con, ext, next_id, lru, jobs, events, asked, delivered>>

Unborn == [kind |-> "none", fd |-> 0, st |-> "none", sock |-> FALSE, hs |-> FALSE,
           tag |-> FALSE, dropped |-> FALSE, packets |-> 0, forwarded |-> FALSE]

ExtInit ==
  /\ con = [g \in Conns |-> Unborn]
  /\ ext = [f \in Fds |-> NoExt] /\ next_id = [f \in Fds |-> 0] /\ lru = {}
  /\ jobs = <<>> /\ events = <<>>
  /\ asked = [g \in Conns |-> {}] /\ delivered = {}

(* A connection lives, and keeps its descriptor, until its socket job is   *)
(* done and no event and no engine job refers to it (JS_FINISH).           *)
Released(g) ==
  /\ con[g].st = "closed" /\ ~ con[g].sock
  /\ \A i \in 1..Len(events) : events[i].who # g
  /\ \A i \in 1..Len(jobs) : jobs[i] = N \/ jobs[i].conn # g

InUse == {con[g].fd : g \in {h \in Conns : con[h].st # "none" /\ ~ Released(h)}}

(* connection_get_by_fd_generation finds the connection while its socket   *)
(* has no error.                                                           *)
Reachable(g) == g \in Conns /\ con[g].sock

(* fail_connection *)
Failed(C, S) == [g \in Conns |-> IF g \in S /\ C[g].st = "open" THEN [C[g] EXCEPT !.st = "failed"] ELSE C[g]]

notification_event_insert_conn(type, g) ==
  /\ events' = Append(events, [type |-> type, who |-> g])
  /\ jobs' = IF \E i \in 1..Len(jobs) : jobs[i] = N THEN jobs ELSE Append(jobs, N)

(***************************************************************************)
(* Connections                                                             *)
(***************************************************************************)

IsNext(g) == con[g].st = "none" /\ \A h \in Conns : h < g => con[h].st # "none"

(* A client is accepted (tcp_rpcs_init_accepted_nohs).                     *)
AcceptClient(g, f) ==
  /\ IsNext(g) /\ f \notin InUse
  /\ con' = [con EXCEPT ![g] = [Unborn EXCEPT !.kind = "client", !.fd = f, !.st = "open", !.sock = TRUE]]
  /\ notification_event_insert_conn("ready", g)
  /\ delivered' = {} /\ UNCHANGED <<ext, next_id, lru, asked>>

(* A connection to a middle proxy is made; its RPC handshake ends later.   *)
ConnectMiddle(g, f) ==
  /\ IsNext(g) /\ f \notin InUse
  /\ con' = [con EXCEPT ![g] = [Unborn EXCEPT !.kind = "middle", !.fd = f, !.st = "open", !.sock = TRUE]]
  /\ delivered' = {} /\ UNCHANGED <<ext, next_id, lru, jobs, events, asked>>

HandshakeDone(g) ==
  /\ con[g].kind = "middle" /\ con[g].st = "open" /\ ~ con[g].hs
  /\ con' = [con EXCEPT ![g].hs = TRUE]
  /\ notification_event_insert_conn("ready", g)
  /\ delivered' = {} /\ UNCHANGED <<ext, next_id, lru, asked>>

(* fail_connection for a reason of the connection's own: bad data, too     *)
(* much data buffered, a timeout, a drained secret.                        *)
FailConnection(g) ==
  /\ con[g].st = "open" /\ con' = Failed(con, {g})
  /\ delivered' = {} /\ UNCHANGED <<ext, next_id, lru, jobs, events, asked>>

(* The peer closes or the socket breaks.                                   *)
fail_socket_connection(g) ==
  /\ con[g].sock
  /\ con' = [Failed(con, {g}) EXCEPT ![g].sock = FALSE]
  /\ delivered' = {} /\ UNCHANGED <<ext, next_id, lru, jobs, events, asked>>

(* JS_ABORT of the connection: tcp_rpcs_close_connection or                *)
(* tcp_rpcc_close_connection.                                              *)
close_connection(g) ==
  /\ con[g].st = "failed"
  /\ con' = [con EXCEPT ![g].st = "closed", ![g].hs = FALSE, ![g].packets = 0]
  /\ asked' = [asked EXCEPT ![g] = {}]
  /\ notification_event_insert_conn("close", g)
  /\ delivered' = {} /\ UNCHANGED <<ext, next_id, lru>>

(***************************************************************************)
(* The table                                                               *)
(***************************************************************************)

(* remove_ext_connection for the external connections of descriptors F.    *)
remove_ext_connections(F) ==
  /\ ext' = [f \in Fds |-> IF f \in F THEN NoExt ELSE ext[f]]
  /\ lru' = lru \ F

(* mtproto_ext_rpc_close takes whatever the descriptor has.                *)
ByInFd(g) == {f \in {con[g].fd} : ext[f] # NoExt}

(* mtfront_client_close takes all that go out through the connection.      *)
ByOut(d) == {f \in Fds : ext[f].out = d}

(***************************************************************************)
(* Engine jobs                                                             *)
(***************************************************************************)

(* mtproto_ext_rpc_ready only moves an entry of this client in the LRU;    *)
(* mtfront_client_ready opens the connection's list.                       *)
rpc_ready(g) ==
  /\ con' = [con EXCEPT ![g].tag = con[g].kind = "middle"]
  /\ lru' = IF con[g].kind = "client" /\ ext[con[g].fd].in_gen = g THEN lru \cup {con[g].fd} ELSE lru
  /\ UNCHANGED ext

CloseKeepsEntries(g) ==
  con' = [con EXCEPT ![g].tag = FALSE] /\ UNCHANGED <<ext, lru>>

(* mtfront_client_close: the clients of the lost connection are failed.    *)
mtfront_client_close(g) ==
  LET F == IF con[g].tag THEN ByOut(g) ELSE {} IN
  /\ con' = [Failed(con, {h \in {ext[f].in_gen : f \in F} : Reachable(h)}) EXCEPT ![g].tag = FALSE]
  /\ remove_ext_connections(F)

mtproto_ext_rpc_close(g) ==
  remove_ext_connections(ByInFd(g)) /\ UNCHANGED con

(* notification_event_run handles the events one by one until none is left *)
run_notification_event ==
  /\ jobs # <<>> /\ Head(jobs) = N /\ events # <<>>
  /\ events' = Tail(events)
  /\ LET e == Head(events) IN
       \/ e.type = "ready" /\ rpc_ready(e.who)
       \/ e.type = "close" /\ con[e.who].kind = "middle" /\ mtfront_client_close(e.who)
       \/ e.type = "close" /\ con[e.who].kind = "client" /\ mtproto_ext_rpc_close(e.who)
  /\ delivered' = {} /\ UNCHANGED <<next_id, jobs, asked>>

notification_event_done ==
  /\ jobs # <<>> /\ Head(jobs) = N /\ events = <<>>
  /\ jobs' = Tail(jobs)
  /\ delivered' = {} /\ UNCHANGED <<con, ext, next_id, lru, events, asked>>

(* ext_rpcs_execute: a packet of a client becomes an engine job.           *)
ext_rpcs_execute(g) ==
  /\ con[g].kind = "client" /\ con[g].st = "open"
  /\ con[g].packets < MaxPackets /\ Len(jobs) < MaxQueue
  /\ con' = [con EXCEPT ![g].packets = @ + 1]
  /\ jobs' = Append(jobs, [op |-> "query", conn |-> g, id |-> <<0, 0>>, of |-> g])
  /\ delivered' = {} /\ UNCHANGED <<ext, next_id, lru, events, asked>>

(* Connections the target has to offer: handshake done, no error, and the  *)
(* ready notification handled.  The random choice may miss them.           *)
ChosenConns == {d \in Conns : con[d].kind = "middle" /\ con[d].hs /\ con[d].st = "open" /\ con[d].tag}

(* The id of the next external connection of a descriptor: slots are the   *)
(* descriptors (in_conn_id is always 0), and a slot's ids only grow.       *)
NewId(f) == <<f, next_id[f] + 1>>

Send(g, d, id, owner) ==
  /\ asked' = [asked EXCEPT ![d] = @ \cup {[id |-> id, of |-> g, owner |-> owner]}]
  /\ con' = [con EXCEPT ![g].forwarded = ~ @]

(* The query goes where the earlier ones went, under the id of the entry   *)
(* the descriptor has.                                                     *)
ForwardAgain(g, f) ==
  /\ ext[f] # NoExt /\ Reachable(ext[f].out)
  /\ Send(g, ext[f].out, ext[f].id, ext[f].in_gen)
  /\ lru' = IF ext[f].in_gen = g THEN lru \cup {f} ELSE lru
  /\ UNCHANGED <<ext, next_id>>

(* No entry, or its connection is gone or has been given up by its target. *)
Unbound(f) == ~ \E d \in Conns : ext[f].out = d /\ con[d].sock /\ con[d].st = "open"

DropQuery(g, f) ==
  /\ Unbound(f)
  /\ con' = [con EXCEPT ![g].dropped = TRUE]
  /\ remove_ext_connections({f}) /\ UNCHANGED <<next_id, asked>>

RefuseAfterDrop(g, f) ==
  /\ Unbound(f) /\ ChosenConns # {} /\ con[g].dropped
  /\ con' = Failed(con, {g})
  /\ remove_ext_connections({f}) /\ UNCHANGED <<next_id, asked>>

ForwardAlways(g, f) ==
  /\ Unbound(f)
  /\ \E d \in ChosenConns :
       /\ ext' = [ext EXCEPT ![f] = [in_gen |-> g, out |-> d, id |-> NewId(f)]]
       /\ Send(g, d, NewId(f), g)
  /\ next_id' = [next_id EXCEPT ![f] = @ + 1] /\ lru' = lru \ {f}

ForwardFirst(g, f) ==
  /\ Unbound(f) /\ ~ con[g].dropped
  /\ \E d \in ChosenConns :
       /\ ext' = [ext EXCEPT ![f] = [in_gen |-> g, out |-> d, id |-> NewId(f)]]
       /\ Send(g, d, NewId(f), g)
  /\ next_id' = [next_id EXCEPT ![f] = @ + 1] /\ lru' = lru \ {f}

forward_tcp_query(g) ==
  LET f == con[g].fd IN
    \/ ForwardAgain(g, f)
    \/ DropQuery(g, f)
    \/ RefuseAfterDrop(g, f)
    \/ ForwardFirst(g, f)

(* forward_mtproto_packet ignores a packet it does not like.               *)
IgnorePacket(g) ==
  /\ lru' = IF ext[con[g].fd].in_gen = g THEN lru \cup {con[g].fd} ELSE lru
  /\ UNCHANGED <<con, ext, next_id, asked>>

do_rpcs_execute ==
  /\ jobs # <<>> /\ Head(jobs).op = "query"
  /\ forward_tcp_query(Head(jobs).conn) \/ IgnorePacket(Head(jobs).conn)
  /\ jobs' = Tail(jobs)
  /\ delivered' = {} /\ UNCHANGED <<events>>

(* rpcc_execute: RPC_PROXY_ANS, RPC_SIMPLE_ACK or RPC_CLOSE_EXT for an id  *)
(* the middle proxy has seen on this connection.                           *)
rpcc_execute(d) ==
  /\ con[d].kind = "middle" /\ con[d].st = "open" /\ Len(jobs) < MaxQueue
  /\ \E q \in asked[d], op \in {"answer", "close_ext"} :
       jobs' = Append(jobs, [op |-> op, conn |-> d, id |-> q.id, of |-> q.of])
  /\ delivered' = {} /\ UNCHANGED <<con, ext, next_id, lru, events, asked>>

find_ext_connection_by_out_conn_id(id) == {f \in Fds : ext[f] # NoExt /\ ext[f].id = id}

ReceiversByFd(j) ==
  {g \in Conns : con[g].sock /\ \E f \in find_ext_connection_by_out_conn_id(j.id) : f = con[g].fd}

(* An answer reaches a client only through an entry of the connection it   *)
(* came by, if the descriptor still belongs to the entry's client.         *)
Receivers(j) ==
  {ext[f].in_gen : f \in {h \in find_ext_connection_by_out_conn_id(j.id) :
                            ext[h].out = j.conn /\ Reachable(ext[h].in_gen)}}

process_proxy_ans ==
  /\ jobs # <<>> /\ Head(jobs).op = "answer"
  /\ delivered' = {[to |-> g, of |-> Head(jobs).of] : g \in Receivers(Head(jobs))}
  /\ jobs' = Tail(jobs)
  /\ UNCHANGED <<con, ext, next_id, lru, events, asked>>

process_close_ext ==
  /\ jobs # <<>> /\ Head(jobs).op = "close_ext"
  /\ LET F == find_ext_connection_by_out_conn_id(Head(jobs).id) IN
       /\ con' = Failed(con, {h \in {ext[f].in_gen : f \in F} : Reachable(h)})
       /\ remove_ext_connections(F)
  /\ jobs' = Tail(jobs)
  /\ delivered' = {} /\ UNCHANGED <<next_id, events, asked>>

(* Cron closes clients, the longest idle first, when buffers run out.      *)
check_all_conn_buffers ==
  /\ \E F \in SUBSET lru \ {{}} :
       /\ con' = Failed(con, {h \in {ext[f].in_gen : f \in F} : Reachable(h)})
       /\ lru' = lru \ F
  /\ delivered' = {} /\ UNCHANGED <<ext, next_id, jobs, events, asked>>

ExtNext ==
  \/ \E g \in Conns, f \in Fds : AcceptClient(g, f) \/ ConnectMiddle(g, f)
  \/ \E g \in Conns : HandshakeDone(g) \/ FailConnection(g) \/ fail_socket_connection(g) \/ close_connection(g)
  \/ \E g \in Conns : ext_rpcs_execute(g) \/ rpcc_execute(g)
  \/ run_notification_event \/ notification_event_done
  \/ do_rpcs_execute \/ process_proxy_ans \/ process_close_ext
  \/ check_all_conn_buffers

ExtSpec == ExtInit /\ [][ExtNext]_extVars

-----------------------------------------------------------------------------
(* Types.  A query of a client carries no id.                              *)
Ids == (Fds \cup {0}) \X Nat
ConType ==
  [kind : {"none", "client", "middle"}, fd : Fds \cup {0}, st : {"none", "open", "failed", "closed"},
   sock : BOOLEAN, hs : BOOLEAN, tag : BOOLEAN, dropped : BOOLEAN, packets : Nat, forwarded : BOOLEAN]
EntryType == [in_gen : {0} \cup Conns, out : {0} \cup Conns, id : Ids]
JobType == {N} \cup [op : {"query", "answer", "close_ext"}, conn : Conns, id : Ids, of : Conns]
EventType == [type : {"ready", "close"}, who : Conns]
ExtTypeOK ==
  /\ con \in [Conns -> ConType] /\ ext \in [Fds -> EntryType]
  /\ next_id \in [Fds -> Nat] /\ lru \subseteq Fds
  /\ jobs \in Seq(JobType) /\ events \in Seq(EventType)
  /\ asked \in [Conns -> SUBSET [id : Ids, of : Conns, owner : Conns]]
  /\ delivered \subseteq [to : Conns, of : Conns]

(* No answer reaches a client that did not ask: ids are never given out    *)
(* again and descriptors are checked with their generation, so an answer   *)
(* that is late finds nobody (process_client_packet).                      *)
NoCrossTalk == \A a \in delivered : a.to = a.of

(* "There was at least one dropped inbound packet on this connection, have *)
(* to close it now instead of forwarding next queries": a client that lost *)
(* a query gets no later one forwarded (forward_tcp_query).                *)
DroppedStaysSilent ==
  [][\A g \in Conns : con[g].dropped => con'[g].forwarded = con[g].forwarded]_extVars

(* The assertions of the table: an entry goes out through a connection     *)
(* whose list is open, no two open lists share a descriptor, the LRU holds *)
(* entries only, and nobody is both ends.  What an open client has asked   *)
(* can be answered as long as the connection it went to is open: the entry *)
(* is still there.  This is for queries sent under the client's own entry. *)
(* A packet handled after its sender's close notification leaves an entry  *)
(* behind, and the next client of the descriptor sends its queries under   *)
(* that one (forward_tcp_query, remove_ext_connection).                    *)
TableKept ==
  /\ \A f \in Fds : ext[f] # NoExt =>
       con[ext[f].out].tag /\ con[ext[f].in_gen].fd = f /\ ext[f].in_gen # ext[f].out
  /\ \A d, e \in Conns : con[d].tag /\ con[e].tag /\ d # e => con[d].fd # con[e].fd
  /\ \A f \in lru : ext[f] # NoExt
  /\ \A d, g \in Conns : \A q \in asked[d] :
       q.of = g /\ q.owner = g /\ con[g].st = "open" /\ con[d].st = "open" =>
         ext[con[g].fd] = [in_gen |-> g, out |-> d, id |-> q.id]
=============================================================================
