-------------------------------- MODULE MCEngine --------------------------------
(* Components in which threads, processes, jobs or clients meet: each has  *)
(* a small instance, they share no state, and a behaviour moves one of     *)
(* them.                                                                   *)
EXTENDS ClientLimits, WorkerStats, Socks5Tunnel, MpQueue, MsgBuffers, JobSubclass, JobTimer, TLC

(* No limit; connections, quota and addresses limited; addresses and rate. *)
LimitsOf(limit, quota, addresses, rate) == [limit |-> limit, quota |-> quota, ips |-> addresses, rate |-> rate]
MCSettings == {LimitsOf(0, 0, 0, 0), LimitsOf(2, 4, 1, 0), LimitsOf(0, 0, 2, 1)}

MCSeen == {<<"j1", "s1">>, <<"j2", "s2">>}

(* Pairs of tunnels: both transports; names that lead to local addresses   *)
(* of every kind; clients that ask for what is not supported.              *)
Frame(op, body) == [op |-> op, body |-> body]
Binary(body) == Frame("binary", body)
Lead(addr, accepts) == [addr |-> addr, accepts |-> accepts]
Leads1 ==
  <<Lead(<<10, 1, 1, 1>>, TRUE), Lead(Append(ZeroBytes(15), 1), TRUE),
    Lead(ZeroBytes(10) \o <<255, 255, 172, 31, 0, 1>>, TRUE), Lead(<<8, 8, 4, 4>>, FALSE),
    Lead(<<32, 1>> \o ZeroBytes(14), TRUE)>>
Leads2 ==
  <<Lead(<<254, 191>> \o ZeroBytes(14), TRUE), Lead(<<239, 0, 0, 1>>, TRUE),
    Lead(<<253>> \o ZeroBytes(15), TRUE), Lead(<<192, 168, 0, 1>>, TRUE)>>
Leads3 == <<Lead(<<172, 32, 0, 1>>, TRUE)>>
Script(how, frames, leads) == [how |-> how, frames |-> frames, leads |-> leads]
MCHandovers ==
  {<<Script("ws", <<Binary("noauth"), Binary("connect"), Binary("m1"), Frame("close", "")>>, Leads1),
     Script("ws", <<Binary("password")>>, Leads3)>>,
   <<Script("http", <<Frame("last", "noauth"), Frame("last", "connect"), Frame("last", "m1")>>, Leads3),
     Script("http", <<Frame("last", "noauth"), Frame("last", "connect"), Frame("part", ""), Frame("empty", "")>>, Leads2)>>,
   <<Script("ws", <<Frame("ping", ""), Frame("pong", ""), Binary("noauth"), Binary("badtype")>>, Leads3),
     Script("ws", <<Binary("noauth"), Binary("bind")>>, Leads3)>>}

(* Two threads push to one that polls, as to a connection; one pushes to   *)
(* two that wait, as to the threads of a job class; and one pushes and two *)
(* pop in a queue without semaphore, also when it is empty.                *)
Plan(p, q, pops, by) == [items |-> [p |-> p, q |-> q, x |-> <<>>], pops |-> pops, by |-> by]
Pops(q, x) == [p |-> 0, q |-> q, x |-> x]
MCPlans ==
  {Plan(<<1, 2>>, <<3>>, Pops(0, 1), "nw"), Plan(<<1, 2>>, <<>>, Pops(1, 2), "w"),
   Plan(<<1>>, <<>>, Pops(1, 1), "bare")}

(* Two jobs of one subclass, one of another, one of the class itself.      *)
MCSubJobs == (1 :> 0) @@ (2 :> 0) @@ (3 :> 1) @@ (4 :> -1)
-----------------------------------------------------------------------------
VARIABLE turn      \* the component that moves

engineVars ==
  <<turn, limitVars, topVars, statVars, tunVars, mpqVars, bufVars, subVars, tmVars, heapVars>>

Components == {"limits", "top", "stats", "tunnel", "queue", "buffers", "sublists", "timer", "heap"}

(* A component that does not move has one initial state.                   *)
Pinned(component, state) == turn = component \/ state
AnyOf(S) == CHOOSE e \in S : TRUE

EngineInit ==
  /\ turn \in Components
  /\ LimitInit
  /\ Pinned("limits", setting = AnyOf(Settings) /\ \A p \in Processes : Slots(p) = 1..AnyOf(TableSizes))
  /\ TopInit /\ StatInit
  /\ TunInit /\ Pinned("tunnel", \A t \in Tunnels : tun[t] = NewTunnel(AnyOf(Handovers)[t]))
  /\ MpqInit /\ Pinned("queue", plan = AnyOf(Plans))
  /\ BufInit /\ SubInit /\ TmInit
  /\ HeapInit /\ Pinned("heap", heap = <<>>)

Still(component, variables) == IF turn = component THEN TRUE ELSE UNCHANGED variables

EngineNext ==
  /\ UNCHANGED turn
  /\ Still("limits", limitVars) /\ Still("top", topVars) /\ Still("stats", statVars) /\ Still("tunnel", tunVars)
  /\ Still("queue", mpqVars) /\ Still("buffers", bufVars) /\ Still("sublists", subVars) /\ Still("timer", tmVars)
  /\ Still("heap", heapVars)
  /\ \/ turn = "limits" /\ LimitNext
     \/ turn = "top" /\ TopNext
     \/ turn = "stats" /\ StatNext
     \/ turn = "tunnel" /\ TunNext
     \/ turn = "queue" /\ MpqNext
     \/ turn = "buffers" /\ BufNext
     \/ turn = "sublists" /\ SubNext
     \/ turn = "timer" /\ TmNext
     \/ turn = "heap" /\ HeapNext

EngineSpec == EngineInit /\ [][EngineNext]_engineVars

(* A property is looked at where its component moves.                      *)
Holds(component, property) == turn = component => property


(* The sum of the master consists of whole records, each published by its  *)
(* worker, however writer and reader overlap (update_local_stats_copy,     *)
(* compute_stats_sum); and the table of addresses loses none that still    *)
(* counts (ip_volume_acquire_slot, ip_volume_snapshot).                    *)
StatsRight == Holds("stats", SumWhole) /\ Holds("top", TopRight)

(* Tunnels never exceed their number, never lead to a local address, carry *)
(* every message once in order, and leave no descriptor or count behind    *)
(* (socks5_tunnel_start, relay_thread).                                    *)
TunnelsKept == Holds("tunnel", TunnelsRight)


(* A value that is a thread in one component is an address in another.     *)
Interchangeable == Permutations(Ips) \cup Permutations(Conns)
=============================================================================
