------------------------------ MODULE DcTable ------------------------------
(* The addresses of the data centres (mtproto-dc-table.c): the built-in    *)
(* tables, the overrides that the command line and the TOML file give at   *)
(* the start, and what a client's data centre number is looked up as.      *)
EXTENDS Integers, Sequences, FiniteSets, SequencesExt

CONSTANTS
  V4Hosts, V6Hosts, \* hosts of overrides that are addresses
  BadHosts,         \* and hosts that are none
  OverriddenDcs,    \* data centres with overrides, in 1..5
  MaxAddrs,         \* DC_MAX_ADDRS
  MaxGiven,         \* bound: the overrides of a start
  AskedDcs          \* the numbers that clients ask for

VARIABLES
  override_table,   \* sequence of [dc_id, addrs]
  given,            \* the overrides so far, <<dc_id, host>> (history)
  starting,         \* "options" (command line), "toml", "running", "exited"
  ipv6_enabled

dcVars == <<override_table, given, starting, ipv6_enabled>>

(* An address is a tuple, the empty one where there is none.              *)
Addr(v4, v6) == [ipv4 |-> v4, ipv6 |-> v6]
BuiltIn(table, id) == [dc_id |-> id, addrs |-> <<Addr(<<table, 4, id>>, <<table, 6, id>>)>>]
prod_table == [id \in 1..5 |-> BuiltIn("prod", id)]
test_table == [id \in 1..3 |-> BuiltIn("test", id)]
NoEntry == [dc_id |-> 0, addrs |-> <<>>]

DcInit ==
  /\ override_table = <<>> /\ given = <<>>
  /\ starting = "options" /\ ipv6_enabled \in BOOLEAN

Abs(n) == IF n < 0 THEN -n ELSE n
IsTest(id) == Abs(id) >= 10000
Plain(id) == IF IsTest(id) THEN Abs(id) - 10000 ELSE Abs(id)
Origin(n) == IF n > 200 /\ n < 300 THEN n - 200 ELSE n
OverridesOf(id) == SelectSeq(override_table, LAMBDA e : e.dc_id = id)
(* Overrides come before the number of a CDN is reduced to its origin's.   *)
direct_dc_lookup(id) ==
  LET table == IF IsTest(id) THEN test_table ELSE prod_table
      n == Plain(id)
  IN IF OverridesOf(n) # <<>> THEN OverridesOf(n)[1]
     ELSE IF Origin(n) \in DOMAIN table THEN table[Origin(n)] ELSE NoEntry

(* A host that is no address fails after its entry was made.               *)
WithEntry(id) ==
  IF OverridesOf(id) # <<>> THEN override_table ELSE Append(override_table, [dc_id |-> id, addrs |-> <<>>])
Accepted(id, host) ==
  /\ host \notin BadHosts
  /\ OverridesOf(id) = <<>> \/ Len(OverridesOf(id)[1].addrs) < MaxAddrs
direct_dc_override(id, host) ==
  LET table == WithEntry(id)
      i == CHOOSE j \in DOMAIN table : table[j].dc_id = id
      addr == IF host \in V6Hosts THEN Addr(<<>>, <<host>>) ELSE Addr(<<host>>, <<>>)
  IN override_table' =
       IF Accepted(id, host) THEN [table EXCEPT ![i].addrs = Append(@, addr)] ELSE table

(* --dc-override gives up on an override that fails, the TOML file's       *)
(* overrides come after the options and fail in silence.                   *)
DcOverrideOption(id, host) ==
  /\ starting = "options" /\ Len(given) < MaxGiven
  /\ direct_dc_override(id, host)
  /\ given' = Append(given, <<id, host>>)
  /\ starting' = IF Accepted(id, host) THEN "options" ELSE "exited"
  /\ UNCHANGED ipv6_enabled
TomlOverride(id, host) ==
  /\ starting \in {"options", "toml"} /\ Len(given) < MaxGiven
  /\ direct_dc_override(id, host)
  /\ given' = Append(given, <<id, host>>) /\ starting' = "toml"
  /\ UNCHANGED ipv6_enabled

(* Without -6 the proxy uses IPv6 when a connection to data centre 2 can   *)
(* be begun.                                                               *)
direct_dc_probe_ipv6 ==
  /\ starting \in {"options", "toml"} /\ starting' = "running"
  /\ ipv6_enabled' \in {ipv6_enabled, TRUE}
  /\ UNCHANGED <<override_table, given>>

DcHosts == V4Hosts \cup V6Hosts \cup BadHosts
DcNext ==
  \/ \E id \in OverriddenDcs, host \in DcHosts : DcOverrideOption(id, host)
  \/ \E id \in OverriddenDcs, host \in DcHosts : TomlOverride(id, host)
  \/ direct_dc_probe_ipv6

(* The addresses that are tried for a number, in order.                    *)
UsedAddr(addr) == IF ipv6_enabled /\ addr.ipv6 # <<>> THEN addr.ipv6 ELSE addr.ipv4
direct_try_dc_addrs(id) ==
  SelectSeq([i \in DOMAIN direct_dc_lookup(id).addrs |-> UsedAddr(direct_dc_lookup(id).addrs[i])],
            LAMBDA a : a # <<>>)
-----------------------------------------------------------------------------
(* In a running proxy a number is connected as its overrides say, the      *)
(* first MaxAddrs addresses in the order they were given, IPv6 ones only   *)
(* where IPv6 is on; a number nobody overrode has its built-in address,    *)
(* with a media or CDN number that of its origin, a test number that of    *)
(* the test table, and any other none (direct_dc_lookup,                   *)
(* direct_dc_override, direct_try_dc_addrs).                               *)
HostsFor(n) == SelectSeq(given, LAMBDA g : g[1] = n /\ g[2] \notin BadHosts)
FirstHosts(n) == [i \in 1..(IF Len(HostsFor(n)) < MaxAddrs THEN Len(HostsFor(n)) ELSE MaxAddrs) |-> <<HostsFor(n)[i][2]>>]
Deserves(id) ==
  LET n == Abs(id) % 10000
      own == n % 200
      tables == IF Abs(id) >= 10000 THEN [name |-> "test", last |-> 3] ELSE [name |-> "prod", last |-> 5]
  IN IF \E i \in DOMAIN given : given[i][1] = n
     THEN SelectSeq(FirstHosts(n), LAMBDA h : ipv6_enabled \/ h[1] \in V4Hosts)
     ELSE IF own \in 1..tables.last /\ n \div 200 \in {0, 1}
          THEN <<<<tables.name, IF ipv6_enabled THEN 6 ELSE 4, own>>>>
          ELSE <<>>
RoutesRight == starting = "running" => \A id \in AskedDcs : direct_try_dc_addrs(id) = Deserves(id)
-----------------------------------------------------------------------------
(* The latency probes (mtproto-dc-probes.c): a timer of the main thread    *)
(* begins a connection to every data centre each probe_interval, looks at  *)
(* the ones in flight and counts what becomes of them.  Time is a number   *)
(* of ticks.                                                               *)
CONSTANTS
  Probed,           \* DC_PROBE_COUNT: data centres 1..Probed
  ProbeTimeout,     \* PROBE_TIMEOUT_SEC
  Bounds,           \* bucket_bounds, the last is ProbeTimeout
  Intervals,        \* probe_interval
  MaxRounds         \* bound on rounds

VARIABLES
  probe_interval,
  round,            \* [since: ticks after last_probe_start (-1 before it), n: rounds begun]
  probing,          \* [probes, histograms, pending, fds] as the timer leaves it
  in_flight         \* what has become of each connection in flight

dcProbeVars == <<probe_interval, round, probing, in_flight>>

NoProbe == [fd |-> FALSE, age |-> 0]
NoLatency == [bucket |-> [b \in DOMAIN Bounds |-> 0], count |-> 0, sum |-> 0, last |-> 0, failures |-> 0,
              begun |-> 0, seen |-> <<>>]
dc_probes_init ==
  /\ probe_interval \in Intervals /\ round = [since |-> -1, n |-> 0]
  /\ probing = [probes |-> [i \in 1..Probed |-> NoProbe], histograms |-> [i \in 1..Probed |-> NoLatency],
              pending |-> 0, fds |-> 0]
  /\ in_flight = [i \in 1..Probed |-> "waiting"]

(* The steps of the timer, on a state s; seen and begun are history.       *)
BucketsOf(latency) == {b \in DOMAIN Bounds : latency <= Bounds[b]}
RecordInAll(s, i, latency) ==
  [s EXCEPT !.histograms[i] =
     [@ EXCEPT !.count = @ + 1, !.sum = @ + latency, !.last = latency, !.seen = Append(@, latency),
               !.bucket = [b \in DOMAIN @ |-> IF b \in BucketsOf(latency) THEN @[b] + 1 ELSE @[b]]]]
record_latency(s, i, latency) ==
  LET first == {b \in BucketsOf(latency) : \A c \in BucketsOf(latency) : b <= c}
  IN [s EXCEPT !.histograms[i] =
        [@ EXCEPT !.count = @ + 1, !.sum = @ + latency, !.last = latency, !.seen = Append(@, latency),
                  !.bucket = [b \in DOMAIN @ |-> IF b \in first THEN @[b] + 1 ELSE @[b]]]]
Failed(s, i) == [s EXCEPT !.histograms[i].failures = @ + 1]
Close(s, i) == [s EXCEPT !.probes[i] = NoProbe, !.pending = @ - 1, !.fds = @ - 1]
Begun(s, i) == [s EXCEPT !.histograms[i].begun = @ + 1]

HasIpv4(i) ==
  LET addrs == direct_dc_lookup(i).addrs IN addrs # <<>> /\ addrs[1].ipv4 # <<>>
(* What socket and connect answer, and what poll and SO_ERROR say later.   *)
ProbeAnswers == {"waiting", "connected", "error"}
Results == {"immediate", "refused", "in_progress"}
start_probe(s, i, result, late) ==
  IF ~ HasIpv4(i) THEN Failed(Begun(s, i), i)
  ELSE CASE result = "immediate" -> record_latency(Begun(s, i), i, late)
         [] result = "refused" -> Failed(Begun(s, i), i)
         [] OTHER -> [Begun(s, i) EXCEPT !.probes[i] = [fd |-> TRUE, age |-> 0],
                                         !.pending = @ + 1, !.fds = @ + 1]

Order == [i \in 1..Probed |-> i]
RoundKeepsSockets(s, results, late) ==
  FoldLeft(LAMBDA t, i : start_probe(IF t.probes[i].fd THEN Failed(t, i) ELSE t, i, results[i], late), s, Order)
dc_probes_start_round(s, results, late) ==
  FoldLeft(LAMBDA t, i :
             start_probe(IF t.probes[i].fd THEN Failed(Close(t, i), i) ELSE t, i, results[i], late), s, Order)

(* The latency is read later than the clock of the timeout: late ticks.    *)
PollOne(s, i, answers, late) ==
  LET p == s.probes[i]
      unanswered == p.age <= ProbeTimeout /\ answers[i] = "waiting"
  IN IF ~ p.fd \/ unanswered THEN s
     ELSE IF p.age > ProbeTimeout \/ answers[i] = "error" THEN Failed(Close(s, i), i)
     ELSE record_latency(Close(s, i), i, p.age + late)
dc_probes_poll(s, answers, late) ==
  IF s.pending <= 0 THEN s ELSE FoldLeft(LAMBDA t, i : PollOne(t, i, answers, late), s, Order)

(* A round first if one is due, then the look at what is in flight; a      *)
(* connection of this round may have been answered by then.                *)
dc_probes_timer ==
  /\ starting = "running" /\ probe_interval > 0
  /\ \E late \in {0, 1} :
       IF round.since < 0 \/ round.since >= probe_interval
       THEN /\ round.n < MaxRounds
            /\ round' = [since |-> 0, n |-> round.n + 1]
            /\ \E results \in [1..Probed -> Results], answers \in [1..Probed -> ProbeAnswers] :
                 probing' = dc_probes_poll(dc_probes_start_round(probing, results, late), answers, late)
            /\ in_flight' = [i \in 1..Probed |-> "waiting"]
       ELSE /\ probing' = dc_probes_poll(probing, in_flight, late)
            /\ in_flight' = [i \in 1..Probed |-> IF probing'.probes[i].fd THEN in_flight[i] ELSE "waiting"]
            /\ UNCHANGED round
  /\ UNCHANGED <<probe_interval, dcVars>>

(* The network answers a connection in flight.                             *)
ProbeAnswered(i, how) ==
  /\ probing.probes[i].fd /\ in_flight[i] = "waiting"
  /\ in_flight' = [in_flight EXCEPT ![i] = how]
  /\ UNCHANGED <<probe_interval, round, probing, dcVars>>

(* Time stands still once it makes no further difference.                  *)
Later(n, limit) == IF n < 0 \/ n > limit THEN n ELSE n + 1
TimePasses ==
  /\ round.since >= 0 /\ (round.since <= probe_interval \/ \E i \in 1..Probed : probing.probes[i].fd)
  /\ round' = [round EXCEPT !.since = Later(@, probe_interval)]
  /\ probing' = [probing EXCEPT !.probes =
                 [i \in 1..Probed |-> IF @[i].fd THEN [@[i] EXCEPT !.age = Later(@, ProbeTimeout)] ELSE @[i]]]
  /\ UNCHANGED <<probe_interval, in_flight, dcVars>>

DcProbesNext ==
  \/ dc_probes_timer
  \/ \E i \in 1..Probed, how \in ProbeAnswers \ {"waiting"} : ProbeAnswered(i, how)
  \/ TimePasses

(* What the statistics show: cumulative buckets.                           *)
Cumulative(h, b) == FoldLeft(LAMBDA n, c : n + h.bucket[c], 0, [c \in 1..b |-> c])
-----------------------------------------------------------------------------
(* Every probe begun is counted once, as a latency or as a failure, or is  *)
(* in flight; probes_pending is the number in flight and of sockets held;  *)
(* and the cumulative buckets, sum and last value shown are those of the   *)
(* latencies measured (start_probe, dc_probes_poll, dc_probes_start_round, *)
(* dc_probes_write_prometheus).                                            *)
InFlight == {i \in 1..Probed : probing.probes[i].fd}
ProbesCounted ==
  /\ probing.pending = Cardinality(InFlight) /\ probing.fds = Cardinality(InFlight)
  /\ \A i \in 1..Probed :
       LET h == probing.histograms[i]
           seen == DOMAIN h.seen
       IN /\ h.begun = h.count + h.failures + IF i \in InFlight THEN 1 ELSE 0
          /\ \A b \in DOMAIN Bounds : Cumulative(h, b) = Cardinality({k \in seen : h.seen[k] <= Bounds[b]})
          /\ h.count = Len(h.seen) /\ h.sum = FoldLeft(LAMBDA n, l : n + l, 0, h.seen)
          /\ seen # {} => h.last = Last(h.seen)
=============================================================================
