---------------------------- MODULE ClientLimits ----------------------------
(* The limits on the clients of one secret: connections, bytes, addresses  *)
(* and the rate of each address, as every serving process enforces them    *)
(* (net-tcp-rpc-ext-server.c), with the table of addresses behind them.    *)
EXTENDS Integers, Sequences, FiniteSets

CONSTANTS
  Processes,       \* the processes that serve the port
  Ips, Conns,
  Settings,        \* configurations of the secret that a reload may bring
  TableSizes,      \* values for SECRET_MAX_TRACKED_IPS
  Reads,           \* sizes of what is relayed at once
  MaxDelay,        \* the longest pause of a throttled connection
  MaxClock, MaxReloads, MaxUsed, MaxJoins

VARIABLES
  setting, reloads, clk,
  cl,              \* [state, p, ip, pause of the client's and of the DC's side]
  ips,             \* per_secret_ips: the entries in use of each process
  uniq,            \* per_secret_unique_ip_count
  count, used,     \* per_secret_connections, bytes received and sent
  passed, since    \* what was relayed for an entry; [when, how often] it was made and joined

limitVars == <<setting, reloads, clk, cl, ips, uniq, count, used, passed, since>>

-----------------------------------------------------------------------------
(* A forked child sets workers to 0 before it serves anybody.              *)
workers == 0
AtLeast1(n) == IF n < 1 THEN 1 ELSE n
Effective(limit) == AtLeast1(IF workers > 1 THEN limit \div workers ELSE limit)

secret_over_limit(p) == setting.limit > 0 /\ count[p] >= Effective(setting.limit)
secret_over_quota(p, bytes) == setting.quota > 0 /\ bytes >= Effective(setting.quota)

Slots(p) == DOMAIN ips[p]
Empty == [ip |-> "", n |-> 0, tokens |-> 0, at |-> 0]
Entry(p, ip) == {k \in Slots(p) : ips[p][k].n > 0 /\ ips[p][k].ip = ip}
ip_over_limit(p, ip) ==
  setting.ips > 0 /\ Entry(p, ip) = {} /\ uniq[p] >= Effective(setting.ips)

Off == [state |-> "off", p |-> "", ip |-> "", client |-> 0, dc |-> 0]

LimitInit ==
  /\ setting \in Settings /\ reloads = 0 /\ clk = 0
  /\ cl = [c \in Conns |-> Off]
  /\ \E n \in TableSizes : ips = [p \in Processes |-> [k \in 1..n |-> Empty]]
  /\ uniq = [p \in Processes |-> 0] /\ count = [p \in Processes |-> 0] /\ used = [p \in Processes |-> 0]
  /\ passed = [p \in Processes |-> [k \in Slots(p) |-> 0]]
  /\ since = [p \in Processes |-> [k \in Slots(p) |-> [at |-> 0, joined |-> 0]]]

First(S) == CHOOSE k \in S : \A j \in S : k <= j

(* ip_track_connect: the entry of the address, or the first empty one with *)
(* a full bucket; nothing if the table is full or nothing is limited.      *)
Tracked(p, ip) ==
  LET own == Entry(p, ip)
      free == {k \in Slots(p) : ips[p][k].n <= 0}
  IN  IF setting.ips <= 0 /\ setting.rate <= 0 THEN UNCHANGED <<ips, uniq, passed, since>>
      ELSE IF own # {}
      THEN /\ ips' = [ips EXCEPT ![p][First(own)].n = @ + 1]
           /\ since' = [since EXCEPT ![p][First(own)].joined = IF @ = MaxJoins THEN @ ELSE @ + 1]
           /\ UNCHANGED <<uniq, passed>>
      ELSE IF free # {}
      THEN /\ ips' = [ips EXCEPT ![p][First(free)] =
                        IF setting.rate > 0
                        THEN [ip |-> ip, n |-> 1, tokens |-> Effective(setting.rate), at |-> clk]
                        ELSE [@ EXCEPT !.ip = ip, !.n = 1]]
           /\ uniq' = [uniq EXCEPT ![p] = @ + 1]
           /\ passed' = [passed EXCEPT ![p][First(free)] = 0]
           /\ since' = [since EXCEPT ![p][First(free)] = [at |-> clk, joined |-> 1]]
      ELSE UNCHANGED <<ips, uniq, passed, since>>

UntrackedOnce(p, ip) ==
  LET own == Entry(p, ip)
      k == First(own)
  IN  IF own = {} THEN UNCHANGED <<ips, uniq, passed, since>>
      ELSE ips' = [ips EXCEPT ![p][k].n = 0, ![p][k].ip = ""] /\ uniq' = [uniq EXCEPT ![p] = @ - 1]
           /\ UNCHANGED <<passed, since>>

(* ip_track_disconnect_impl; an entry keeps its bucket when it is emptied. *)
Untracked(p, ip) ==
  LET own == Entry(p, ip)
      k == First(own)
  IN  IF own = {} THEN UNCHANGED <<ips, uniq, passed, since>>
      ELSE IF ips[p][k].n = 1
      THEN /\ ips' = [ips EXCEPT ![p][k].n = 0, ![p][k].ip = ""] /\ uniq' = [uniq EXCEPT ![p] = @ - 1]
           /\ passed' = [passed EXCEPT ![p][k] = 0]
           /\ since' = [since EXCEPT ![p][k] = [at |-> 0, joined |-> 0]]
      ELSE ips' = [ips EXCEPT ![p][k].n = @ - 1] /\ UNCHANGED <<uniq, passed, since>>

-----------------------------------------------------------------------------
(* The checks that refuse a client, in their order.                        *)
RefusedBy(p, ip) ==
  secret_over_limit(p) \/ secret_over_quota(p, used[p]) \/ ip_over_limit(p, ip)

(* A client with fake TLS is checked when its hello arrives ...            *)
LimitHello(c, p, ip) ==
  /\ cl[c].state = "off" /\ ~RefusedBy(p, ip)
  /\ cl' = [cl EXCEPT ![c] = [Off EXCEPT !.state = "hello", !.p = p, !.ip = ip]]
  /\ UNCHANGED <<setting, reloads, clk, ips, uniq, count, used, passed, since>>

(* ... and counted when its header does; another one is checked then.      *)
Connect(c, p, ip) ==
  /\ \/ cl[c].state = "hello" /\ cl[c].p = p /\ cl[c].ip = ip
     \/ cl[c].state = "off" /\ ~RefusedBy(p, ip)
  /\ cl' = [cl EXCEPT ![c] = [Off EXCEPT !.state = "on", !.p = p, !.ip = ip]]
  /\ count' = [count EXCEPT ![p] = @ + 1]
  /\ Tracked(p, ip)
  /\ UNCHANGED <<setting, reloads, clk, used>>

Disconnect(c) ==
  /\ cl[c].state # "off" /\ cl' = [cl EXCEPT ![c] = Off]
  /\ IF cl[c].state \in {"on", "failed"}
     THEN /\ count' = [count EXCEPT ![cl[c].p] = @ - 1]
          /\ Untracked(cl[c].p, cl[c].ip)
     ELSE UNCHANGED <<count, ips, uniq, passed, since>>
  /\ UNCHANGED <<setting, reloads, clk, used>>

Refilled(e, rate) ==
  IF e.tokens + (clk - e.at) * rate > rate THEN rate ELSE e.tokens + (clk - e.at) * rate
Ceil(a, b) == (a + b - 1) \div b
Pause(debt, rate) == IF Ceil(debt, rate) > MaxDelay THEN MaxDelay ELSE Ceil(debt, rate)

RateLimited(c, side, n) ==
  LET p == cl[c].p
      own == Entry(p, cl[c].ip)
      k == First(own)
      rate == Effective(setting.rate)
      left == Refilled(ips[p][k], rate) - n
  IN  IF setting.rate <= 0 \/ own = {} THEN UNCHANGED <<cl, ips, passed>>
      ELSE /\ ips' = [ips EXCEPT ![p][k].tokens = left, ![p][k].at = clk]
           /\ passed' = [passed EXCEPT ![p][k] = @ + n]
           /\ cl' = IF left >= 0 THEN cl
                    ELSE [cl EXCEPT ![c][side] = clk + Pause(0 - left, rate)]

(* Data of the client or of its DC, unless that side is paused: counted,   *)
(* and relayed while the quota lasts; otherwise the connection is closed.  *)
Relay(c, side, n) ==
  /\ cl[c].state = "on" /\ cl[c][side] = 0 /\ used[cl[c].p] < MaxUsed
  /\ LET p == cl[c].p
         total == used[p] + n
     IN  /\ used' = [used EXCEPT ![p] = total]
         /\ IF secret_over_quota(p, total)
            THEN /\ cl' = [cl EXCEPT ![c].state = "failed"] /\ UNCHANGED <<ips, passed>>
            ELSE RateLimited(c, side, n)
  /\ UNCHANGED <<setting, reloads, clk, uniq, count, since>>

(* rate_limit_resume, from the alarm of the paused side.                   *)
Resume(c, side) ==
  /\ cl[c][side] > 0 /\ clk >= cl[c][side]
  /\ cl' = [cl EXCEPT ![c][side] = 0]
  /\ UNCHANGED <<setting, reloads, clk, ips, uniq, count, used, passed, since>>

Tick ==
  /\ clk < MaxClock /\ clk' = clk + 1
  /\ UNCHANGED <<setting, reloads, cl, ips, uniq, count, used, passed, since>>

(* A reload keeps the slot of a secret that stays and changes its limits.  *)
Reload(s) ==
  /\ reloads < MaxReloads /\ reloads' = reloads + 1 /\ s # setting /\ setting' = s
  /\ UNCHANGED <<clk, cl, ips, uniq, count, used, passed, since>>

(* A slot that nobody uses is emptied before another secret takes it.      *)
ClearSlot(p) ==
  /\ count[p] = 0 /\ \A c \in Conns : cl[c].p # p
  /\ ips' = [ips EXCEPT ![p] = [k \in Slots(p) |-> Empty]] /\ uniq' = [uniq EXCEPT ![p] = 0]
  /\ UNCHANGED <<setting, reloads, clk, cl, count, used, passed, since>>

LimitNext ==
  \/ \E c \in Conns, p \in Processes, ip \in Ips : LimitHello(c, p, ip) \/ Connect(c, p, ip)
  \/ \E c \in Conns : Disconnect(c)
  \/ \E c \in Conns, side \in {"client", "dc"} : Resume(c, side) \/ \E n \in Reads : Relay(c, side, n)
  \/ Tick
  \/ \E s \in Settings : Reload(s)
  \/ \E p \in Processes : ClearSlot(p)

-----------------------------------------------------------------------------
Live(p, ip) == {c \in Conns : cl[c].state \in {"on", "failed"} /\ cl[c].p = p /\ cl[c].ip = ip}
Roomy(p) == Cardinality(Ips) <= Cardinality(Slots(p))
Most(S) == CHOOSE n \in S : \A m \in S : m <= n

(* The table of addresses stays true to the connections: the number of     *)
(* addresses is the number of entries, no address has two, and an address  *)
(* holds an entry only while it has connections, and no more than it has,  *)
(* whatever a reload switches on or off meanwhile and however full the     *)
(* table was; without a reload and with room it holds exactly as many.     *)
AddressesRight ==
  \A p \in Processes :
    /\ uniq[p] = Cardinality({k \in Slots(p) : ips[p][k].n > 0})
    /\ \A k \in Slots(p) : ips[p][k].n <= Cardinality(Live(p, ips[p][k].ip))
    /\ \A ip \in Ips :
         /\ Cardinality(Entry(p, ip)) <= 1
         /\ reloads = 0 /\ setting.ips + setting.rate > 0 /\ Roomy(p) =>
              \E k \in Slots(p) : ips[p][k].n = Cardinality(Live(p, ip)) /\ (ips[p][k].n = 0 \/ ips[p][k].ip = ip)

(* What is relayed for an address stays within one second's burst, the     *)
(* rate since its entry was made and one read for each side of each        *)
(* connection it made since, as long as the table has room and no pause is *)
(* cut short at MaxDelay.                                                  *)
RateKept ==
  \A p \in Processes : \A k \in Slots(p) :
    LET e == ips[p][k]
        rate == Effective(setting.rate)
        over == 2 * since[p][k].joined * Most(Reads)
    IN  reloads = 0 /\ Roomy(p) /\ e.n > 0 /\ since[p][k].joined < MaxJoins /\ setting.rate > 0
        /\ over <= MaxDelay * rate =>
          passed[p][k] <= rate * (1 + clk - since[p][k].at) + over

-----------------------------------------------------------------------------
(* net-tcp-rpc-ext-top-ips.c: the volume of each address of one secret, in *)
(* a table that forgets idle addresses, and the largest of them for the    *)
(* metrics.                                                                *)
CONSTANTS
  Peers, Links,    \* addresses, connections
  VolumeSize, Stale, \* IP_VOLUME_TABLE_SIZE, IP_VOLUME_STALE_SEC
  TopN,            \* top_ips_per_secret
  MaxBytes, MaxTime

VARIABLES
  volume,          \* ip_volume: a sequence of entries
  link,            \* the address of each connection; None when closed
  lost,            \* addresses that have been without an entry while connected
  time

topVars == <<volume, link, lost, time>>

Nobody == "none"
NoVolume == [ip |-> Nobody, n |-> 0, bytes |-> 0, at |-> 0]
Places == 1..VolumeSize
TopInit ==
  /\ volume = [k \in Places |-> NoVolume] /\ link = [l \in Links |-> Nobody]
  /\ lost = {} /\ time = 0

Lowest(S) == CHOOSE k \in S : \A j \in S : k <= j
Lookup(ip) == {k \in Places : volume[k].ip = ip}

(* ip_volume_acquire_slot: an empty place; else the idle, stale entry with *)
(* the fewest bytes.                                                       *)
InactiveOrNot(k) == volume[k].at < time - Stale
Inactive(k) == volume[k].n <= 0 /\ volume[k].at < time - Stale
AcquireSlot ==
  LET free == {k \in Places : volume[k].ip = Nobody}
      idle == {k \in Places : Inactive(k)}
      least == {k \in idle : \A j \in idle : volume[k].bytes <= volume[j].bytes}
  IN  IF free # {} THEN {Lowest(free)} ELSE IF idle # {} THEN {Lowest(least)} ELSE {}

GetOrCreate(ip) == IF Lookup(ip) # {} THEN {Lowest(Lookup(ip))} ELSE AcquireSlot
EntryAt(k, ip) == IF volume[k].ip = ip THEN volume[k] ELSE [NoVolume EXCEPT !.ip = ip]

Account(ip, dn, bytes) ==
  volume' = [k \in Places |->
    IF k \notin GetOrCreate(ip) THEN volume[k]
    ELSE [EntryAt(k, ip) EXCEPT !.n = @ + dn, !.bytes = @ + bytes, !.at = time]]

AccountConnect(l, ip) ==
  /\ link[l] = Nobody /\ link' = [link EXCEPT ![l] = ip] /\ Account(ip, 1, 0)
  /\ lost' = IF GetOrCreate(ip) = {} THEN lost \cup {ip} ELSE lost
  /\ UNCHANGED time

AccountDisconnect(l) ==
  /\ link[l] # Nobody /\ link' = [link EXCEPT ![l] = Nobody]
  /\ volume' = [k \in Places |->
       IF volume[k].ip # link[l] THEN volume[k]
       ELSE [volume[k] EXCEPT !.n = IF @ > 0 THEN @ - 1 ELSE @, !.at = time]]
  /\ lost' = IF \E m \in Links \ {l} : link[m] = link[l] THEN lost ELSE lost \ {link[l]}
  /\ UNCHANGED time

AccountBytes(l) ==
  /\ link[l] # Nobody /\ \A k \in Places : volume[k].bytes < MaxBytes
  /\ Account(link[l], 0, 1) /\ UNCHANGED <<link, lost, time>>

TimePasses == time < MaxTime /\ time' = time + 1 /\ UNCHANGED <<volume, link, lost>>

TopNext ==
  \/ \E l \in Links, ip \in Peers : AccountConnect(l, ip)
  \/ \E l \in Links : AccountDisconnect(l) \/ AccountBytes(l)
  \/ TimePasses

(* tcp_rpcs_snapshot_top_ips: the largest entry not yet picked, TopN times. *)
Reported(k) == volume[k].ip # Nobody /\ (volume[k].bytes > 0 \/ volume[k].n > 0)
Best(S) == Lowest({k \in S : \A j \in S : volume[k].bytes >= volume[j].bytes})
Snapshot ==
  LET pick[n \in 0..TopN] ==
        IF n = 0 THEN <<>>
        ELSE LET done == pick[n - 1]
                 rest == {k \in Places : Reported(k)} \ {done[i] : i \in DOMAIN done}
             IN  IF Len(done) < n - 1 \/ rest = {} THEN done ELSE Append(done, Best(rest))
  IN  pick[TopN]

-----------------------------------------------------------------------------
Linked(ip) == {l \in Links : link[l] = ip}

(* The metrics are true of the connections: no address has two entries, an *)
(* entry counts no more connections than there are, exactly as many when   *)
(* its address always had an entry since it connected, so that an entry of *)
(* a connected address is never recycled; and the snapshot holds the       *)
(* largest entries, largest first, leaving out none that is larger.        *)
TopRight ==
  /\ \A ip \in Peers :
       /\ Cardinality(Lookup(ip)) <= 1
       /\ \A k \in Lookup(ip) : volume[k].n <= Cardinality(Linked(ip))
       /\ Linked(ip) # {} /\ ip \notin lost =>
            \E k \in Lookup(ip) : volume[k].n = Cardinality(Linked(ip))
  /\ \A i, j \in DOMAIN Snapshot : i < j => volume[Snapshot[i]].bytes >= volume[Snapshot[j]].bytes
  /\ \A k \in Places : Reported(k) /\ (\A i \in DOMAIN Snapshot : Snapshot[i] # k) =>
       Len(Snapshot) = TopN /\ volume[k].bytes <= volume[Snapshot[TopN]].bytes
=============================================================================
