---------------------------- MODULE Socks5Tunnel ----------------------------
(* net-socks5-tunnel.c: a connection whose header names the tunnel is      *)
(* handed over to a thread of its own, which speaks SOCKS5 with the client *)
(* and then copies data between the client and its target.                 *)
(*                                                                         *)
(* A client's stream is a sequence of frames: WebSocket frames, or the     *)
(* chunks of an HTTP stream.  A read of the thread blocks until a whole    *)
(* frame is there.                                                         *)
EXTENDS Integers, Sequences, FiniteSets, SequencesExt

CONSTANTS
  Tunnels,
  Handovers,         \* each tunnel's client: the transport, what it sends, where the name leads
  Cap,               \* SOCKS5_TUNNEL_MAX_CONCURRENT
  TargetSends        \* how many pieces a target sends

VARIABLES
  tun, counters

tunVars == <<tun, counters>>

NewTunnel(s) ==
  [script |-> s, at |-> "client", sent |-> 0, read |-> 0, stolen |-> FALSE, head |-> FALSE,
   open |-> {}, counted |-> FALSE, target |-> <<>>, toClient |-> <<>>, toTarget |-> <<>>, came |-> 0]

TunInit ==
  /\ \E clients \in Handovers : tun = [t \in Tunnels |-> NewTunnel(clients[t])]
  /\ counters = [active |-> 0, total |-> 0, rejected |-> 0, up |-> 0, down |-> 0]

Frames(t) == tun[t].script.frames
Put(t, s) == tun' = [tun EXCEPT ![t] = s]
Say(s, what) == [s EXCEPT !.toClient = Append(@, what)]

(* The client sends its next frame; it does not wait for an answer. *)
Send(t) ==
  /\ tun[t].sent < Len(Frames(t)) /\ tun[t].at # "gone"
  /\ Put(t, [tun[t] EXCEPT !.sent = @ + 1]) /\ UNCHANGED counters

-----------------------------------------------------------------------------
(* The event loop *)

(* socks5_tunnel_start: no input may be left over; the hard limit; copying *)
(* the ciphers, dup, fcntl or the thread may fail, and then the connection *)
(* is only closed.  send_http_200 is set on an HTTP stream alone, where    *)
(* the answer still waits in out_p (it is flushed only once the cipher is  *)
(* set, in the callback that hands over); otherwise it is what malloc left. *)
HardLimit == counters.active >= 2 * Cap
DropConn(t) == Put(t, [tun[t] EXCEPT !.at = "gone"])
Spawn(t) ==
  \E flag \in BOOLEAN :
    /\ tun[t].script.how = "http" => flag
    /\ Put(t, [tun[t] EXCEPT !.at = "start", !.head = flag, !.open = {"conn", "relay"}])
Start(t) ==
  /\ tun[t].at = "client"
  /\ \/ (tun[t].sent > 0 \/ ~HardLimit) /\ DropConn(t) /\ UNCHANGED counters
     \/ tun[t].sent = 0 /\ HardLimit /\ DropConn(t) /\ counters' = [counters EXCEPT !.rejected = @ + 1]
     \/ tun[t].sent = 0 /\ ~HardLimit /\ Spawn(t) /\ UNCHANGED counters

(* fail_connection only marks the connection: until it is closed, its      *)
(* socket may still take what arrives.                                     *)
Steal(t) ==
  /\ "conn" \in tun[t].open /\ tun[t].read < tun[t].sent
  /\ Put(t, [tun[t] EXCEPT !.read = @ + 1, !.stolen = TRUE]) /\ UNCHANGED counters

CloseConn(t) ==
  /\ "conn" \in tun[t].open
  /\ Put(t, [tun[t] EXCEPT !.open = @ \ {"conn"}]) /\ UNCHANGED counters

-----------------------------------------------------------------------------
(* The thread: talking to the client *)

SendHead(t) ==
  /\ tun[t].at = "start"
  /\ LET s == [tun[t] EXCEPT !.at = "auth"] IN Put(t, IF s.head THEN Say(s, "200") ELSE s)
  /\ UNCHANGED counters

(* socks5_auth, socks5_connect_req; relay_splice from the client's side. *)
Greeted(s, m) ==
  IF m = "noauth" THEN [Say(s, "5,0") EXCEPT !.at = "request"] ELSE [Say(s, "5,255") EXCEPT !.at = "done"]

Requested(s, m) ==
  CASE m = "connect" -> [s EXCEPT !.at = "count"]
    [] m = "bind" -> [Say(s, "5,7") EXCEPT !.at = "done"]
    [] m = "badtype" -> [Say(s, "5,8") EXCEPT !.at = "done"]
    [] OTHER -> [s EXCEPT !.at = "done"]

(* ws_read_decrypt, ld_read_decrypt with hs_recv_chunk: a ping is answered *)
(* and a pong dropped, and the read goes on; the parts of a message in     *)
(* several chunks are kept until the last; anything else, and the end of   *)
(* the stream, ends the tunnel.  What the event loop took is missing from  *)
(* the key stream: the rest decrypts to noise.                             *)
Listening(t) == tun[t].at \in {"auth", "request", "splice"}
Arrived(t) == Listening(t) /\ tun[t].read < tun[t].sent
NextFrame(t) == Frames(t)[tun[t].read + 1]
Meaning(t) == IF tun[t].stolen THEN "noise" ELSE NextFrame(t).body

ReadMessage(t) ==
  /\ Arrived(t) /\ NextFrame(t).op \in {"binary", "last"}
  /\ LET s == [tun[t] EXCEPT !.read = @ + 1]
     IN  Put(t, CASE s.at = "auth" -> Greeted(s, Meaning(t))
                  [] s.at = "request" -> Requested(s, Meaning(t))
                  [] s.at = "splice" -> [s EXCEPT !.toTarget = Append(@, Meaning(t))])
  /\ counters' = IF tun[t].at = "splice" THEN [counters EXCEPT !.up = @ + 1] ELSE counters

ReadControl(t) ==
  /\ Arrived(t) /\ NextFrame(t).op \in {"ping", "pong", "part"}
  /\ LET s == [tun[t] EXCEPT !.read = @ + 1]
     IN  Put(t, IF NextFrame(t).op = "ping" THEN Say(s, "pong") ELSE s)
  /\ UNCHANGED counters

ReadEof(t) ==
  /\ Listening(t)
  /\ \/ tun[t].read < tun[t].sent /\ NextFrame(t).op \in {"close", "text", "empty"}
     \/ tun[t].read = Len(Frames(t))       \* the client has closed
  /\ Put(t, [tun[t] EXCEPT !.at = "done"]) /\ UNCHANGED counters

(* The connection to the client breaks: a read or a write fails. *)
Lost(t) ==
  /\ tun[t].at = "start" \/ Listening(t)
  /\ Put(t, [tun[t] EXCEPT !.at = "done"]) /\ UNCHANGED counters

-----------------------------------------------------------------------------
(* The thread: the target *)

CountBlindly(t) ==
  /\ tun[t].at = "count"
  /\ Put(t, [tun[t] EXCEPT !.at = "connect", !.counted = TRUE])
  /\ counters' = [counters EXCEPT !.active = @ + 1, !.total = @ + 1]

(* The number of tunnels is raised first and checked after. *)
Count(t) ==
  /\ tun[t].at = "count"
  /\ Put(t, [tun[t] EXCEPT !.at = IF counters.active >= Cap THEN "over" ELSE "connect",
                           !.counted = counters.active < Cap])
  /\ counters' = [counters EXCEPT !.active = @ + 1, !.total = IF counters.active < Cap THEN @ + 1 ELSE @]

OverCap(t) ==
  /\ tun[t].at = "over"
  /\ Put(t, [Say(tun[t], "5,5") EXCEPT !.at = "done"])
  /\ counters' = [counters EXCEPT !.active = @ - 1, !.rejected = @ + 1]

(* v4_blocked, sockaddr_blocked: an address is the sequence of its bytes. *)
v4_blocked(a) ==
  \/ a[1] \in {127, 10, 0}
  \/ a[1] = 172 /\ a[2] \div 16 = 1
  \/ a[1] = 192 /\ a[2] = 168
  \/ a[1] = 169 /\ a[2] = 254
  \/ a[1] \div 16 = 14

ZeroBytes(n) == [i \in 1..n |-> 0]
sockaddr_blocked(a) ==
  IF Len(a) = 4 THEN v4_blocked(a)
  ELSE \/ a = Append(ZeroBytes(15), 1)
       \/ a[1] \div 2 = 126
       \/ a[1] = 254 /\ a[2] \div 64 = 2
       \/ a[1] = 255
       \/ SubSeq(a, 1, 12) = ZeroBytes(10) \o <<255, 255>> /\ v4_blocked(SubSeq(a, 13, 16))

(* tcp_connect_target: the first address the name leads to that is not     *)
(* blocked and accepts.                                                    *)
tcp_connect_target(t) ==
  LET found == SelectSeq(tun[t].script.leads, LAMBDA x : ~sockaddr_blocked(x.addr) /\ x.accepts)
  IN  IF found = <<>> THEN <<>> ELSE found[1].addr

ConnectTarget(t) ==
  /\ tun[t].at = "connect"
  /\ LET to == tcp_connect_target(t)
     IN  IF to = <<>>
         THEN /\ Put(t, [Say(tun[t], "5,4") EXCEPT !.at = "done"])
              /\ counters' = [counters EXCEPT !.rejected = @ + 1]
         ELSE /\ \/ Put(t, [Say(tun[t], "5,0") EXCEPT !.at = "splice", !.target = to, !.open = @ \cup {"target"}])
                 \/ Put(t, [tun[t] EXCEPT !.at = "done", !.target = to, !.open = @ \cup {"target"}])  \* the answer fails
              /\ UNCHANGED counters

(* relay_splice from the target's side: data, or the end; the poll times out. *)
FromTarget(t) ==
  /\ tun[t].at = "splice" /\ tun[t].came < TargetSends
  /\ Put(t, [Say(tun[t], "data") EXCEPT !.came = @ + 1])
  /\ counters' = [counters EXCEPT !.down = @ + 1]
SpliceEnds(t) ==
  tun[t].at = "splice" /\ Put(t, [tun[t] EXCEPT !.at = "done"]) /\ UNCHANGED counters

Cleanup(t) ==
  /\ tun[t].at = "done"
  /\ Put(t, [tun[t] EXCEPT !.at = "closed", !.open = @ \ {"relay", "target"}]) /\ UNCHANGED counters
Uncount(t) ==
  /\ tun[t].at = "closed"
  /\ Put(t, [tun[t] EXCEPT !.at = "gone", !.counted = FALSE])
  /\ counters' = IF tun[t].counted THEN [counters EXCEPT !.active = @ - 1] ELSE counters

TunNext ==
  \E t \in Tunnels :
    \/ Send(t) \/ Start(t) \/ Steal(t) \/ CloseConn(t) \/ SendHead(t)
    \/ ReadMessage(t) \/ ReadControl(t) \/ ReadEof(t) \/ Lost(t)
    \/ Count(t) \/ OverCap(t) \/ ConnectTarget(t) \/ FromTarget(t) \/ SpliceEnds(t) \/ Cleanup(t) \/ Uncount(t)

-----------------------------------------------------------------------------
Texts(t) ==
  LET whole == SelectSeq(Frames(t), LAMBDA f : f.op \in {"binary", "last"})
  IN  [i \in DOMAIN whole |-> whole[i].body]

(* Addresses of loopback, private, link-local and multicast networks. *)
LocalNets ==
  {<<<<127, 0, 0, 0>>, 8>>, <<<<10, 0, 0, 0>>, 8>>, <<<<0, 0, 0, 0>>, 8>>, <<<<172, 16, 0, 0>>, 12>>,
   <<<<192, 168, 0, 0>>, 16>>, <<<<169, 254, 0, 0>>, 16>>, <<<<224, 0, 0, 0>>, 4>>}
V4Mapped(n) == <<ZeroBytes(10) \o <<255, 255>> \o n[1], 96 + n[2]>>
LocalNets6 ==
  {<<Append(ZeroBytes(15), 1), 128>>, <<<<252>> \o ZeroBytes(15), 7>>, <<<<254, 128>> \o ZeroBytes(14), 10>>,
   <<<<255>> \o ZeroBytes(15), 8>>} \cup {V4Mapped(n) : n \in LocalNets}
InNetwork(a, n) ==
  /\ Len(a) = Len(n[1])
  /\ \A i \in DOMAIN a :
       LET bits == IF n[2] >= 8 * i THEN 8 ELSE IF n[2] <= 8 * (i - 1) THEN 0 ELSE n[2] - 8 * (i - 1)
       IN  a[i] \div 2^(8 - bits) = n[1][i] \div 2^(8 - bits)

(* The tunnels keep to their limits and do not mix: at most Cap of them    *)
(* are connecting or copying, and the counter is exact but for those about *)
(* to be refused; no tunnel leads to a local address, also not through a   *)
(* name that resolves to several; the target gets what the client sent     *)
(* after its request, in order and without the frames that are not data;   *)
(* the counter of messages agrees; an HTTP client is answered with exactly *)
(* one 200, first; and a tunnel that is gone holds no descriptor.          *)
TunnelsRight ==
  /\ Cardinality({t \in Tunnels : tun[t].counted}) <= Cap
  /\ counters.active = Cardinality({t \in Tunnels : tun[t].counted \/ tun[t].at = "over"})
  /\ counters.up = FoldSet(LAMBDA t, n : n + Len(tun[t].toTarget), 0, Tunnels)
  /\ \A t \in Tunnels :
       /\ tun[t].target # <<>> => \A n \in LocalNets \cup LocalNets6 : ~InNetwork(tun[t].target, n)
       /\ tun[t].toTarget # <<>> => tun[t].target # <<>>
       /\ ~tun[t].stolen => IsPrefix(tun[t].toTarget, SubSeq(Texts(t), 3, Len(Texts(t))))
       /\ tun[t].script.how = "http" =>
            \A i \in DOMAIN tun[t].toClient : (tun[t].toClient[i] = "200") = (i = 1)
       /\ tun[t].at = "gone" => tun[t].open \subseteq {"conn"}
=============================================================================
