----------------------------- MODULE RelayTimer -----------------------------
(***************************************************************************)
(* A client connection that relays: its socket job, its reader, its writer *)
(* with the record delays of net-tcp-drs.c, the rate limit that pauses the *)
(* reader, and the one timer of the connection job they share.             *)
(*                                                                         *)
(* Bytes are counted in chunks; a TLS record carries one chunk.  Time is   *)
(* left out: an armed timer may fire at any moment, and the last record    *)
(* may be recent or more than DRS_RESET_AFTER or DRS_DELAY_RESET_AFTER ago. *)
(***************************************************************************)
EXTENDS Integers

CONSTANTS
  Configs,    \* kinds of connection: relay mode, record delays, rate limit
  Multi,      \* TRUE: socket jobs run in another thread (multithread engine)
  MaxChunks,  \* bound: chunks waiting in each direction
  Burst,      \* DRS_BURST_THRESHOLD in chunks
  Phase2End   \* DRS_PHASE2_END

DRS_DELAY_RECORDS == 1

Config == [mode : {"direct", "middle"}, delays : BOOLEAN, rated : BOOLEAN]

ASSUME RelayConstants ==
  /\ Configs \subseteq Config /\ \A f \in Configs : f.rated => f.mode = "direct"
  /\ Multi \in BOOLEAN
  /\ {MaxChunks, Burst, Phase2End} \subseteq Nat

VARIABLES
  cfg,    \* the connection's kind
  open,   \* FALSE once the connection has failed
  sock,   \* the socket: chunks to read, C_NORD, an edge epoll has to report
  io,     \* where the socket job is: "idle", "check" or "recv"
  iorun,  \* JS_RUN is pending on the socket job
  run,    \* JS_RUN is pending on the connection job
  inq,    \* chunks in in_queue
  outq,   \* chunks in out_queue
  c       \* the connection: buffers, C_STOPREAD, timer armed, drs_state

relayVars == <<cfg, open, sock, io, iorun, run, inq, outq, c>>

Connection ==
  [in : 0..MaxChunks, out : 0..MaxChunks, stop : BOOLEAN, timer : BOOLEAN,
   record_index : 0..2, total_records : 0..Phase2End, delay_pending : BOOLEAN]

Least(a, b) == IF a < b THEN a ELSE b

(* The handshake is done.  Its 10 s timer is still armed in direct mode;   *)
(* otherwise the next turn of the parser's loop has removed it.            *)
Fresh(f) ==
  [in |-> 0, out |-> 0, stop |-> FALSE, timer |-> f.mode = "direct",
   record_index |-> 0, total_records |-> 0, delay_pending |-> FALSE]

RelayInit ==
  /\ cfg \in Configs
  /\ open = TRUE
  /\ sock = [data |-> 0, nord |-> TRUE, edge |-> FALSE]
  /\ io = "idle" /\ iorun = FALSE /\ run = FALSE
  /\ inq = 0 /\ outq = 0
  /\ c = Fresh(cfg)

(* In a single-threaded engine jobs run to completion, one after another.  *)
Turn == Multi \/ io = "idle"

(***************************************************************************)
(* The socket                                                              *)
(***************************************************************************)

SocketData ==
  /\ open /\ sock.data + inq + c.in < MaxChunks
  /\ sock' = [sock EXCEPT !.data = @ + 1, !.edge = TRUE]
  /\ UNCHANGED <<cfg, open, io, iorun, run, inq, outq, c>>

(* net_server_socket_read_write_gateway: client sockets are edge-triggered. *)
EpollEvent ==
  /\ open /\ sock.edge /\ Turn
  /\ sock' = [sock EXCEPT !.nord = FALSE, !.edge = FALSE]
  /\ iorun' = TRUE
  /\ UNCHANGED <<cfg, open, io, run, inq, outq, c>>

SocketRun ==
  /\ open /\ iorun /\ io = "idle"
  /\ iorun' = FALSE /\ io' = "check"
  /\ UNCHANGED <<cfg, open, sock, run, inq, outq, c>>

(* The socket is read while neither C_NORD nor C_STOPREAD is set; C_NORD   *)
(* is set before each readv and cleared if there was something to read.    *)
net_server_socket_reader ==
  /\ open
  /\ \/ /\ io = "check" /\ (sock.nord \/ c.stop)
        /\ io' = "idle"
        /\ UNCHANGED <<sock, inq, run>>
     \/ /\ io = "check" /\ ~ sock.nord /\ ~ c.stop
        /\ io' = "recv" /\ sock' = [sock EXCEPT !.nord = TRUE]
        /\ UNCHANGED <<inq, run>>
     \/ /\ io = "recv" /\ sock.data = 0
        /\ io' = "idle"
        /\ UNCHANGED <<sock, inq, run>>
     \/ /\ io = "recv" /\ sock.data > 0
        /\ io' = "check" /\ sock' = [sock EXCEPT !.data = 0, !.nord = FALSE]
        /\ inq' = inq + sock.data /\ run' = TRUE
  /\ UNCHANGED <<cfg, open, iorun, outq, c>>

(* The other side relays a chunk to the client: out_queue and JS_RUN.      *)
PeerData ==
  /\ open /\ Turn /\ outq + c.out < MaxChunks
  /\ outq' = outq + 1 /\ run' = TRUE
  /\ UNCHANGED <<cfg, open, sock, io, iorun, inq, c>>

(***************************************************************************)
(* The connection job                                                      *)
(***************************************************************************)

(* rate_limit_after_relay, the bucket overdrawn.                           *)
Pause(k) == [k EXCEPT !.stop = TRUE, !.timer = TRUE]

(* cpu_tcp_server_reader and the connection's parse_execute: nothing while *)
(* reading is stopped.  In direct mode everything is relayed, and then the *)
(* rate limit may pause the reader; otherwise the parser removes the timer *)
(* and consumes the packets.                                               *)
cpu_tcp_server_reader(k) ==
  IF k.stop \/ k.in = 0 THEN {k}
  ELSE IF cfg.mode = "middle" THEN {[k EXCEPT !.in = 0, !.timer = FALSE]}
  ELSE LET relayed == [k EXCEPT !.in = 0]
       IN  IF cfg.rated THEN {relayed, Pause(relayed)} ELSE {relayed}

(* Inactivity restarts the record sizing, and longer inactivity the count. *)
Resets(k) ==
  {k, [k EXCEPT !.record_index = 0],
      [k EXCEPT !.record_index = 0, !.total_records = 0]}

DelayNoTimer(k) == [k EXCEPT !.delay_pending = TRUE]

Delay(k) == [k EXCEPT !.delay_pending = TRUE, !.timer = TRUE]

(* cpu_tcp_aes_crypto_ctr128_encrypt_output_drs: nothing while a delay is  *)
(* pending.  Only the first record after a restart of the sizing can be    *)
(* followed by a delay; otherwise everything is written.                   *)
encrypt_output_drs(k) ==
  IF k.delay_pending \/ k.out = 0 THEN {k}
  ELSE {LET first == [d EXCEPT !.out = @ - 1, !.record_index = Least(@ + 1, 2),
                               !.total_records = Least(@ + 1, Phase2End)]
            all == [d EXCEPT !.out = 0, !.record_index = Least(@ + d.out, 2),
                             !.total_records = Least(@ + d.out, Phase2End)]
        IN  IF /\ cfg.delays
               /\ first.out > 0
               /\ first.out <= Burst
               /\ first.total_records < Phase2End
               /\ first.record_index <= DRS_DELAY_RECORDS
            THEN Delay(first)
            ELSE all : d \in Resets(k)}

(* cpu_server_read_write: both queues, the reader, the writer.             *)
read_write(k) ==
  /\ \E r \in cpu_tcp_server_reader([k EXCEPT !.in = @ + inq]) :
       c' \in encrypt_output_drs([r EXCEPT !.out = @ + outq])
  /\ inq' = 0 /\ outq' = 0

ConnectionRun ==
  /\ open /\ run /\ Turn
  /\ run' = FALSE
  /\ read_write(c)
  /\ UNCHANGED <<cfg, open, sock, io, iorun>>

ResumeSilently(k) ==
  /\ k.stop
  /\ c' = [k EXCEPT !.stop = FALSE]
  /\ UNCHANGED <<iorun, inq, outq>>

rate_limit_resume(k) ==
  /\ k.stop
  /\ c' = [k EXCEPT !.stop = FALSE]
  /\ iorun' = TRUE
  /\ UNCHANGED <<inq, outq>>

(* do_connection_job with JS_ALARM: job_timer_check disarms the timer;     *)
(* then tcp_rpcs_ext_drs_alarm, or tcp_direct_client_alarm without TLS.    *)
DrsAlarm ==
  /\ open /\ c.timer /\ Turn
  /\ LET k == [c EXCEPT !.timer = FALSE] IN
     \/ rate_limit_resume(k)
     \/ /\ ~ k.stop /\ k.delay_pending
        /\ read_write([k EXCEPT !.delay_pending = FALSE])
        /\ UNCHANGED iorun
     \/ /\ ~ k.stop /\ ~ k.delay_pending
        /\ c' = k
        /\ UNCHANGED <<iorun, inq, outq>>
  /\ UNCHANGED <<cfg, open, sock, io, run>>

(* The connection fails: a peer goes away, or the quota is used up.        *)
Close ==
  /\ open /\ Turn
  /\ open' = FALSE
  /\ sock' = [data |-> 0, nord |-> TRUE, edge |-> FALSE]
  /\ io' = "idle" /\ iorun' = FALSE /\ run' = FALSE /\ inq' = 0 /\ outq' = 0
  /\ c' = [Fresh(cfg) EXCEPT !.timer = FALSE]
  /\ UNCHANGED cfg

Accept ==
  /\ ~ open
  /\ open' = TRUE
  /\ cfg' \in Configs
  /\ c' = Fresh(cfg')
  /\ UNCHANGED <<sock, io, iorun, run, inq, outq>>

RelayNext ==
  \/ SocketData \/ EpollEvent \/ SocketRun \/ net_server_socket_reader
  \/ PeerData \/ ConnectionRun \/ DrsAlarm \/ Close \/ Accept

RelaySpec == RelayInit /\ [][RelayNext]_relayVars

(***************************************************************************)
(* Properties                                                              *)
(***************************************************************************)

RelayTypeOK ==
  /\ cfg \in Configs /\ open \in BOOLEAN
  /\ sock \in [data : 0..MaxChunks, nord : BOOLEAN, edge : BOOLEAN]
  /\ io \in {"idle", "check", "recv"} /\ {iorun, run} \subseteq BOOLEAN
  /\ {inq, outq} \subseteq 0..MaxChunks
  /\ c \in Connection

(* The rate limit only pauses a connection, reading always resumes, and    *)
(* what the client has sent is read and relayed across pauses: no edge of  *)
(* the edge-triggered socket is missed (rate_limit_resume).                *)
InputMoves ==
  /\ (open /\ c.stop) ~> ~ (open /\ c.stop)
  /\ (open /\ sock.data > 0) ~> (~ open \/ sock.data = 0)
  /\ (open /\ inq > 0) ~> (~ open \/ inq = 0)
  /\ (open /\ c.in > 0) ~> (~ open \/ c.in = 0)

(* While the connection is open and output waits, records keep being       *)
(* written: a delay before a record never becomes a stop of the writer     *)
(* (cpu_tcp_aes_crypto_ctr128_encrypt_output_drs).                         *)
OutputMoves ==
  <>[](open /\ c.out > 0) => []<><<c'.out < c.out + outq>>_relayVars

(* A delay is pending only while its timer is set.                         *)
DelayHasTimer == open /\ c.delay_pending => c.timer

(***************************************************************************)
(* Kinds of connection                                                     *)
(***************************************************************************)

Kind(mode, delays, rated) == [mode |-> mode, delays |-> delays, rated |-> rated]

(* All connections with record delays.                                     *)
Delayed == {Kind("direct", TRUE, TRUE), Kind("middle", TRUE, FALSE)}
=============================================================================
