---------------------------- MODULE RpcHandshake ----------------------------
(***************************************************************************)
(* The RPC protocol between the proxy and a middle proxy: client end       *)
(* (net-tcp-rpc-client.c), server end (net-tcp-rpc-server.c) and what they *)
(* share (net-tcp-rpc-common.c, net-crypto-aes.c).                         *)
(*                                                                         *)
(* Each end is a connection job with a queue of messages to write, the     *)
(* bytes written and not yet encrypted, and the queue of its socket job.   *)
(* A packet gets its number and its checksum when it is written and is     *)
(* encrypted later, so that what a packet looks like depends on the route  *)
(* it takes: tcp_rpc_conn_send queues it, tcp_rpc_conn_send_im writes it   *)
(* at once, tcp_rpc_conn_send_init hands it to the socket unencrypted.     *)
(*                                                                         *)
(* Packets are whole and well formed.  The packets of length 4 that fill   *)
(* the last block of an encrypted stream are skipped by the reader and are *)
(* left out.                                                               *)
(***************************************************************************)
EXTENDS Integers, Sequences, SequencesExt

CONSTANTS
  Setups,        \* how the two ends may be configured
  MaxClockSkew,  \* 30 seconds
  MaxPings       \* bound: pings each end sends once it is ready

VARIABLES
  setup,  \* the configuration: never changes
  ends,   \* the connection job of each end
  wire,   \* packets on their way to each end
  ip,     \* PID.ip of the client's process, 0 until it is known
  pings   \* pings each end has still to send

rpcVars == <<setup, ends, wire, ip, pings>>

RpcEnds == {"client", "server"}
OtherEnd(e) == IF e = "client" THEN "server" ELSE "client"
NoKeys == [ts |-> -1, dh |-> FALSE]

(* struct tcp_rpc_data and the connection, as init_outbound and            *)
(* init_accepted leave them.                                               *)
NewConnection(e, perm) ==
  [status |-> IF e = "client" THEN "connecting" ELSE "working", error |-> "none",
   flags |-> perm, in_packet_num |-> -2, out_packet_num |-> -2,
   custom_crc_partial |-> "crc32", crypto |-> NoKeys, crypto_temp |-> FALSE, isdh |-> FALSE,
   remote_pid |-> 0, ready |-> FALSE,
   out_queue |-> <<>>, out |-> <<>>, out_packet_queue |-> <<>>]

RpcInit ==
  /\ setup \in Setups
  /\ ends = [e \in RpcEnds |-> NewConnection(e, setup.perm[e])]
  /\ wire = [e \in RpcEnds |-> <<>>]
  /\ ip = 0
  /\ pings = [e \in RpcEnds |-> MaxPings]

(***************************************************************************)
(* Sending                                                                 *)
(***************************************************************************)

fail_connection(x, err) ==
  IF x.status = "error" THEN x ELSE [x EXCEPT !.status = "error", !.error = err]

Packet(x, body) ==
  [num |-> x.out_packet_num, crc |-> x.custom_crc_partial, keys |-> NoKeys, body |-> body]

tcp_rpc_write_packet(x, body) ==
  [x EXCEPT !.out = Append(@, Packet(x, body)), !.out_packet_num = @ + 1]

tcp_rpc_conn_send(x, body) == [x EXCEPT !.out_queue = Append(@, body)]

tcp_rpc_conn_send_im(x, body) == tcp_rpc_write_packet(x, body)

tcp_rpc_conn_send_init(x, body) ==
  [x EXCEPT !.out_packet_queue = Append(@, Packet(x, body)), !.out_packet_num = @ + 1]

(* Writes what is queued, then encrypts what is written.                   *)
cpu_tcp_server_writer(x) ==
  LET y == FoldLeft(tcp_rpc_write_packet, x, x.out_queue)
  IN  [y EXCEPT !.out_queue = <<>>, !.out = <<>>,
                !.out_packet_queue = @ \o [i \in DOMAIN y.out |-> [y.out[i] EXCEPT !.keys = y.crypto]]]

Nonce(schema, key, ts) == [type |-> "RPC_NONCE", schema |-> schema, key |-> key, ts |-> ts]
Handshake(crc32c, sender, peer) ==
  [type |-> "RPC_HANDSHAKE", crc32c |-> crc32c, sender |-> sender, peer |-> peer]
HandshakeError == [type |-> "RPC_HANDSHAKE_ERROR"]
Ping == [type |-> "RPC_PING"]
Pong == [type |-> "RPC_PONG"]

aes_create_keys(client_timestamp, dh) == [ts |-> client_timestamp, dh |-> dh]

(* The process id is its address; 0 as y stands for any.                   *)
matches_pid(x, y) == y = 0 \/ x = y

(***************************************************************************)
(* Client                                                                  *)
(***************************************************************************)

(* The nonce packet.  The client's clock shows 0.                          *)
tcp_rpcc_init_crypto(x) ==
  IF "ALLOW_ENC" \notin x.flags
  THEN [tcp_rpc_conn_send(x, Nonce("NONE", FALSE, 0)) EXCEPT !.flags = @ \cup {"ENC_SENT"}]
  ELSE LET dh == "REQ_DH" \in x.flags
       IN  [tcp_rpc_conn_send(x, Nonce(IF dh THEN "AES_DH" ELSE "AES", TRUE, 0))
              EXCEPT !.flags = @ \cup {"ENC_SENT"}, !.crypto_temp = dh]

(* more: bytes that follow the packet and were read with it                *)
tcp_rpcc_start_crypto(x, dh, more) ==
  IF x.crypto # NoKeys \/ more \/ x.out # <<>>
  THEN fail_connection(x, "busy")
  ELSE [x EXCEPT !.crypto = aes_create_keys(0, dh)]

(* The server has skipped DH and must not.                                 *)
DhMissed(x, p) == p.schema # "AES_DH" /\ "REQ_DH" \in x.flags /\ "ALLOW_SKIP_DH" \notin x.flags

tcp_rpcc_process_nonce_packet(x, p, more) ==
  LET dh == p.schema = "AES_DH"
  IN  IF p.type # "RPC_NONCE" THEN fail_connection(x, p.type)
      ELSE IF p.schema = "NONE"
      THEN IF "ALLOW_UNENC" \in x.flags THEN [x EXCEPT !.flags = {"ALLOW_UNENC"}]
           ELSE fail_connection(x, "refused")
      ELSE IF \/ dh /\ ("REQ_DH" \notin x.flags \/ ~ x.crypto_temp)
              \/ ~ p.key \/ "ALLOW_ENC" \notin x.flags
              \/ p.ts \notin (-MaxClockSkew)..MaxClockSkew \/ DhMissed(x, p)
      THEN fail_connection(x, "refused")
      ELSE tcp_rpcc_start_crypto([x EXCEPT !.isdh = dh, !.crypto_temp = FALSE], dh, more)

(* PID.ip is set when it is needed first, unless this connection has no    *)
(* address that would do (loopback, IPv6).                                 *)
init_client_PID == IF ip = 0 THEN setup.our_ip ELSE ip

tcp_rpcc_send_handshake_packet(x) ==
  tcp_rpc_conn_send([x EXCEPT !.remote_pid = setup.remote_ip],
                    Handshake(setup.crc32c["client"], init_client_PID, setup.remote_ip))

tcp_rpcc_send_handshake_error_packet(x, err) ==
  fail_connection(tcp_rpc_conn_send(x, HandshakeError), err)

tcp_rpcc_process_handshake_packet(x, p) ==
  IF p.type # "RPC_HANDSHAKE" THEN fail_connection(x, p.type)
  ELSE IF ~ matches_pid(p.sender, x.remote_pid) /\ ~ setup.ignore_pid["client"]
  THEN tcp_rpcc_send_handshake_error_packet(x, "refused")
  ELSE IF ~ matches_pid(ip, p.peer)
  THEN tcp_rpcc_send_handshake_error_packet([x EXCEPT !.remote_pid = p.sender], "pid")
  ELSE IF p.crc32c /\ ~ setup.crc32c["client"]
  THEN tcp_rpcc_send_handshake_error_packet([x EXCEPT !.remote_pid = p.sender], "crc32c")
  ELSE [x EXCEPT !.remote_pid = p.sender, !.custom_crc_partial = IF p.crc32c THEN "crc32c" ELSE @]

(* One packet of tcp_rpcc_parse_execute.                                   *)
ClientPacket(x0, p, more) ==
  LET x == [x0 EXCEPT !.in_packet_num = @ + 1]
      y == tcp_rpcc_process_nonce_packet(x, p, more)
  IN  CASE x0.in_packet_num = -2 -> IF y.status = "error" THEN y ELSE tcp_rpcc_send_handshake_packet(y)
        [] x0.in_packet_num = -1 -> tcp_rpcc_process_handshake_packet(x, p)
        [] OTHER -> IF p.type = "RPC_PING" THEN tcp_rpc_conn_send(x, Pong) ELSE x

(***************************************************************************)
(* Server                                                                  *)
(***************************************************************************)

tcp_rpcs_init_fake_crypto(x) ==
  tcp_rpc_conn_send_init([x EXCEPT !.flags = @ \cup {"ENC_SENT"}], Nonce("NONE", FALSE, 0))

(* full: tcp_add_dh_accept finds the rate of DH exchanges exceeded         *)
tcp_rpcs_init_crypto(x, p, full) ==
  LET dh == "REQ_DH" \in x.flags
      keys == aes_create_keys(p.ts, dh)
  IN  IF "ALLOW_ENC" \notin x.flags THEN tcp_rpcs_init_fake_crypto(x)
      ELSE IF dh /\ full THEN fail_connection(x, "rate")
      ELSE tcp_rpc_conn_send_init(
             [x EXCEPT !.isdh = dh, !.crypto = keys, !.flags = @ \cup {"ENC_SENT"}],
             Nonce(IF dh THEN "AES_DH" ELSE "AES", TRUE, setup.lag))

(* Falls back to no encryption where the server may, and to no DH.         *)
tcp_rpcs_process_nonce_packet(x, p, full) ==
  LET plain == p.schema = "NONE" \/ ~ setup.same_secret \/ "ALLOW_ENC" \notin x.flags
      encrypted == [x EXCEPT !.flags = @ \ {"ALLOW_UNENC"}]
  IN  IF p.type # "RPC_NONCE" THEN fail_connection(x, p.type)
      ELSE IF plain
      THEN IF "ALLOW_UNENC" \in x.flags
           THEN tcp_rpcs_init_crypto([x EXCEPT !.flags = {"ALLOW_UNENC"}], p, full)
           ELSE fail_connection(x, "refused")
      ELSE IF setup.lag - p.ts \notin (-MaxClockSkew)..MaxClockSkew THEN fail_connection(x, "refused")
      ELSE IF "REQ_DH" \notin x.flags \/ p.schema = "AES_DH"
      THEN tcp_rpcs_init_crypto(encrypted, p, full)
      ELSE IF "ALLOW_SKIP_DH" \in x.flags
      THEN tcp_rpcs_init_crypto([encrypted EXCEPT !.flags = @ \ {"REQ_DH", "ALLOW_SKIP_DH"}], p, full)
      ELSE fail_connection(x, "refused")

tcp_rpcs_process_handshake_packet(x, p) ==
  IF p.type # "RPC_HANDSHAKE" THEN fail_connection(x, p.type)
  ELSE IF ~ matches_pid(setup.server_ip, p.peer) /\ ~ setup.ignore_pid["server"]
  THEN fail_connection(tcp_rpc_conn_send(x, HandshakeError), "refused")
  ELSE [x EXCEPT !.remote_pid = p.sender,
                 !.flags = IF p.crc32c /\ setup.crc32c["server"] THEN @ \cup {"USE_CRC32C"} ELSE @]

ServerHandshake(x) == Handshake("USE_CRC32C" \in x.flags, setup.server_ip, x.remote_pid)

\* Mutant: written after the checksum has changed.
SendHandshakeQueued(x) == tcp_rpc_conn_send(x, ServerHandshake(x))

tcp_rpcs_send_handshake_packet(x) == tcp_rpc_conn_send_im(x, ServerHandshake(x))

(* One packet of tcp_rpcs_parse_execute.                                   *)
ServerPacket(x, p, full) ==
  LET y == CASE x.in_packet_num = -2 -> tcp_rpcs_process_nonce_packet(x, p, full)
             [] x.in_packet_num = -1 -> tcp_rpcs_process_handshake_packet(x, p)
             [] OTHER -> IF p.type = "RPC_PING" THEN tcp_rpc_conn_send(x, Pong) ELSE x
      z == IF x.in_packet_num # -1 \/ y.status = "error" THEN y
           ELSE [tcp_rpcs_send_handshake_packet(y)
                   EXCEPT !.custom_crc_partial = IF "USE_CRC32C" \in y.flags THEN "crc32c" ELSE @,
                          !.ready = TRUE]
  IN  IF z.status = "error" THEN z ELSE [z EXCEPT !.in_packet_num = @ + 1]

(***************************************************************************)
(* The connection jobs                                                     *)
(***************************************************************************)

(* A packet read from bytes that were decrypted with keys: what both       *)
(* parse_execute loops check first.                                        *)
ReadPacket(e, x, p, more, keys, full) ==
  IF x.status = "error" THEN x
  ELSE IF p.keys # keys THEN fail_connection(x, "garbled")
  ELSE IF p.crc # x.custom_crc_partial THEN fail_connection(x, "crc")
  ELSE IF p.num # x.in_packet_num THEN fail_connection(x, "number")
  ELSE IF e = "client" THEN ClientPacket(x, p.body, more) ELSE ServerPacket(x, p.body, full)

parse_execute(e, x, ps, full) ==
  FoldLeft(LAMBDA y, i : ReadPacket(e, y, ps[i], i < Len(ps), x.crypto, full), x,
           [i \in DOMAIN ps |-> i])

(* JS_RUN: the packets that have come are read, then the writer runs.      *)
cpu_server_read_write(e) ==
  /\ ends[e].status = "working"
  /\ \E n \in 0..Len(wire[e]), full \in BOOLEAN :
       LET x == parse_execute(e, ends[e], SubSeq(wire[e], 1, n), full)
       IN  /\ ends' = [ends EXCEPT ![e] = cpu_tcp_server_writer(x)]
           /\ wire' = [wire EXCEPT ![e] = SubSeq(@, n + 1, Len(@))]
           /\ ip' = IF \E i \in DOMAIN x.out_queue : x.out_queue[i].type = "RPC_HANDSHAKE"
                    THEN init_client_PID ELSE ip
  /\ UNCHANGED <<setup, pings>>

(* JS_RUN of the client when the socket is connected.                      *)
tcp_rpcc_connected ==
  /\ ends["client"].status = "connecting"
  /\ ends' = [ends EXCEPT !["client"] =
                cpu_tcp_server_writer(tcp_rpcc_init_crypto([@ EXCEPT !.status = "working"]))]
  /\ UNCHANGED <<setup, wire, ip, pings>>

(* The socket job sends what it was given.                                 *)
net_server_socket_read_write(e) ==
  /\ ends[e].out_packet_queue # <<>>
  /\ wire' = [wire EXCEPT ![OtherEnd(e)] = @ \o ends[e].out_packet_queue]
  /\ ends' = [ends EXCEPT ![e].out_packet_queue = <<>>]
  /\ UNCHANGED <<setup, ip, pings>>

(* The target's job looks at the connection; late: three seconds are over. *)
tcp_rpcc_default_check_ready(late) ==
  LET x == ends["client"]
  IN  /\ x.status \in {"connecting", "working"}
      /\ ends' = [ends EXCEPT !["client"] =
           IF x.status = "connecting" \/ x.in_packet_num < 0
           THEN IF late THEN fail_connection(x, "timeout") ELSE x
           ELSE [x EXCEPT !.ready = TRUE]]
      /\ UNCHANGED <<setup, wire, ip, pings>>

tcp_rpc_send_ping(e) ==
  /\ ends[e].ready /\ ends[e].status = "working" /\ pings[e] > 0
  /\ ends' = [ends EXCEPT ![e] = tcp_rpc_conn_send(@, Ping)]
  /\ pings' = [pings EXCEPT ![e] = @ - 1]
  /\ UNCHANGED <<setup, wire, ip>>

(* JS_ABORT: the DH connection is given back, the socket goes with what it *)
(* has not sent; JS_FINISH frees keys and parameters.                      *)
cpu_server_close_connection(e) ==
  /\ ends[e].status = "error"
  /\ ends' = [ends EXCEPT ![e] = [@ EXCEPT !.status = "closed", !.isdh = FALSE, !.crypto = NoKeys,
                !.crypto_temp = FALSE, !.out_packet_queue = <<>>]]
  /\ UNCHANGED <<setup, wire, ip, pings>>

(* The other end is gone or the network fails.                             *)
net_error(e) ==
  /\ ends[e].status \in {"connecting", "working"}
  /\ ends' = [ends EXCEPT ![e] = fail_connection(@, "net")]
  /\ UNCHANGED <<setup, wire, ip, pings>>

(* Another connection of the client's process finds PID.ip.                *)
OtherConnection ==
  /\ ip = 0 /\ ip' = 3
  /\ UNCHANGED <<setup, ends, wire, pings>>

RpcNext ==
  \/ tcp_rpcc_connected \/ OtherConnection
  \/ \E late \in BOOLEAN : tcp_rpcc_default_check_ready(late)
  \/ \E e \in RpcEnds : \/ cpu_server_read_write(e) \/ net_server_socket_read_write(e)
                    \/ tcp_rpc_send_ping(e) \/ cpu_server_close_connection(e) \/ net_error(e)

RpcSpec == RpcInit /\ [][RpcNext]_rpcVars

-----------------------------------------------------------------------------
(* What the two permission sets mean, by the comments at RPCF_ALLOW_UNENC  *)
(* and the rest: encryption if both can, DH if one requires it and the     *)
(* other does it or the first may skip it.                                 *)
Compatible ==
  LET c == setup.perm["client"]
      s == setup.perm["server"]
      requires(a, b) == "REQ_DH" \in a /\ "REQ_DH" \notin b => "ALLOW_SKIP_DH" \in a
  IN  /\ IF "ALLOW_ENC" \in c \cap s /\ setup.same_secret
         THEN setup.lag \in (-MaxClockSkew)..MaxClockSkew /\ requires(c, s) /\ requires(s, c)
         ELSE "ALLOW_UNENC" \in c \cap s
      /\ \/ setup.remote_ip \in {0, setup.server_ip}
         \/ \A e \in RpcEnds : setup.ignore_pid[e]

(* Two ends that run this code stay in step: unless the other end has      *)
(* refused, none finds a packet that it cannot decrypt, a wrong checksum,  *)
(* a number out of order or a packet of the wrong type, whatever is queued *)
(* and read together while encryption and the checksum change under way.   *)
(* (A client that refuses sends its error packet with the old checksum.)   *)
(* And the handshake decides rightly: a connection that the target takes   *)
(* for ready joins ends that are compatible, and an end refuses only one   *)
(* that is not (tcp_rpcc_process_handshake_packet and its counterpart).    *)
EndsAgree ==
  /\ \A e \in RpcEnds :
       /\ \/ ends[e].error \in {"none", "refused", "rate", "timeout", "net"}
          \/ ends[OtherEnd(e)].error = "refused"
       /\ ends[e].error = "refused" => ~ Compatible
  /\ ends["client"].ready => Compatible
=============================================================================
