---------------------------- MODULE Type3Output ----------------------------
(* How the output of an encrypted connection is wrapped for the transport  *)
(* the client came with: cpu_tcp_aes_crypto_ctr128_encrypt_output and      *)
(* ws_write_frame_header.  Sizes are in bytes; each flush takes whatever   *)
(* has been written, and the two random draws are choices.                 *)
EXTENDS Integers, Sequences, SequencesExt

CONSTANTS
  Writes,          \* amounts of output a flush may find, by transport
  SmallWrite,      \* amounts up to which every way to split is tried
  FrameDraws,      \* frame sizes the generator may draw
  PadSizes,        \* sizes of padding frames, within 32..288
  MaxFlushes

VARIABLES
  transport,       \* "padded", "ws", "http", "tls" or "none"
  written,         \* bytes the connection has written
  wire,            \* what went out: [head, from, size, pad]
  keyAt,           \* position of the key stream
  flushes

outVars == <<transport, written, wire, keyAt, flushes>>

WS_MIN_FRAME == 4096
HTTP_MAX_CHUNK == 16384
MAX_PACKET_LENGTH == 1425

Byte(n, k) == (n \div k) % 256

ws_write_frame_header(n) ==
  <<130>> \o
  (IF n < 126 THEN <<n>>
   ELSE IF n < 65536 THEN <<126, Byte(n, 256), Byte(n, 1)>>
   ELSE <<127, 0, 0, 0, 0, Byte(n, 16777216), Byte(n, 65536), Byte(n, 256), Byte(n, 1)>>)


(* The sizes of the next of k fragments when n bytes are left.             *)
FragmentSizes(n, k) ==
  LET least == IF n \div (2 * k) < 1 THEN 1 ELSE n \div (2 * k)
      most == IF n - (k - 1) < least THEN least ELSE n - (k - 1)
  IN  IF k = 1 THEN {n} ELSE IF n <= SmallWrite THEN least..most ELSE {least, most}

RECURSIVE Fragments(_, _)
Fragments(n, k) ==
  IF n = 0 \/ k = 0 THEN {<<>>}
  ELSE UNION {{<<f>> \o rest : rest \in Fragments(n - f, k - 1)} : f \in FragmentSizes(n, k)}

(* The largest pieces a loop may take from n bytes in this transport.      *)
PieceSizes(how, n) ==
  CASE how = "http" -> {HTTP_MAX_CHUNK}
    [] how = "tls" -> {MAX_PACKET_LENGTH}
    [] how = "ws" -> {d \in FrameDraws : d >= WS_MIN_FRAME}
    [] OTHER -> {n}

RECURSIVE Pieces(_, _)
Pieces(how, n) ==
  IF n = 0 THEN {<<>>}
  ELSE UNION {{<<IF n < d THEN n ELSE d>> \o rest : rest \in Pieces(how, IF n < d THEN 0 ELSE n - d)} :
              d \in PieceSizes(how, n)}

Head1(how, n) ==
  CASE how \in {"padded", "ws"} -> ws_write_frame_header(n)
    [] how = "http" -> <<n>>
    [] how = "tls" -> <<23, 3, 3, n \div 256, n % 256>>
    [] OTHER -> <<>>

(* Pieces of these sizes, encrypted one after the other.                   *)
Put1(log, size, pad) ==
  [log EXCEPT !.wire = Append(@, [head |-> Head1(transport, size), from |-> log.key,
                                  size |-> size, pad |-> pad]),
              !.key = @ + size]
PutAll(sizes, pads) ==
  FoldLeft(LAMBDA log, p : Put1(log, p, TRUE),
           FoldLeft(LAMBDA log, s : Put1(log, s, FALSE), [wire |-> wire, key |-> keyAt], sizes),
           pads)

Splits(n) == IF transport = "padded" THEN UNION {Fragments(n, k) : k \in 2..5} ELSE Pieces(transport, n)

(* A padding frame may follow output that was split.                       *)
Padding(n) ==
  IF transport = "padded" /\ n > 0 THEN {<<>>} \cup {<<p>> : p \in PadSizes} ELSE {<<>>}

Flush(n) ==
  /\ flushes < MaxFlushes /\ flushes' = flushes + 1
  /\ \E sizes \in Splits(n), pads \in Padding(n) :
       \E log \in {PutAll(sizes, pads)} : wire' = log.wire /\ keyAt' = log.key
  /\ written' = written + n
  /\ UNCHANGED transport

OutInit ==
  /\ transport \in {"padded", "ws", "http", "tls", "none"}
  /\ written = 0 /\ wire = <<>> /\ keyAt = 0 /\ flushes = 0

OutNext == \E n \in Writes[transport] : Flush(n)

-----------------------------------------------------------------------------
(* What a client finds in a frame's head, by RFC 6455 for the frames.      *)
RfcLength(h) ==
  CASE h[2] < 126 -> h[2]
    [] h[2] = 126 -> 256 * h[3] + h[4]
    [] h[2] = 127 -> 16777216 * h[7] + 65536 * h[8] + 256 * h[9] + h[10]
HeadLength(f) ==
  CASE transport \in {"padded", "ws"} -> RfcLength(f.head)
    [] transport = "http" -> f.head[1]
    [] transport = "tls" -> 256 * f.head[4] + f.head[5]
    [] OTHER -> f.size

(* The client of any transport finds the end of every frame, no frame is   *)
(* empty, the key stream has no gap, and what is left without the padding  *)
(* is everything that was written.                                         *)
OutputWhole ==
  /\ \A i \in 1..Len(wire) :
       /\ wire[i].size > 0 /\ HeadLength(wire[i]) = wire[i].size
       /\ wire[i].from = IF i = 1 THEN 0 ELSE wire[i - 1].from + wire[i - 1].size
  /\ FoldLeft(LAMBDA n, f : n + (IF f.pad THEN 0 ELSE f.size), 0, wire) = written
=============================================================================
