---------------------------- MODULE Type3Stream ----------------------------
(* The input of a client's connection, from the first byte on: the probe   *)
(* for the two HTTP transports, the PROXY header, the WebSocket frames,    *)
(* HTTP chunks or TLS records around the obfuscated2 stream, its 64-byte   *)
(* header and the packets behind it (tcp_rpcs_compact_parse_execute and    *)
(* cpu_tcp_aes_crypto_ctr128_decrypt_input).  An element of the input is   *)
(* one or several bytes; <<"pay", i>> is the i-th one of the obfuscated2   *)
(* stream, which only decrypts when the key stream is at i.                *)
EXTENDS Integers, Sequences, FiniteSets, SequencesExt

(* The header a load balancer puts before a client's bytes, in its text    *)
(* and its binary form: net-proxy-protocol.c.  An element of the input     *)
(* stands for a word of the text form or a field of the binary one; the    *)
(* binary signature is two elements, as "PROXY " is half as long.          *)
CONSTANTS
  V4, V6,          \* addresses of either family that inet_pton accepts
  MaxV1            \* elements of the longest text header

NeedMore == [ret |-> 0]
NotProxy == [ret |-> -1]

(* A header of n elements that names this client.                          *)
Header(n, family, ip, port) == [ret |-> n, family |-> family, ip |-> ip, port |-> port]

Space(s) == SelectInSeq(s, LAMBDA w : w = <<"SP">>)

(* The words between "PROXY " and the line's end, n elements in all.       *)
Addresses(w, n, family, valid) ==
  LET after == SubSeq(w, 2, Len(w))
      one == Space(after)
      dst == SubSeq(after, one + 1, Len(after))
      two == Space(dst)
      ports == SubSeq(dst, two + 1, Len(dst))
  IN  IF one = 2 /\ after[1] \in valid /\ two > 0 /\ Space(ports) > 0
      THEN Header(n, family, after[1], ports[1])
      ELSE NotProxy

parse_v1(s) ==
  LET end == SelectInSeq(SubSeq(s, 1, MaxV1), LAMBDA w : w = <<"CRLF">>)
      words == SubSeq(s, 2, end - 1)
  IN  CASE Len(s) < 3 -> NeedMore
        [] Len(s) >= 3 /\ end = 0 -> IF Len(s) >= MaxV1 THEN NotProxy ELSE NeedMore
        [] OTHER ->
             IF words = <<>> THEN NotProxy
             ELSE IF words[1] = <<"UNKNOWN">> THEN Header(end, "none", <<>>, 0)
             ELSE IF words[1] = <<"TCP4">> THEN Addresses(words, end, "inet", V4)
             ELSE IF words[1] = <<"TCP6">> THEN Addresses(words, end, "inet6", V6)
             ELSE NotProxy

(* Signature, version and command, family, length; then the source, the    *)
(* destination and the source port, and what extensions the length covers. *)
parse_v2(s) ==
  IF Len(s) < 5 THEN NeedMore
  ELSE IF s[3] \notin {<<"2", "local">>, <<"2", "proxy">>} THEN NotProxy
  ELSE IF Len(s) < 5 + s[5][2] THEN NeedMore
  ELSE IF s[3] = <<"2", "proxy">> /\ s[4] \in {<<"inet">>, <<"inet6">>} /\ s[5][2] >= 3
       THEN Header(5 + s[5][2], s[4][1], s[6], s[8])
       ELSE Header(5 + s[5][2], "none", <<>>, 0)

proxy_protocol_parse(s) ==
  CASE s = <<>> -> NeedMore
    [] s # <<>> /\ s[1] = <<"PROXY">> -> parse_v1(s)
    [] OTHER -> IF Len(s) < 2 THEN NeedMore
                ELSE IF SubSeq(s, 1, 2) = <<<<"SIG1">>, <<"SIG2">>>> THEN parse_v2(s)
                ELSE NotProxy

-----------------------------------------------------------------------------
CONSTANTS
  Clients,         \* what a client may send
  T3Pieces,        \* into how many pieces the network cuts it
  ProbeLimit,      \* 4096, the longest HTTP request head
  HeadLen,         \* 64, the obfuscated2 header
  MinMore,         \* 8, what must follow the shortest length of a packet
  MaxPacket,       \* max_packet_len
  Pad,             \* 4, to which a packet in padded mode is cut
  Banned           \* addresses the access list refuses

VARIABLES
  client,          \* the client
  sent,            \* elements of its stream that have arrived
  reads,           \* where the connection's reads ended
  c                \* struct connection_info of the connection

t3Vars == <<client, sent, reads, c>>

-----------------------------------------------------------------------------
(* What the client sends.  A packet has a length, a flag for quick         *)
(* acknowledgement, or is padding, which takes a frame of its own.         *)

Times(n, e) == [i \in 1..n |-> e]
Join(s) == FlattenSeq(s)

LengthOf(cl, p) ==
  CASE cl.tag \in {"medium", "pad"} -> <<<<"len", p.len, p.quick>>, <<"len2">>>>
    [] cl.tag = "compact" /\ p.len >= 3 -> <<<<"len7f", p.len, p.quick>>, <<"len2">>>>
    [] OTHER -> <<<<"len", p.len, p.quick>>>>

PacketText(cl, k) ==
  IF cl.packets[k].padding THEN <<<<"marker">>>> \o Times(cl.packets[k].len - 1, <<"filler">>)
  ELSE LengthOf(cl, cl.packets[k]) \o [j \in 1..cl.packets[k].len |-> <<"body", k, j>>]

Text(cl) == Times(HeadLen, <<"head">>)
            \o Join([k \in 1..Len(cl.packets) |-> PacketText(cl, k)])

(* Sizes of the frames: the last one takes what is left.                   *)
RECURSIVE Framed(_, _, _)
Framed(cl, from, j) ==
  LET left == Len(Text(cl)) - from
      size == IF j >= Len(cl.frames) \/ cl.frames[j] > left THEN left ELSE cl.frames[j]
  IN  IF left = 0 THEN <<>> ELSE <<<<from, size>>>> \o Framed(cl, from + size, j + 1)

Pay(f) == [i \in 1..f[2] |-> <<"pay", f[1] + i>>]
Masked(f, j) == [i \in 1..f[2] |-> <<"masked", f[1] + i, j, i % 4>>]

FrameHead(f, j) ==
  <<<<"op", "binary">>>>
  \o (CASE f[2] < 3 -> <<<<"len", f[2]>>>>
        [] f[2] = 3 -> <<<<"126">>, <<"len", f[2]>>>>
        [] OTHER -> <<<<"127">>, <<"high", 0>>, <<"len", f[2]>>>>)
  \o <<<<"mask", j>>>>

WsFrame(f, j) == FrameHead(f, j) \o Masked(f, j)
Chunk(f) == <<<<"chunk", f[2]>>>> \o Pay(f) \o <<<<"CRLF">>>>
Record(f) == <<<<"record">>, <<"size", f[2]>>>> \o Pay(f)

Hello(cl) == <<<<"hello", cl.hello - 2>>>> \o Times(cl.hello - 1, <<"hello">>)

(* The stream in flights: the client waits for an answer between two.      *)
Flights(cl) ==
  LET F == Framed(cl, 0, 1)
  IN  CASE cl.how = "plain" -> <<cl.proxy \o Pay(<<0, Len(Text(cl))>>)>>
        [] cl.how = "ws" -> <<<<<<"GET ">>, <<"Upgrade">>, <<"Key">>, <<"EOH">>>>,
                              Join([j \in 1..Len(F) |-> WsFrame(F[j], j)])>>
        [] cl.how = "http" -> <<<<<<"POST">>, <<"Host">>, <<"EOH">>>>
                                \o Join([j \in 1..Len(F) |-> Chunk(F[j])])>>
        [] cl.how = "tls" -> <<cl.proxy \o Hello(cl),
                               <<<<"CCS">>>> \o Join([j \in 1..Len(F) |-> Record(F[j])])>>

Wire(cl) == Join(Flights(cl))
Known == Wire(client)

-----------------------------------------------------------------------------
(* Frames, chunks, records.                                                *)

Drop(s, n) == SubSeq(s, n + 1, Len(s))
Take(s, n) == SubSeq(s, 1, n)
AtMost(m, n) == IF m < n THEN m ELSE n

Fail(C) == [C EXCEPT !.status = "failed"]

(* Where the length of a frame stands in its header.                       *)
LengthAt(s) == CASE s[2] = <<"126">> -> 3 [] s[2] = <<"127">> -> 4 [] OTHER -> 2

(* Bytes that are no frame are read as one all the same, of some length.   *)
FrameLength(e) == IF e[1] = "len" THEN e[2] ELSE 1

(* ret is the payload's length, 0 for more data or -1; s is what is left.  *)
ws_parse_frame_header(C, s) ==
  IF Len(s) < 2 \/ Len(s) < LengthAt(s) \/ (s[2] = <<"127">> /\ s[3] # <<"high", 0>>)
  THEN [ret |-> IF Len(s) >= 3 /\ s[2] = <<"127">> /\ s[3] # <<"high", 0>> THEN -1 ELSE 0,
        c |-> C, s |-> s]
  ELSE LET at == LengthAt(s)
           n == FrameLength(s[at])
       IN  IF Len(s) < at + 1 THEN [ret |-> 0, c |-> C, s |-> s]
           ELSE LET M == [C EXCEPT !.mask = s[at + 1], !.offset = 0]
                IN  CASE s[1] = <<"op", "close">> -> [ret |-> -1, c |-> M, s |-> s]
                      [] s[1] = <<"op", "ping">> ->
                           [ret |-> 0, c |-> M,
                            s |-> IF Len(s) < at + 1 + n THEN s ELSE Drop(s, at + 1 + n)]
                      [] OTHER -> [ret |-> n, c |-> [M EXCEPT !.remaining = n],
                                   s |-> Drop(s, at + 1)]

Unmask(C, s) ==
  [i \in 1..Len(s) |->
    IF s[i][1] = "masked" /\ <<"mask", s[i][3]>> = C.mask /\ s[i][4] = (C.offset + i) % 4
    THEN <<"pay", s[i][2]>> ELSE <<"junk">>]

UnmaskedFromStart(C, n) == [C EXCEPT !.offset = 0, !.remaining = @ - n]

Unmasked(C, n) == [C EXCEPT !.offset = (@ + n) % 4, !.remaining = @ - n]

(* t3_http_chunk_parse: a whole chunk or nothing.                          *)
ChunkSize(s) ==
  IF s # <<>> /\ s[1][1] = "chunk" THEN s[1][2] ELSE IF s = <<>> THEN 0 ELSE -1
WholeChunk(s) == ChunkSize(s) >= 0 /\ Len(s) >= ChunkSize(s) + 2

(* The cipher's text at the position of the key stream.                    *)
Decrypted(C, s) ==
  LET T == Text(client)
  IN  [i \in 1..Len(s) |-> IF s[i] = <<"pay", C.key + i>> THEN T[C.key + i] ELSE <<"junk">>]

Received(C, s, rest) ==
  [C EXCEPT !.in = @ \o Decrypted(C, s), !.in_u = rest, !.key = @ + Len(s)]

RECURSIVE DecryptInput(_)

DecryptChunk(C) ==
  IF ChunkSize(C.in_u) = -1 THEN Fail(C)
  ELSE IF ~WholeChunk(C.in_u) THEN C
  ELSE LET n == ChunkSize(C.in_u)
       IN  IF n = 0 THEN [C EXCEPT !.in_u = Drop(@, 2)]
           ELSE DecryptInput(Received(C, SubSeq(C.in_u, 2, n + 1), Drop(C.in_u, n + 2)))

(* With the padding flag a piece that starts with the marker is dropped.   *)
Kept(C, n) ==
  [C EXCEPT !.in = IF client.padding /\ n > 0 /\ @[Len(@) - n + 1] = <<"marker">>
                   THEN Take(@, Len(@) - n) ELSE @]

DecryptPayload(C) ==
  LET n == AtMost(C.remaining, Len(C.in_u))
      s == Take(C.in_u, n)
  IN  DecryptInput(Kept(Received(Unmasked(C, n), Unmask(C, s), Drop(C.in_u, n)), n))

DecryptFrame(C) ==
  IF C.remaining # 0 THEN DecryptPayload(C)
  ELSE LET h == ws_parse_frame_header(C, C.in_u)
           N == [h.c EXCEPT !.in_u = h.s]
       IN  IF h.ret < 0 THEN Fail(N) ELSE IF h.ret = 0 THEN N ELSE DecryptPayload(N)

DecryptBody(C) ==
  LET n == AtMost(C.left, Len(C.in_u))
  IN  DecryptInput(Received([C EXCEPT !.left = @ - n], Take(C.in_u, n), Drop(C.in_u, n)))

DecryptRecord(C) ==
  IF C.left > 0 THEN DecryptBody(C)
  ELSE IF Len(C.in_u) < 2 THEN C
  ELSE IF C.in_u[1] # <<"record">> THEN Fail(C)
  ELSE DecryptBody([C EXCEPT !.left = C.in_u[2][2], !.in_u = Drop(@, 2)])

DecryptInput(C) ==
  IF C.in_u = <<>> \/ C.status # "ok" THEN C
  ELSE CASE C.ws = "http" -> DecryptChunk(C)
         [] C.ws = "active" -> DecryptFrame(C)
         [] OTHER -> IF C.tls THEN DecryptRecord(C) ELSE Received(C, C.in_u, <<>>)

-----------------------------------------------------------------------------
(* tcp_rpcs_compact_parse_execute.  C.next is where the parser goes after  *)
(* a stage: on to the next one, round the loop again, or out of it.        *)

Go(C) == [C EXCEPT !.next = "go"]
Again(C) == [C EXCEPT !.next = "again"]
Wait(C) == [C EXCEPT !.next = "wait"]

(* The parser returns that it needs n more bytes; the reader adds what is  *)
(* left in in once there is a cipher, and in in_u before.                  *)
Needs(C, n) == [C EXCEPT !.next = "wait", !.skip = n + (IF C.crypto THEN Len(C.in) ELSE Len(C.in_u))]

EndOfHead(s) ==
  SelectInSeq(Take(s, AtMost(Len(s), ProbeLimit)), LAMBDA e : e \in {<<"EOH">>, <<"SIG1">>})

(* 1: an upgrade, 0: more data is needed, -1: something else.              *)
ws_parse_upgrade_request(s) ==
  LET end == EndOfHead(s)
  IN  IF end = 0 THEN IF Len(s) >= ProbeLimit THEN -1 ELSE 0
      ELSE IF s[1] # <<"GET ">> THEN -1
      ELSE IF {<<"Upgrade">>, <<"Key">>} \subseteq ToSet(Take(s, end)) THEN 1 ELSE -1

Answered(C, head, ws) ==
  LET N == [C EXCEPT !.in = Drop(@, EndOfHead(@)), !.ws = ws, !.answers = Append(@, head)]
  IN  IF N.in = <<>> THEN Wait(N) ELSE Go(N)

ProbePost(C) ==
  IF EndOfHead(C.in) # 0 THEN Answered(C, "200", "http")
  ELSE IF Len(C.in) > ProbeLimit THEN Again(Fail(C)) ELSE Wait(C)

ProbeGet(C) ==
  LET r == ws_parse_upgrade_request(C.in)
  IN  CASE r = 0 -> Wait(C) [] r = -1 -> Go([C EXCEPT !.ws = "none"]) [] r = 1 -> Answered(C, "101", "active")

Probe(C) ==
  IF C.ws # "handshake" THEN Go(C)
  ELSE IF C.in[1] = <<"POST">> THEN ProbePost(C) ELSE ProbeGet(C)

(* Before there is a cipher the parser itself takes frames and chunks off, *)
(* and puts what it found back in front of what it could not use yet.      *)
RECURSIVE TakeChunks(_, _)
TakeChunks(s, found) ==
  IF s = <<>> \/ (ChunkSize(s) >= 0 /\ ~WholeChunk(s)) THEN [found |-> found, rest |-> s, bad |-> FALSE]
  ELSE IF ChunkSize(s) = -1 THEN [found |-> found, rest |-> s, bad |-> TRUE]
  ELSE LET n == ChunkSize(s)
       IN  IF n = 0 THEN [found |-> found, rest |-> Drop(s, 2), bad |-> FALSE]
           ELSE TakeChunks(Drop(s, n + 2), found \o SubSeq(s, 2, n + 1))

RECURSIVE TakeFrames(_, _)
TakeFrames(C, found) ==
  LET h == IF C.remaining = 0 THEN ws_parse_frame_header(C, C.in)
           ELSE [ret |-> C.remaining, c |-> C, s |-> C.in]
      n == AtMost(Len(h.s), h.c.remaining)
  IN  IF C.in = <<>> THEN [c |-> C, found |-> found]
      ELSE IF h.ret <= 0 \/ n <= 0 THEN [c |-> [h.c EXCEPT !.in = h.s], found |-> found]
      ELSE TakeFrames([Unmasked(h.c, n) EXCEPT !.in = Drop(h.s, n)],
                      found \o Unmask(h.c, Take(h.s, n)))

Unwrap(C) ==
  IF C.crypto THEN Go(C)
  ELSE CASE C.ws = "http" ->
              LET t == TakeChunks(C.in, <<>>)
                  N == [C EXCEPT !.in = t.found \o t.rest]
              IN  IF t.bad THEN Again(Fail(N)) ELSE IF N.in = <<>> THEN Wait(N) ELSE Go(N)
         [] C.ws = "active" ->
              LET t == TakeFrames(C, <<>>)
                  N == [t.c EXCEPT !.in = t.found \o @]
              IN  IF N.in = <<>> THEN Wait(N) ELSE Go(N)
         [] OTHER -> Go(C)

Shortest(C) == IF C.medium THEN 2 ELSE 1
EnoughFor(C) == Len(C.in) >= Shortest(C) + MinMore
AskFor(C) == Needs(C, Shortest(C) + MinMore - Len(C.in))

(* The client's address from the header, if the access list lets it in.    *)
TakeProxyHeader(C) ==
  LET p == proxy_protocol_parse(C.in)
      N == [C EXCEPT !.in = Drop(@, p.ret), !.proxy = FALSE,
                     !.remote = IF p.family = "none" THEN @ ELSE <<p.ip, p.port>>]
  IN  IF p.ret = 0 THEN Wait(C)
      ELSE IF p.ret < 0 THEN Again(Fail(C))
      ELSE IF p.family # "none" /\ p.ip \in Banned THEN Again(Fail(N))
      ELSE IF N.in = <<>> THEN Wait(N) ELSE IF ~EnoughFor(N) THEN AskFor(N) ELSE Go(N)

ProxyHeader(C) == IF C.proxy THEN TakeProxyHeader(C) ELSE Go(C)

(* The hello ends exactly where its record does; then the client sends a   *)
(* dummy change of cipher and its first record, which holds the header.    *)
TlsHello(C) ==
  LET n == C.in[1][2] + 2
  IN  IF Len(C.in) < n THEN Needs(C, n - Len(C.in))
      ELSE IF Len(C.in) > n \/ Len(C.in) > ProbeLimit THEN Wait([C EXCEPT !.status = "relayed"])
      ELSE Needs([C EXCEPT !.in = <<>>, !.tls = TRUE, !.left = -1,
                           !.answers = Append(@, "hello")], 3)

FirstRecord(C) ==
  IF Len(C.in) < 3 THEN Needs(C, 3 - Len(C.in))
  ELSE IF Take(C.in, 2) # <<<<"CCS">>, <<"record">>>> THEN Again(Fail(C))
  ELSE LET n == C.in[3][2]
       IN  IF Len(C.in) < 3 + n THEN Needs(C, 3 + n - Len(C.in))
           ELSE IF n < HeadLen THEN Again(Fail(C))
           ELSE Go([C EXCEPT !.in = Drop(@, 3), !.left = n - HeadLen])

Transport(C) ==
  CASE C.in[1] \in {<<"GET ">>, <<"POST">>} -> Wait([C EXCEPT !.status = "web"])
    [] C.tls -> FirstRecord(C)
    [] ~C.tls /\ C.in[1][1] = "hello" /\ client.only_tls -> TlsHello(C)
    [] OTHER -> IF client.only_tls /\ C.ws \notin {"active", "http"}
                THEN Wait([C EXCEPT !.status = "relayed"])
                ELSE IF Len(C.in) < HeadLen THEN Needs(C, HeadLen - Len(C.in)) ELSE Go(C)

(* The bytes behind the header were unwrapped already, so they are         *)
(* decrypted as if there were neither frames nor chunks.                   *)
FirstBytes(C) ==
  LET D == DecryptInput([C EXCEPT !.ws = "none", !.in_u = Drop(C.in, HeadLen), !.in = <<>>])
  IN  [D EXCEPT !.ws = C.ws]

Obfs2(C) ==
  IF \E i \in 1..HeadLen : C.in[i] # <<"pay", i>>
  THEN [C EXCEPT !.next = "wait", !.status = "skipping"]
  ELSE Again(FirstBytes([C EXCEPT !.crypto = TRUE, !.key = HeadLen, !.fresh = FALSE,
                                  !.medium = client.tag # "compact"]))

(* A length, and how many elements it takes.  Anything else where a length *)
(* is expected is taken for a bad one.                                     *)
LengthRead(e) ==
  IF e[1] \in {"len", "len7f"} THEN [n |-> e[2], quick |-> e[3]] ELSE [n |-> 0, quick |-> FALSE]
LengthSize(C) == IF C.medium \/ C.in[1][1] = "len7f" THEN 2 ELSE 1

Packet(C) ==
  LET l == LengthRead(C.in[1])
      b == LengthSize(C)
      kept == IF client.tag = "pad" THEN l.n - (l.n % Pad) ELSE l.n
  IN  IF l.n <= 0 \/ l.n > MaxPacket \/ (client.tag = "medium" /\ l.n % Pad # 0) THEN Again(Fail(C))
      ELSE IF Len(C.in) < l.n + b THEN Needs(C, l.n + b - Len(C.in))
      ELSE Again([C EXCEPT !.in = Drop(@, l.n + b),
                           !.done = Append(@, [quick |-> l.quick, body |-> SubSeq(C.in, b + 1, b + kept)])])

Then(C, Stage(_)) == IF C.next = "go" THEN Stage(C) ELSE C

Enough(C) == IF C.status # "ok" THEN Wait(C) ELSE IF ~EnoughFor(C) THEN AskFor(C) ELSE Go(C)
Detect(C) == IF C.fresh THEN Then(Then(ProxyHeader(C), Transport), Obfs2) ELSE Packet(C)
ParseOnce(C) == Then(Then(Then(Probe(C), Unwrap), Enough), Detect)

RECURSIVE ParseInput(_)
ParseInput(C) ==
  IF C.in = <<>> \/ C.status # "ok" \/ C.skip > 0 THEN C
  ELSE LET N == ParseOnce(C) IN IF N.next = "again" THEN ParseInput(N) ELSE N

(* cpu_tcp_server_reader.                                                  *)
Read(C, s) ==
  LET D == IF C.crypto THEN DecryptInput([C EXCEPT !.in_u = @ \o s]) ELSE [C EXCEPT !.in = @ \o s]
  IN  IF D.skip > 0 /\ Len(D.in) < D.skip THEN D ELSE ParseInput([D EXCEPT !.skip = 0])

-----------------------------------------------------------------------------
Clean ==
  [in |-> <<>>, in_u |-> <<>>, ws |-> "handshake", remaining |-> 0, mask |-> <<>>, offset |-> 0,
   crypto |-> FALSE, key |-> 0, tls |-> FALSE, left |-> 0, proxy |-> FALSE, remote |-> <<>>,
   fresh |-> TRUE, medium |-> FALSE, skip |-> 0, next |-> "go", status |-> "ok",
   answers |-> <<>>, done |-> <<>>]

T3Init ==
  /\ client \in Clients /\ sent = 0 /\ reads = {}
  /\ c = [Clean EXCEPT !.proxy = client.proxy # <<>>]

(* How far the client has sent: it waits for the answer to a flight.       *)
MaySend(cl, answers) ==
  Len(Join(Take(Flights(cl), AtMost(Len(Flights(cl)), Len(answers) + 1))))

ReadInput(n) ==
  /\ c.status = "ok"
  /\ \E upto \in {MaySend(client, c.answers)} :
       /\ sent + n <= upto
       /\ Cardinality(reads) < T3Pieces - 1 \/ sent + n = upto
  /\ sent' = sent + n /\ reads' = reads \cup {sent + n}
  /\ c' = Read(c, SubSeq(Known, sent + 1, sent + n))
  /\ UNCHANGED client

T3Next == \E n \in 1..Len(Known) : ReadInput(n)

-----------------------------------------------------------------------------
(* The frames and chunks of a stream: where each begins, where its payload *)
(* does, and where it ends.                                                *)
RECURSIVE UnitsFrom(_, _, _, _)
UnitsFrom(cl, F, j, at) ==
  IF j > Len(F) THEN <<>>
  ELSE LET head == IF cl.how = "ws" THEN Len(FrameHead(F[j], j)) ELSE 1
           end == at + head + F[j][2] + (IF cl.how = "ws" THEN 0 ELSE 1)
       IN  <<[start |-> at, body |-> at + head, end |-> end, upto |-> F[j][1] + F[j][2]]>>
           \o UnitsFrom(cl, F, j + 1, end)

Units(cl) == UnitsFrom(cl, Framed(cl, 0, 1), 1, IF cl.how = "ws" THEN 4 ELSE 3)

(* The reads before the cipher is set up do not end inside what the parser *)
(* takes off by itself: of the frames or chunks that carry the header      *)
(* either nothing has been used or all of it is there, and the read that   *)
(* completes the header brings no part of a frame's header or of a chunk   *)
(* and no padding.                                                         *)
Aligned(cl, R) ==
  LET U == Units(cl)
      k == CHOOSE k \in 1..Len(U) : U[k].upto >= HeadLen /\ (k = 1 \/ U[k - 1].upto < HeadLen)
      needed == IF cl.how = "ws" THEN U[k].body + HeadLen - (U[k].upto - (U[k].end - U[k].body))
                ELSE U[k].end
      First(e) == e >= needed /\ \A d \in R : d >= needed => d >= e
  IN  \A e \in R :
        /\ U[1].start < e /\ e < needed =>
             IF cl.how = "ws" THEN e <= U[1].body ELSE e < U[1].end /\ e < U[1].start + HeadLen
        /\ First(e) =>
             \A u \in ToSet(U) :
               u.start < e => /\ e >= (IF cl.how = "ws" THEN u.body ELSE u.end)
                              /\ Text(cl)[u.upto] # <<"filler">>

(* No read ends inside a frame of padding.                                 *)
PaddingWhole(cl, R) ==
  cl.padding => \A u \in ToSet(Units(cl)), e \in R :
                  Text(cl)[u.upto] = <<"filler">> => ~(u.body < e /\ e < u.end)

Readable(cl, R) ==
  CASE cl.how \in {"ws", "http"} -> Aligned(cl, R) /\ PaddingWhole(cl, R)
    [] OTHER -> Len(Flights(cl)[1]) >= ProbeLimit \/ <<"SIG1">> \in ToSet(cl.proxy)

Sends(cl) ==
  LET real == SelectSeq([k \in 1..Len(cl.packets) |-> k], LAMBDA k : ~cl.packets[k].padding)
      Keeps(n) == IF cl.tag = "pad" THEN n - (n % Pad) ELSE n
  IN  [i \in 1..Len(real) |->
        [quick |-> cl.packets[real[i]].quick,
         body |-> [j \in 1..Keeps(cl.packets[real[i]].len) |-> <<"body", real[i], j>>]]]

(* Wherever the network cuts the stream of a client once the header has    *)
(* been read, the packets of tcp_rpcs_compact_parse_execute are the ones   *)
(* the client sent, in their order; when the whole stream is there, all of *)
(* them.  The client behind a PROXY header counts with the address the     *)
(* header names, and not at all when the access list refuses it.           *)
PacketsArrive ==
  Readable(client, reads) =>
    IF c.proxy \/ client.from = <<>> \/ client.from[1] \notin Banned
    THEN /\ c.status = "ok" /\ IsPrefix(c.done, Sends(client))
         /\ sent = Len(Known) => c.done = Sends(client)
         /\ ~c.proxy => c.remote = client.from
    ELSE c.status = "failed" /\ c.done = <<>>
=============================================================================
