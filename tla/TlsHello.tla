------------------------------ MODULE TlsHello ------------------------------
(* The TLS messages the proxy reads and writes: the ClientHello parsers of *)
(* net-tls-parse.c and net-ja4.c, the ClientHello that the domain probe    *)
(* sends, and the check of the answer.  Messages are sequences of bytes,   *)
(* positions count from 0.                                                 *)
EXTENDS Integers, Sequences, TLC

CONSTANTS
  Hellos,          \* [sid, ciphers, exts: sequences of [type, body]]
  Answers,         \* ServerHello messages, as records
  Domains,         \* lengths of domain names to probe
  Cuts,            \* how many bytes may be missing at the end
  MaxList          \* MAX_CIPHERS, MAX_EXTS, MAX_SIGALGS

VARIABLES
  message,         \* a member of Hellos, Answers or Domains, tagged
  cut              \* bytes missing at its end

tlsVars == <<message, cut>>

(* Bytes.                                                                  *)
B(h, p) == h[p + 1]
U16(h, p) == B(h, p) * 256 + B(h, p + 1)
Pair(n) == <<n \div 256, n % 256>>
Zeros(n) == [i \in 1..n |-> 0]
Is(h, p, s) == SubSeq(h, p + 1, p + Len(s)) = s
Flat(ss) ==
  LET f[n \in 0..Len(ss)] == IF n = 0 THEN <<>> ELSE f[n - 1] \o ss[n] IN f[Len(ss)]
Words(h, p, n) == [k \in 1..(n \div 2) |-> U16(h, p + 2 * (k - 1))]
FirstOf(s, n) == SubSeq(s, 1, IF Len(s) < n THEN Len(s) ELSE n)

Bad == [bad |-> TRUE]

-----------------------------------------------------------------------------
(* tls_parse_sni: the name in the first extension of type 0, for a session *)
(* id of 32 bytes.                                                         *)
SniIn(h, p, n, max) ==
  LET d == n - 5 IN
  IF p + 5 > Len(h) \/ U16(h, p) # n - 2 \/ B(h, p + 2) # 0 \/ U16(h, p + 3) # d
     \/ (\E i \in 0..d - 1 : B(h, p + 5 + i) = 0) \/ d >= max \/ d <= 0
  THEN Bad ELSE [name |-> SubSeq(h, p + 6, p + 5 + d)]

tls_parse_sni(h, max) ==
  LET walk[p \in 0..Len(h) + 1] ==
        IF p + 4 > Len(h) THEN Bad
        ELSE LET n == U16(h, p + 2) IN
             IF p + 4 + n > Len(h) THEN Bad
             ELSE IF U16(h, p) = 0 THEN SniIn(h, p + 4, n, max)
             ELSE walk[p + 4 + n]
  IN  IF 78 > Len(h) \/ 78 + U16(h, 76) + 4 > Len(h) THEN Bad
      ELSE walk[78 + U16(h, 76) + 4]

(* tls_parse_client_hello_ciphers: the first cipher that is not GREASE.    *)
GreaseBytes(h, p) == B(h, p) % 16 = 10 /\ B(h, p + 1) % 16 = 10
tls_parse_client_hello_ciphers(h) ==
  LET end == 78 + U16(h, 76)
      skip[p \in 78..end] == IF end - p >= 2 /\ GreaseBytes(h, p) THEN skip[p + 2] ELSE p
      p == skip[78]
  IN  IF 78 > Len(h) THEN Bad
      ELSE IF end > Len(h) \/ end - p <= 1 THEN Bad
      ELSE IF B(h, p) # 19 \/ B(h, p + 1) \notin 1..3 THEN Bad
      ELSE [cipher |-> B(h, p + 1)]

-----------------------------------------------------------------------------
(* ja4_parse and ja4_compute.  The hashes are kept as what is hashed.      *)
Grease(v) == v \div 256 = v % 256 /\ v % 16 = 10
NotGrease(v) == ~Grease(v)
Minor(v) == IF v \div 256 = 3 /\ v % 256 \in 1..4 THEN v % 256 ELSE 0
Ordered(s) == SortSeq(s, <)
ListMax(S) == CHOOSE n \in S : \A m \in S : m <= n

(* The extensions as a sequence of [type, p, n]; Bad if one does not fit.  *)
Extensions(h, from, end) ==
  LET walk[p \in from..end] ==
        IF p + 4 > end THEN <<>>
        ELSE LET n == U16(h, p + 2) IN
             IF p + 4 + n > end THEN <<Bad>>
             ELSE <<[bad |-> FALSE, type |-> U16(h, p), p |-> p + 4, n |-> n]>> \o walk[p + 4 + n]
  IN  SelectSeq(walk[from], LAMBDA e : e.bad \/ NotGrease(e.type))

VersionIn(h, e, before) ==
  LET n == B(h, e.p)
      found == {Minor(v) : v \in {U16(h, e.p + 1 + 2 * k) : k \in 0..(n \div 2) - 1}}
  IN  IF e.n < 1 THEN before
      ELSE IF n <= 0 \/ n + 1 > e.n \/ n % 2 = 1 \/ ListMax(found) = 0 THEN before
      ELSE ListMax(found)

SigAlgsShort(h, e) ==
  IF e.n < 2 THEN <<>>
  ELSE LET n == U16(h, e.p) IN
       IF n = 0 \/ n > e.n \/ n % 2 = 1 THEN <<>> ELSE Words(h, e.p, n)

SigAlgsIn(h, e) ==
  IF e.n < 2 THEN <<>>
  ELSE LET n == U16(h, e.p) IN
       IF n = 0 \/ n + 2 > e.n \/ n % 2 = 1 THEN <<>> ELSE Words(h, e.p + 2, n)

AlpnIn(h, e, end, before) ==
  IF e.n < 3 THEN before
  ELSE LET n == B(h, e.p + 2) IN
       IF U16(h, e.p) = 0 \/ U16(h, e.p) + 2 > e.n \/ n = 0 \/ e.p + 3 + n > end THEN before
       ELSE <<B(h, e.p + 3), B(h, e.p + 2 + n)>>

Printable(b) == 32 <= b /\ b < 127
Alpn(a) ==
  IF a = <<0, 0>> THEN <<"0", "0">>
  ELSE IF Printable(a[1]) /\ Printable(a[2]) THEN a ELSE <<a[1] \div 16, a[1] % 16>>

Ja4Of(version, sni, ciphers, all, exts, sigs, alpn) ==
  [bad |-> FALSE, version |-> version, sni |-> sni, ciphers |-> Len(ciphers),
   exts |-> IF all > 99 THEN 99 ELSE all, alpn |-> Alpn(alpn), b |-> Ordered(ciphers), c |-> <<Ordered(exts), sigs>>]

(* What a walk over the extensions es adds up to.                          *)
Ja4Walk(h, es, end, version, ciphers) ==
  LET Ext(n) == es[n]
      ver[n \in 0..Len(es)] == IF n = 0 THEN version
        ELSE IF Ext(n).type = 43 THEN VersionIn(h, Ext(n), ver[n - 1]) ELSE ver[n - 1]
      alpn[n \in 0..Len(es)] == IF n = 0 THEN <<0, 0>>
        ELSE IF Ext(n).type = 16 THEN AlpnIn(h, Ext(n), end, alpn[n - 1]) ELSE alpn[n - 1]
      sigs == Flat([n \in 1..Len(es) |-> IF es[n].type = 13 THEN SigAlgsIn(h, es[n]) ELSE <<>>])
      kept == SelectSeq([n \in 1..Len(es) |-> es[n].type], LAMBDA t : t \notin {0, 16})
  IN  Ja4Of(ver[Len(es)], \E n \in DOMAIN es : es[n].type = 0, FirstOf(ciphers, MaxList), Len(es),
            FirstOf(kept, MaxList), FirstOf(sigs, MaxList), alpn[Len(es)])

ja4_extensions(h, p, version, ciphers) ==
  LET end == p + 2 + U16(h, p)
      es == Extensions(h, p + 2, end)
  IN  IF p + 2 > Len(h) THEN Ja4Of(version, FALSE, FirstOf(ciphers, MaxList), 0, <<>>, <<>>, <<0, 0>>)
      ELSE IF end > Len(h) THEN Bad
      ELSE IF \E n \in DOMAIN es : es[n].bad THEN Bad
      ELSE Ja4Walk(h, es, end, version, ciphers)

ja4_ciphers(h, p) ==
  LET n == U16(h, p)
      q == p + 2 + n
      ciphers == SelectSeq(Words(h, p + 2, n), NotGrease)
  IN  IF p + 2 > Len(h) THEN Bad
      ELSE IF n % 2 = 1 \/ q > Len(h) THEN Bad
      ELSE IF q + 1 > Len(h) THEN Bad
      ELSE IF q + 1 + B(h, q) > Len(h) THEN Bad
      ELSE ja4_extensions(h, q + 1 + B(h, q), IF B(h, 9) = 3 /\ B(h, 10) \in 1..4 THEN B(h, 10) ELSE 0, ciphers)

ja4_compute(h) ==
  IF Len(h) < 44 THEN Bad
  ELSE IF 44 + B(h, 43) > Len(h) THEN Bad ELSE ja4_ciphers(h, 44 + B(h, 43))

-----------------------------------------------------------------------------
(* create_request: the hello of the domain probe.  Random bytes are 7, the *)
(* bytes of the name 100; g are the seven GREASE bytes.                    *)
Rand(n) == [i \in 1..n |-> 7]
NameOf(d) == [i \in 1..d |-> 100]
TLS_REQUEST_LENGTH == 517
GreaseOf(g, i) == <<g[i + 1], g[i + 1]>>

(* Random greases, made different from their neighbours in pairs.          *)
Greases(r) ==
  LET byte == [i \in 1..7 |-> (r[i] \div 16) * 16 + 10]
      Flip(b) == IF (b \div 16) % 2 = 0 THEN b + 16 ELSE b - 16
  IN  [i \in 1..7 |-> IF i % 2 = 0 /\ byte[i] = byte[i - 1] THEN Flip(byte[i]) ELSE byte[i]]

CipherList ==
  <<19, 1, 19, 2, 19, 3, 192, 43, 192, 47, 192, 44, 192, 48, 204, 169, 204, 168,
    192, 19, 192, 20, 0, 156, 0, 157, 0, 47, 0, 53, 0, 10>>
BeforePadding(g, d) == Flat(<<
  <<22, 3, 1, 2, 0, 1, 0, 1, 252, 3, 3>>, Rand(32), <<32>>, Rand(32), Pair(34), GreaseOf(g, 0),
  CipherList, <<1, 0, 1, 145>>, GreaseOf(g, 2), <<0, 0>>, <<0, 0>>,
  Pair(d + 5), Pair(d + 3), <<0>>, Pair(d), NameOf(d),
  <<0, 23, 0, 0, 255, 1, 0, 1, 0, 0, 10, 0, 10, 0, 8>>, GreaseOf(g, 4),
  <<0, 29, 0, 23, 0, 24, 0, 11, 0, 2, 1, 0, 0, 35, 0, 0, 0, 16, 0, 14, 0, 12, 2, 104, 50, 8>>,
  <<104, 116, 116, 112, 47, 49, 46, 49, 0, 5, 0, 5, 1, 0, 0, 0, 0, 0, 13, 0, 20, 0, 18>>,
  <<4, 3, 8, 4, 4, 1, 5, 3, 8, 5, 5, 1, 8, 6, 6, 1, 2, 1, 0, 18, 0, 0, 0, 51, 0, 43, 0, 41>>,
  GreaseOf(g, 4), <<0, 1, 0, 0, 29, 0, 32>>, Rand(32),
  <<0, 45, 0, 2, 1, 1, 0, 43, 0, 11, 10>>, GreaseOf(g, 6),
  <<3, 4, 3, 3, 3, 2, 3, 1, 0, 27, 0, 3, 2, 0, 2>>, GreaseOf(g, 3), <<0, 1, 0>>, <<0, 21>>>>)

create_request(g, d) ==
  LET head == BeforePadding(g, d)
      padding == TLS_REQUEST_LENGTH - 2 - Len(head)
  IN  head \o Pair(padding) \o Zeros(padding)

-----------------------------------------------------------------------------
(* tls_check_server_hello: the order of the two extensions and the sizes   *)
(* of the encrypted records that follow.                                   *)
RecordSizes(h, from) ==
  LET walk[p \in from..Len(h)] ==
        IF p + 5 > Len(h) \/ ~Is(h, p, <<23, 3, 3>>) THEN <<>>
        ELSE LET n == U16(h, p + 3) IN
             IF n = 0 \/ p + 5 + n > Len(h) THEN <<>> ELSE <<n>> \o walk[p + 5 + n]
  IN  walk[from]

(* The extensions: key share (51, 36 bytes) and version (43, 2 bytes).     *)
ServerExtensions(h, end) ==
  LET walk[p \in 81..end] ==
        IF p >= end - 4 THEN IF p = end THEN <<>> ELSE <<0>>
        ELSE LET id == U16(h, p)
                 n == U16(h, p + 2)
             IN  IF id \notin {51, 43} \/ p + 4 + n > end \/ n # (IF id = 51 THEN 36 ELSE 2) THEN <<0>>
                 ELSE <<id>> \o walk[p + 4 + n]
  IN  walk[81]

tls_check_server_hello(h, sid, retry) ==
  LET n == U16(h, 3)
      end == 5 + n
      ids == ServerExtensions(h, end)
      sizes == RecordSizes(h, end + 6)
  IN  IF Len(h) < 5 THEN Bad
      ELSE IF ~Is(h, 0, <<22, 3, 3>>) \/ n <= 39 \/ end > Len(h) THEN Bad
      ELSE IF ~Is(h, 5, <<2, 0>>) \/ ~Is(h, 9, <<3, 3>>) \/ Is(h, 11, retry) \/ B(h, 43) # 32 THEN Bad
      ELSE IF n <= 75 THEN Bad
      ELSE IF ~Is(h, 44, sid) \/ ~Is(h, 76, <<19, 1, 0>>) \/ U16(h, 79) + 76 # n THEN Bad
      ELSE IF ids \notin {<<51, 43>>, <<43, 51>>} \/ end + 6 > Len(h) THEN Bad
      ELSE IF ~Is(h, end, <<20, 3, 3, 0, 1, 1>>) \/ sizes = <<>> THEN Bad
      ELSE [bad |-> FALSE, reversed |-> ids[1] = 43, sizes |-> sizes]

-----------------------------------------------------------------------------
(* The messages that are read.  A ClientHello has a session id of sid      *)
(* bytes, ciphers and extensions [kind, list]; an answer says what is      *)
(* wrong with it, if anything, and how large its records are.              *)
Kinds == [sni |-> 0, versions |-> 43, sigs |-> 13, alpn |-> 16, other |-> 10, grease |-> 2570]
Body(e) ==
  LET words == Flat([i \in DOMAIN e.list |-> Pair(e.list[i])]) IN
  CASE e.kind = "sni" -> Pair(Len(e.list) + 3) \o <<0>> \o Pair(Len(e.list)) \o e.list
    [] e.kind = "versions" -> <<Len(words)>> \o words
    [] e.kind = "sigs" -> Pair(Len(words)) \o words
    [] e.kind = "alpn" -> Pair(Len(e.list) + 1) \o <<Len(e.list)>> \o e.list
    [] OTHER -> e.list
ExtBytes(e) == Pair(Kinds[e.kind]) \o Pair(Len(Body(e))) \o Body(e)
ClientHello(m) ==
  LET exts == Flat([i \in DOMAIN m.exts |-> ExtBytes(m.exts[i])])
      body == Flat(<<<<3, 3>>, Rand(32), <<m.sid>>, Rand(m.sid), Pair(2 * Len(m.ciphers)),
                     Flat([i \in DOMAIN m.ciphers |-> Pair(m.ciphers[i])]), <<1, 0>>, Pair(Len(exts)), exts>>)
  IN  <<22, 3, 1>> \o Pair(Len(body) + 4) \o <<1, 0>> \o Pair(Len(body)) \o body

Retry == [i \in 1..32 |-> 9]
ServerHello(a) ==
  LET share == Pair(51) \o Pair(36) \o Rand(36)
      version == Pair(43) \o Pair(2) \o <<3, 4>>
      exts == CASE a.exts = "share" -> share \o version [] a.exts = "version" -> version \o share
                [] a.exts = "twice" -> version \o version [] OTHER -> share
      body == Flat(<<<<2, 0>>, Pair(72 + Len(exts)), <<3, 3>>, IF a.retry THEN Retry ELSE Rand(32),
                     <<32>>, IF a.mirror THEN Rand(32) ELSE Zeros(32), <<19, 1, 0>>, Pair(Len(exts)), exts>>)
  IN  Flat(<<<<22, 3, 3>>, Pair(Len(body)), body, IF a.ccs THEN <<20, 3, 3, 0, 1, 1>> ELSE <<>>,
             Flat([i \in DOMAIN a.sizes |-> <<23, 3, 3>> \o Pair(a.sizes[i]) \o Rand(a.sizes[i])])>>)

TlsInit ==
  /\ message \in [kind : {"hello"}, m : Hellos] \cup [kind : {"answer"}, m : Answers] \cup [kind : {"probe"}, m : Domains]
  /\ cut = 0
(* The connection delivers the message in pieces: a prefix is read first.  *)
Shorten ==
  /\ cut < Cuts /\ message.kind # "probe" /\ cut' = cut + 1 /\ UNCHANGED message
TlsNext == Shorten

Cut(h) == SubSeq(h, 1, Len(h) - cut)

-----------------------------------------------------------------------------
OfKind(m, k) == SelectSeq(m.exts, LAMBDA e : e.kind = k)
LastList(m, k, none) == LET es == OfKind(m, k) IN IF es = <<>> THEN none ELSE es[Len(es)].list
Ja4Expected(m) ==
  LET kinds == SelectSeq(m.exts, LAMBDA e : e.kind # "grease")
      types == [i \in DOMAIN kinds |-> Kinds[kinds[i].kind]]
      minors == {Minor(v) : v \in {LastList(m, "versions", <<>>)[i] : i \in DOMAIN LastList(m, "versions", <<>>)}} \cup {0}
      alpn == LastList(m, "alpn", <<0>>)
  IN  Ja4Of(IF ListMax(minors) = 0 THEN 3 ELSE ListMax(minors), OfKind(m, "sni") # <<>>,
            FirstOf(SelectSeq(m.ciphers, NotGrease), MaxList), Len(kinds),
            FirstOf(SelectSeq(types, LAMBDA t : t \notin {0, 16}), MaxList),
            FirstOf(LastList(m, "sigs", <<>>), MaxList), <<alpn[1], alpn[Len(alpn)]>>)

SniExpected(m) == IF OfKind(m, "sni") = <<>> THEN Bad ELSE [name |-> OfKind(m, "sni")[1].list]

(* The prefix of records that is complete.                                 *)
Whole(a) ==
  LET total[n \in 0..Len(a.sizes)] == IF n = 0 THEN 0 ELSE total[n - 1] + 5 + a.sizes[n]
      n == ListMax({k \in 0..Len(a.sizes) : k = 0 \/ total[k] <= total[Len(a.sizes)] - cut})
  IN  SubSeq(a.sizes, 1, n)

(* The parsers read what was written, never outside the bytes that have    *)
(* arrived: JA4 and the name of a whole ClientHello are those of its       *)
(* extensions, a shortened one gives no other name; a good ServerHello is  *)
(* accepted with the order of its extensions and the records that are      *)
(* complete, a bad one is not; and the probe's own hello, for every name   *)
(* that fits, is 517 bytes long, carries two different GREASE extensions   *)
(* and is read by the proxy's parsers.                                     *)
HellosRead ==
  /\ message.kind = "hello" =>
       LET m == message.m
           h == Cut(ClientHello(m))
           ja4 == ja4_compute(h)
       IN  /\ cut = 0 => ja4 = Ja4Expected(m)
           /\ m.sid = 32 =>
                /\ tls_parse_sni(h, 256) \in {Bad, SniExpected(m)} /\ (cut = 0 => tls_parse_sni(h, 256) = SniExpected(m))
                /\ tls_parse_client_hello_ciphers(h) \in {Bad, [cipher |-> m.ciphers[Len(m.ciphers)] % 256]}
  /\ message.kind = "answer" =>
       LET a == message.m
           good == a.exts \in {"share", "version"} /\ ~a.retry /\ a.mirror /\ a.ccs /\ Whole(a) # <<>>
           seen == tls_check_server_hello(Cut(ServerHello(a)), Rand(32), Retry)
       IN  seen = IF good THEN [bad |-> FALSE, reversed |-> a.exts = "version", sizes |-> Whole(a)] ELSE Bad
  /\ message.kind = "probe" =>
       LET d == message.m[1]
           g == Greases(message.m[2])
           h == create_request(g, d)
       IN  /\ Len(h) = TLS_REQUEST_LENGTH /\ g[3] # g[4]
           /\ tls_parse_sni(h, 256) = [name |-> NameOf(d)]
           /\ tls_parse_client_hello_ciphers(h) = [cipher |-> 1]
           /\ ~ja4_compute(h).bad /\ ja4_compute(h).version = 4 /\ ja4_compute(h).exts = 15
=============================================================================
