-------------------------------- MODULE MCFormats --------------------------------
(* Components that read and write formats: each has a small instance, they *)
(* share no state, and a behaviour moves one of them.                      *)
EXTENDS HttpServer, Type3Stream, Type3Output, TlsHello, DomainTable, EngineRpc,
        TlState, IpAcl, ConfigFile, DcTable

(* HTTP: one of these requests, then another one.  They have every method, *)
(* page, version and header that the server tells apart.                   *)
Req(m, u, v, hs, e) == [method |-> m, uri |-> u, version |-> v, headers |-> hs, eol |-> e]
Get == <<"GE", "T">>
V11 == <<"HTTP/", "1.1">>
StatsPage == <<"/", "stats">>
Crlf == <<"CR", "LF">>

HeaderLists ==
  {<<>>, <<"keep">>, <<"host", "keep">>, <<"keep", "emptyhost">>, <<"len0">>, <<"len9">>,
   <<"len99", "keep">>, <<"len9", "len0">>, <<"len999">>, <<"lennone">>, <<"nocolon">>,
   <<"longname">>, <<"longline">>, <<"other", "keep">>, <<"close", "keep">>}

FirstRequests ==
  {Req(Get, <<"/", page>>, V11, <<"host", "keep">>, e) :
    page \in {"stats", "link", "x"}, e \in {Crlf, <<"LF">>}}
  \cup {Req(m, StatsPage, V11, hs, Crlf) : m \in {Get, <<"PO", "ST">>}, hs \in HeaderLists}
  \cup {Req(m, StatsPage, v, <<"keep">>, Crlf) :
         m \in {Get, <<"HEAD">>, <<"GE", "x">>},
         v \in {V11, <<"HTTP/", "1.0">>, <<"HTTP/", "2.0">>, <<"HTTP/">>, <<>>}}
  \cup {Req(Get, u, <<>>, <<>>, Crlf) : u \in {<<>>, <<"x", "x", "x", "x", "x">>}}

MCStreams == {<<r, Req(Get, StatsPage, <<>>, <<>>, <<"LF">>)>> : r \in FirstRequests}

(* Type3: every transport and packet format, frames that cut packets in    *)
(* different places, with and without a PROXY header.                      *)
PacketOf(n, quick) == [len |-> n, quick |-> quick, padding |-> FALSE]
Filler(n) == [len |-> n, quick |-> FALSE, padding |-> TRUE]
ClientOf(how, tag, packets, frames) ==
  [how |-> how, tag |-> tag, packets |-> packets, frames |-> frames, proxy |-> <<>>,
   from |-> <<>>, only_tls |-> FALSE, padding |-> FALSE, hello |-> 0]

TextHeader(family, ip) ==
  <<<<"PROXY">>, <<family>>, ip, <<"SP">>, <<"d">>, <<"SP">>, <<"port">>, <<"SP">>, <<"dport">>, <<"CRLF">>>>
BinaryHeader(family, ip) ==
  <<<<"SIG1">>, <<"SIG2">>, <<"2", "proxy">>, <<family>>, <<"size", 4>>, ip, <<"d">>, <<"port">>, <<"tlv">>>>
From(ip) == <<ip, <<"port">>>>
ProxyHeaders ==
  {<<TextHeader("TCP4", <<"4a">>), From(<<"4a">>)>>, <<TextHeader("TCP6", <<"6a">>), From(<<"6a">>)>>,
   <<TextHeader("TCP4", <<"4b">>), From(<<"4b">>)>>, <<<<<<"PROXY">>, <<"UNKNOWN">>, <<"CRLF">>>>, <<>>>>,
   <<BinaryHeader("inet", <<"4a">>), From(<<"4a">>)>>, <<BinaryHeader("inet6", <<"6a">>), From(<<"6a">>)>>,
   <<<<<<"SIG1">>, <<"SIG2">>, <<"2", "local">>, <<"none">>, <<"size", 0>>>>, <<>>>>}

Packets2 == <<PacketOf(2, FALSE), PacketOf(4, TRUE)>>
Padded2 == <<PacketOf(3, FALSE), PacketOf(2, TRUE)>>
Framings == {<<6, 3, 2>>, <<2, 4, 1, 3>>, <<9>>}

MCClients ==
  {ClientOf(how, tag, Packets2, fs) : how \in {"ws", "http"}, tag \in {"compact", "medium"}, fs \in Framings}
  \cup {ClientOf("ws", "pad", Padded2, <<8, 3>>),
        [ClientOf("ws", "compact", <<PacketOf(2, FALSE), Filler(3), PacketOf(2, TRUE)>>, <<9, 3, 2>>)
           EXCEPT !.padding = TRUE]}
  \cup {ClientOf("plain", tag, Packets2, <<>>) : tag \in {"compact", "medium"}}
  \cup {[ClientOf("plain", "compact", Packets2, <<>>) EXCEPT !.proxy = h[1], !.from = h[2]] : h \in ProxyHeaders}
  \cup {[ClientOf("tls", "pad", Padded2, fs) EXCEPT !.only_tls = TRUE, !.hello = 12] :
         fs \in {<<6, 3, 2>>, <<8, 3>>}}
  \cup {[ClientOf("tls", "pad", Padded2, fs) EXCEPT !.only_tls = TRUE, !.hello = 6,
           !.proxy = BinaryHeader("inet", <<"4a">>), !.from = From(<<"4a">>)] : fs \in {<<6, 3, 2>>, <<8, 3>>}}

MCV4 == {<<"4a">>, <<"4b">>}
MCV6 == {<<"6a">>}
MCBanned == {<<"4b">>}

(* Output: amounts around the sizes at which the frame header grows.       *)
MCWrites ==
  [padded |-> {1, 5, 126, 253, 70000}, ws |-> {1, 125, 126, 4097, 70000},
   http |-> {1, 16385, 40000}, tls |-> {1, 1426, 3000}, none |-> {1, 9}]

(* Hellos with and without each extension that is read, lists up to more   *)
(* than fits; server answers; names of the shortest and longest length.    *)
Ext(kind, list) == [kind |-> kind, list |-> list]
SniExt == Ext("sni", <<97, 98>>)
ExtLists ==
  {<<>>, <<SniExt>>,
   <<Ext("grease", <<>>), Ext("versions", <<2570, 772, 771>>), SniExt, Ext("other", <<1>>)>>,
   <<Ext("alpn", <<104, 50>>), Ext("sigs", <<1027, 2052>>), SniExt>>,
   <<Ext("alpn", <<1, 50, 51>>), Ext("sigs", <<>>)>>,
   <<Ext("versions", <<770>>), Ext("other", <<>>), Ext("other", <<>>), Ext("alpn", <<104>>), Ext("other", <<9>>)>>,
   <<Ext("sigs", <<4, 3, 2, 1>>), Ext("versions", <<>>), Ext("grease", <<>>)>>}
MCHellos == [sid : {0, 32}, ciphers : {<<4865>>, <<2570, 4866>>, <<2570, 6682, 4867>>}, exts : ExtLists]
MCAnswers ==
  [exts : {"share", "version", "twice", "one"}, retry : {FALSE}, mirror : BOOLEAN, ccs : BOOLEAN,
   sizes : {<<>>, <<3>>, <<2, 1>>}]
  \cup [exts : {"share"}, retry : {TRUE}, mirror : {TRUE}, ccs : {TRUE}, sizes : {<<3>>}]
MCDomains == {1, 2, 15, 216} \X {<<0, 0, 0, 0, 0, 0, 0>>, <<0, 16, 32, 32, 48, 255, 1>>}

(* Domains, wildcards and near misses of both.                             *)
MCAdded ==
  {<<"*", ".", "a", ".", "a">>, <<"*", ".", "a">>, <<"*", ".", ".", "a">>, <<"a", ".", "a", ".", "a">>,
   <<"a", ".", "a">>, <<"*", ".", "a", ".", "b">>, <<"b", ".", "a", ".", "a">>, <<"*", "a", ".", "a">>,
   <<"*", ".", "a", ".", "a", ".">>}

(* Queries with up to two header options; statistics with good lines and   *)
(* lines that are no pair; error texts around the length 254.              *)
QueryOption(kind, actor, flags) == <<kind, actor, flags>>
QueryOptions ==
  {QueryOption("DEST_ACTOR", a, "0") : a \in {"0", "5"}}
  \cup {QueryOption("DEST_ACTOR_FLAGS", a, f) : a \in {"0", "5"}, f \in {"0", "1"}}
  \cup {QueryOption("DEST_FLAGS", "0", f) : f \in {"0", "1"}}
MCTlQueries ==
  [options : {<<>>} \cup {<<o>> : o \in QueryOptions} \cup (QueryOptions \X QueryOptions),
   function : {"NOP", "STAT", "OTHER"}, extra : {0, 4}]
MCStatTexts ==
  {<<"a", "T", "b", "N", "a", "T", "N", "T", "b", "N", "a", "T", "b", "T", "c", "N", "a", "N", "N",
     "a", "b", "T", "c", "N", "d", "T", "e">>}
MCTextLength == [NOT_ENOUGH_DATA |-> 3, HEADER |-> 253, UNKNOWN_FUNCTION_ID |-> 254, EXTRA_DATA |-> 255]

(* Access lists with networks of both families, single addresses and lines *)
(* that cannot be read.                                                    *)
Net(net, prefix) == [kind |-> "net", net |-> net, prefix |-> prefix]
Junk == [kind |-> "junk", net |-> <<>>, prefix |-> -1]
MCMapped == <<0, 1>>
MCAclFiles ==
  {[state |-> "unreadable", lines |-> <<>>]} \cup
  {[state |-> "text", lines |-> lines] :
    lines \in {<<>>, <<Junk, Net(<<1, 0>>, 1)>>, <<Net(<<0, 1>>, -1), Net(<<1, 1, 1, 0>>, 3)>>,
               <<Net(<<0, 1, 1, 0>>, -1), Net(<<1, 1>>, 0), Net(<<1, 1>>, 3)>>, <<Net(<<1, 0, 0, 1>>, 1)>>,
               <<Net(<<0, 0, 1, 1>>, 0), Junk>>, <<Net(<<0, 0>>, -1)>>}}

(* Configuration files: every directive, right and wrong, among others.    *)
Statement(word, n, host) == [word |-> word, n |-> n, host |-> host, port |-> 443, semicolon |-> TRUE]
Proxies ==
  {Statement("proxy", 0, "a"), Statement("proxy_for", 1, "a"), Statement("proxy_for", -2, "c"), Statement("proxy_for", 1, "b"),
   Statement("proxy_for", 0, "b")}
Lines ==
  Proxies \cup
  {Statement("default", 1, "a"), Statement("default", 3, "a"), Statement("min_connections", 9, "a"),
   Statement("max_connections", 9, "a"), Statement("timeout", 9, "a"), Statement("timeout", 99, "a"),
   Statement("proxy_for", 2, "a"), Statement("other", 2, "a"),
   [Statement("proxy", 0, "b") EXCEPT !.semicolon = FALSE], [Statement("proxy", 0, "b") EXCEPT !.port = 0]}
MCConfFiles ==
  {[ok |-> FALSE, lines |-> <<>>]} \cup
  {[ok |-> TRUE, lines |-> lines] :
    lines \in {<<Statement("min_connections", 2, "a"), Statement("proxy", 0, "b")>>,
               <<Statement("proxy", 0, "a"), Statement("proxy_for", 1, "b"), Statement("proxy_for", -1, "b"),
                 Statement("proxy_for", -1, "c")>>,
               [i \in 1..5 |-> Statement("proxy", 0, "a")]}
              \cup (Proxies \X Lines \X {Statement("proxy", 0, "a"), Statement("proxy_for", 1, "b")})}

(* Data centre numbers: production, media, CDN, test, and near misses.     *)
MCAskedDcs ==
  {-10002, -203, -3, -1, 0, 1, 3, 5, 6, 200, 201, 205, 206, 300, 9999, 10000, 10001, 10003, 10004, 10203, 10205}
MCBounds == <<0, 1, 3>>
-----------------------------------------------------------------------------
VARIABLE turn      \* the component that moves

formatVars ==
  <<turn, httpVars, clock, t3Vars, outVars, tlsVars, domVars, probeVars, rpcVars, tlVars, aclVars, confVars,
    dcVars, dcProbeVars>>

Components == {"http", "date", "type3", "output", "hello", "names", "probe", "rpc", "tl", "acl", "config", "routes",
               "latency"}

(* A component that does not move has one initial state.                   *)
Pinned(component, state) == turn = component \/ state
AnyOf(S) == CHOOSE e \in S : TRUE

FormatInit ==
  /\ turn \in Components
  /\ HttpInit /\ Pinned("http", requests = AnyOf(Streams) /\ allowed)
  /\ DateInit /\ Pinned("date", clock = AnyOf(ClockTimes))
  /\ T3Init /\ Pinned("type3", client = AnyOf(Clients))
  /\ OutInit /\ Pinned("output", transport = "none")
  /\ TlsInit /\ Pinned("hello", message.kind = "probe" /\ message.m = AnyOf(Domains))
  /\ DomInit /\ ProbeInit
  /\ RpcInit /\ Pinned("rpc", packet = AnyOf(Packets))
  /\ TlInit /\ Pinned("tl", asked.query = AnyOf(TlQueries))
  /\ AclInit /\ Pinned("acl", blocklist_file = NoFile /\ allowlist_file = NoFile)
  /\ ConfInit /\ Pinned("config", ~ conf_file.ok)
  /\ DcInit /\ Pinned("routes", ~ ipv6_enabled) /\ dc_probes_init /\ Pinned("latency", probe_interval = AnyOf(Intervals))

Still(component, variables) == IF turn = component THEN TRUE ELSE UNCHANGED variables

(* The probes run with the built-in addresses, or without one for DC 1.    *)
ProbeRoutes ==
  /\ \/ given = <<>> /\ \E host \in V6Hosts : TomlOverride(1, host)
     \/ direct_dc_probe_ipv6
  /\ UNCHANGED dcProbeVars

FormatNext ==
  /\ UNCHANGED turn
  /\ Still("http", httpVars) /\ Still("date", clock) /\ Still("type3", t3Vars) /\ Still("output", outVars)
  /\ Still("hello", tlsVars) /\ Still("names", domVars) /\ Still("probe", probeVars) /\ Still("rpc", rpcVars)
  /\ Still("tl", tlVars) /\ Still("acl", aclVars) /\ Still("config", confVars)
  /\ (turn \in {"routes", "latency"} \/ UNCHANGED dcVars) /\ Still("latency", dcProbeVars)
  /\ \/ turn = "http" /\ HttpNext
     \/ turn = "date" /\ Tomorrow
     \/ turn = "type3" /\ T3Next
     \/ turn = "output" /\ OutNext
     \/ turn = "hello" /\ TlsNext
     \/ turn = "names" /\ DomNext
     \/ turn = "probe" /\ ProbeNext
     \/ turn = "rpc" /\ RpcNext
     \/ turn = "tl" /\ TlNext
     \/ turn = "acl" /\ AclNext
     \/ turn = "config" /\ ConfNext
     \/ turn = "routes" /\ DcNext
     \/ turn = "latency" /\ (ProbeRoutes \/ DcProbesNext)

FormatSpec == FormatInit /\ [][FormatNext]_formatVars

(* A property is looked at where its component moves.                      *)
Holds(component, property) == turn = component => property

(* However the stream of requests is cut into pieces, the server answers   *)
(* what the stream deserves, in order, and closes where it must            *)
(* (hts_parse_execute); and the date it writes is the date of the clock    *)
(* (gen_http_date, gen_http_time).                                         *)
HttpRight == Holds("http", HttpAnswers) /\ Holds("date", DatesRight)


(* What is read from a ClientHello or ServerHello is what was put there, a *)
(* cut one is refused, and the hello the proxy makes has the sizes it      *)
(* announces (tls_parse_sni, ja4_parse, tls_check_server_hello,            *)
(* create_request).  A name is served by the domain that names it, else by *)
(* the wildcard that matches it (get_sni_domain_info); and the size a      *)
(* probe leaves is one its connections measured, within the noise, or the  *)
(* default (update_domain_info).                                           *)
HellosRight ==
  Holds("hello", HellosRead) /\ Holds("names", NamesFound) /\ Holds("probe", ProbeRight)

(* A query to the engine is answered once, whichever of its subjobs, alarm *)
(* or error comes first (process_query_job); and its answer, whole or an   *)
(* error, reads back as what was deserved (tls_end_ext,                    *)
(* tlf_query_answer_header).                                               *)
QueriesAnswered == Holds("rpc", AnsweredOnce) /\ Holds("tl", AnswerReadsBack)

=============================================================================
