----------------------------- MODULE HttpServer -----------------------------
(* The HTTP side of the statistics port: the parser of net-http-parse.c,   *)
(* the connection handler of net-http-server.c and the statistics pages of *)
(* mtproto-proxy-http.c.  A byte of the model is a word, part of a word or *)
(* one separator; sizes count these.  The client's stream is written from  *)
(* records of what its requests are, and arrives in arbitrary pieces.      *)
EXTENDS Integers, Sequences, FiniteSets, SequencesExt

CONSTANTS
  Streams,         \* sequences of requests a client may send
  MaxPieces,       \* into how many pieces the network cuts a stream
  MaxWord,         \* the length of word after which a request is refused
  MaxHeader,       \* MAX_HTTP_HEADER_SIZE
  MaxSize          \* 0x7fffffff / 10

VARIABLES
  requests,        \* what the client sends
  allowed,         \* the client's address is private or in the stats list
  got,             \* bytes of the stream that have arrived
  cuts,            \* where the pieces of the input buffer end
  pos,             \* bytes of the stream that the server has taken
  hts,             \* struct hts_data of the connection
  answers,         \* what the server has written
  conn             \* "working", "write_close" or "failed"

httpVars == <<requests, allowed, got, cuts, pos, hts, answers, conn>>

-----------------------------------------------------------------------------
(* The client's bytes.                                                     *)

LineOf(h) ==
  CASE h = "host"      -> <<"Host", ":", "SP", "a.", "org">>
    [] h = "keep"      -> <<"Connection", ":", "keep", "-alive">>
    [] h = "close"     -> <<"Connection", ":", "SP", "close">>
    [] h = "len0"      -> <<"Content-Length", ":", "TAB", "0">>
    [] h = "len9"      -> <<"Content-Length", ":", "9", "SP">>
    [] h = "len99"     -> <<"Content-Length", ":", "9", "9">>
    [] h = "len999"    -> <<"Content-Length", ":", "9", "9", "9">>
    [] h = "lennone"   -> <<"Content-Length", ":", "SP">>
    [] h = "nocolon"   -> <<"Host", "SP", "a.">>
    [] h = "emptyhost" -> <<"Host", ":">>
    [] h = "longname"  -> [i \in 1..MaxWord + 1 |-> "x"] \o <<":">>
    [] h = "longline"  -> <<"x", ":">> \o [i \in 1..MaxHeader |-> "x"]
    [] h = "other"     -> <<"x", ":", "SP", "x", "SP", "x">>

RequestLine(r) ==
  r.method \o <<"SP">> \o r.uri
  \o (IF r.version = <<>> THEN <<>> ELSE <<"SP">> \o r.version)

Bytes(r) ==
  IF r.version = <<>> THEN RequestLine(r) \o r.eol
  ELSE RequestLine(r) \o r.eol
       \o FlattenSeq([i \in 1..Len(r.headers) |-> LineOf(r.headers[i]) \o r.eol]) \o r.eol

Stream == FlattenSeq([i \in 1..Len(requests) |-> Bytes(requests[i])])

-----------------------------------------------------------------------------
(* http_parse_data: D is the state, s the bytes that are left of a piece.  *)

Methods == (<<"GE", "T">> :> "get") @@ (<<"HEAD">> :> "head")
           @@ (<<"PO", "ST">> :> "post") @@ (<<"OPTIONS">> :> "options")
Versions == (<<"HTTP/", "1.0">> :> 256) @@ (<<"HTTP/", "1.1">> :> 257) @@ (<<>> :> 9)

Blank(b) == b \in {"SP", "TAB", "CR", "LF"}
Digit(b) == b \in {"0", "9"}
Value(b) == IF b = "9" THEN 9 ELSE 0

NewQuery ==
  [state |-> "readtospace", type |-> "none", flags |-> {}, words |-> 0, word |-> <<>>,
   header_size |-> 0, first_line_size |-> 0, data_size |-> -1, http_ver |-> 0,
   uri_offset |-> 0, uri_size |-> 0, host_offset |-> 0, host_size |-> 0]

(* The bytes before the first one that ends the run.                       *)
RunOf(s, Ends(_)) ==
  LET i == SelectInSeq(s, Ends) IN IF i = 0 THEN Len(s) ELSE i - 1

RestFrom(s, n) == SubSeq(s, n + 1, Len(s))
InState(D, state) == [D EXCEPT !.state = state]
BadLine(D) == [D EXCEPT !.state = "skiptoeoln", !.flags = @ \cup {"ERROR"}]
Took(D, n) == [D EXCEPT !.header_size = @ + n]
Parsed(D, s) == [d |-> D, rest |-> s]

HeaderValue(D) ==
  LET W == [D EXCEPT !.flags = @ \ {"HOST", "CONNECTION"}, !.state = "skipspctoeoln"]
  IN  IF D.word = <<>> THEN W
      ELSE IF "HOST" \in D.flags
      THEN [W EXCEPT !.host_offset = D.header_size, !.host_size = Len(D.word)]
      ELSE IF D.word = <<"keep", "-alive">> THEN [W EXCEPT !.flags = @ \cup {"KEEPALIVE"}]
      ELSE W

WordRead(D) ==
  CASE D.words = 1 ->
         IF D.word \in DOMAIN Methods
         THEN [D EXCEPT !.state = "skipspc", !.type = Methods[D.word]]
         ELSE BadLine([D EXCEPT !.type = "error"])
    [] D.words = 2 ->
         LET U == [D EXCEPT !.state = "skipspc", !.uri_offset = D.header_size,
                            !.uri_size = Len(D.word)]
         IN  IF D.word = <<>> THEN BadLine(U) ELSE U
    [] D.words = 3 ->
         IF D.word \in DOMAIN Versions
         THEN [D EXCEPT !.state = "skipspctoeoln", !.http_ver = Versions[D.word]]
         ELSE BadLine(D)
    [] OTHER -> HeaderValue(D)

EndOfWord(D, s) ==
  CASE Len(D.word) > MaxWord -> Parsed(InState(D, "fatal"), s)
    [] Len(D.word) <= MaxWord /\ s = <<>> -> Parsed(D, s)
    [] OTHER -> Parsed(Took(WordRead([D EXCEPT !.words = @ + 1]), Len(D.word)), s)

ReadWordAfresh(D, s) ==
  LET n == RunOf(s, Blank)
  IN  EndOfWord([D EXCEPT !.word = SubSeq(s, 1, n)], RestFrom(s, n))

ReadToSpace(D, s) ==
  LET n == RunOf(s, Blank)
  IN  EndOfWord([D EXCEPT !.word = @ \o SubSeq(s, 1, n)], RestFrom(s, n))

AfterSpaces(D, s) ==
  CASE D.header_size >= MaxHeader -> Parsed(InState(D, "fatal"), s)
    [] D.header_size < MaxHeader /\ s = <<>> -> Parsed(D, s)
    [] OTHER ->
         IF D.state = "skipspctoeoln" THEN Parsed(InState(D, "eoln"), s)
         ELSE IF D.words < 3 THEN Parsed([InState(D, "readtospace") EXCEPT !.word = <<>>], s)
         ELSE IF "DATASIZE" \in D.flags
         THEN Parsed(IF D.data_size # -1 THEN BadLine(D)
                   ELSE [InState(D, "readint") EXCEPT !.data_size = 0], s)
         ELSE IF D.flags \cap {"HOST", "CONNECTION"} # {}
         THEN Parsed([InState(D, "readtospace") EXCEPT !.word = <<>>], s)
         ELSE Parsed(InState(D, "skiptoeoln"), s)

(* What a loop that stops at the largest header takes of a run of n bytes. *)
Within(D, n) == IF D.header_size + n <= MaxHeader THEN n
                ELSE IF D.header_size >= MaxHeader THEN 0 ELSE MaxHeader - D.header_size

SkipSpaces(D, s) ==
  LET Stop(b) == b # "SP" /\ ~(b = "TAB" /\ D.words >= 8)
      n == Within(D, RunOf(s, Stop))
  IN  AfterSpaces(Took(D, n), RestFrom(s, n))

HeaderName ==
  (<<"Host">> :> "HOST") @@ (<<"Connection">> :> "CONNECTION") @@ (<<"Content-Length">> :> "DATASIZE")

ColonFound(D) ==
  [Took(InState(D, "skipspc"), Len(D.word) + 1) EXCEPT
     !.flags = IF D.word \in DOMAIN HeaderName THEN @ \cup {HeaderName[D.word]}
               ELSE @ \ {"HOST", "DATASIZE", "CONNECTION"}]

EndOfName(D, s) ==
  CASE Len(D.word) > MaxWord -> Parsed(InState(D, "fatal"), s)
    [] Len(D.word) <= MaxWord /\ s = <<>> -> Parsed(D, s)
    [] OTHER -> IF Head(s) = ":" THEN Parsed(ColonFound(D), Tail(s))
                ELSE Parsed(BadLine(Took(D, Len(D.word))), s)

ReadToColon(D, s) ==
  LET Stop(b) == b = ":" \/ Blank(b)
      n == RunOf(s, Stop)
  IN  EndOfName([D EXCEPT !.word = @ \o SubSeq(s, 1, n)], RestFrom(s, n))

(* A number that has grown too long marks the request bad but leaves the   *)
(* state to the tail of the case, which goes on behind the digits.         *)
EndOfInt(D, s) ==
  IF s = <<>> THEN Parsed(D, s)
  ELSE Parsed(IF "DATASIZE" \in D.flags THEN BadLine(D) ELSE InState(D, "skipspctoeoln"), s)

RECURSIVE ReadInt(_, _)
ReadInt(D, s) ==
  IF s = <<>> \/ ~Digit(Head(s)) THEN EndOfInt(D, s)
  ELSE IF D.data_size >= MaxSize THEN EndOfInt(BadLine(D), s)
  ELSE ReadInt([Took(D, 1) EXCEPT !.data_size = 10 * @ + Value(Head(s)),
                                  !.flags = @ \ {"DATASIZE"}], Tail(s))

LineStart(D, s) ==
  IF s = <<>> THEN Parsed(D, s)
  ELSE LET F == [D EXCEPT !.first_line_size = IF @ = 0 THEN D.header_size ELSE @]
       IN  CASE Head(s) = "CR" -> Parsed(Took(InState(F, "wantlastlf"), 1), Tail(s))
             [] Head(s) = "LF" -> Parsed(InState(F, "wantlastlf"), s)
             [] OTHER -> Parsed(IF "ERROR" \in F.flags THEN InState(F, "skiptoeoln")
                              ELSE [InState(F, "readtocolon") EXCEPT !.word = <<>>], s)

LineEnd(D, first, s) ==
  CASE first /\ "ERROR" \in D.flags -> Parsed(InState(D, "fatal"), s)
    [] ~(first /\ "ERROR" \in D.flags) /\ D.http_ver <= 9 -> Parsed(InState(D, "wantlastlf"), s)
    [] OTHER -> IF Head(s) # "LF" THEN Parsed(BadLine(D), s)
                ELSE LineStart(Took(InState(D, "linestart"), 1), Tail(s))

WantLf(D, s) ==
  IF s = <<>> THEN Parsed(D, s)
  ELSE LineEnd([D EXCEPT !.words = IF @ + 1 < 8 THEN 8 ELSE @ + 1], D.words + 1 < 8, s)

Eoln(D, s) ==
  IF s = <<>> THEN Parsed(D, s)
  ELSE IF Head(s) = "CR" THEN WantLf(Took(InState(D, "wantlf"), 1), Tail(s))
  ELSE WantLf(InState(D, "wantlf"), s)

EndOfLine(D, s) ==
  CASE D.header_size >= MaxHeader -> Parsed(InState(D, "fatal"), s)
    [] D.header_size < MaxHeader /\ s = <<>> -> Parsed(D, s)
    [] OTHER -> Eoln(InState(D, "eoln"), s)

SkipToEoln(D, s) ==
  LET Stop(b) == b \in {"CR", "LF"}
      n == Within(D, RunOf(s, Stop))
  IN  EndOfLine(Took(D, n), RestFrom(s, n))

WantLastLf(D, s) ==
  IF Head(s) # "LF" THEN Parsed(InState(D, "fatal"), s)
  ELSE Parsed([Took(InState(D, "done"), 1) EXCEPT
               !.first_line_size = IF @ = 0 THEN D.header_size + 1 ELSE @], Tail(s))

Pass(D, s) ==
  CASE D.state = "start" -> ReadToSpace(NewQuery, s)
    [] D.state = "readtospace" -> ReadToSpace(D, s)
    [] D.state \in {"skipspc", "skipspctoeoln"} -> SkipSpaces(D, s)
    [] D.state = "readtocolon" -> ReadToColon(D, s)
    [] D.state = "readint" -> ReadInt(D, s)
    [] D.state = "skiptoeoln" -> SkipToEoln(D, s)
    [] D.state = "eoln" -> Eoln(D, s)
    [] D.state = "wantlf" -> WantLf(D, s)
    [] D.state = "linestart" -> LineStart(D, s)
    [] D.state = "wantlastlf" -> WantLastLf(D, s)
    [] D.state = "fatal" -> Parsed([InState(D, "done") EXCEPT !.flags = @ \cup {"ERROR"}], s)

RECURSIVE http_parse_data(_)
http_parse_data(r) ==
  IF r.rest = <<>> \/ r.d.state = "done" THEN r ELSE http_parse_data(Pass(r.d, r.rest))

-----------------------------------------------------------------------------
(* The connection.  S is the stream, E the ends of the pieces of the input *)
(* buffer, full says that the buffers hold more than a connection may use. *)

KnownCodes == {200, 201, 202, 204, 206, 301, 302, 303, 304, 307, 400, 403, 404, 405, 406,
               408, 411, 413, 414, 418, 429, 501, 502, 503}

(* A version 0.9 request gets no header.                                   *)
HttpAnswer(D, code, body) ==
  [code |-> IF code \in KnownCodes THEN code ELSE 500, body |-> body,
   header |-> D.http_ver # 9, keep |-> "KEEPALIVE" \in D.flags]

Unflag(D, flag) == [D EXCEPT !.flags = @ \ {flag}]

(* What execute returns: a negative code or 0, the answer it has written,  *)
(* the state it leaves.                                                    *)
ExecResult(res, D, written) == [res |-> res, d |-> D, written |-> written]

Page(D, msg) ==
  LET uri == SubSeq(msg, D.uri_offset + 1, D.uri_offset + D.uri_size)
      host == SubSeq(msg, D.host_offset + 1, D.host_offset + D.host_size)
  IN  IF uri \in {<<"/", "stats">>, <<"/", "metrics">>}
      THEN ExecResult(0, D, <<HttpAnswer(D, 200, uri)>>)
      ELSE IF uri = <<"/", "link">> THEN ExecResult(0, D, <<HttpAnswer(D, 200, uri \o host)>>)
      ELSE ExecResult(-404, D, <<>>)

hts_stats_execute(D, msg, full) ==
  CASE full -> ExecResult(-429, D, <<>>)
    [] ~full /\ (D.type # "get" \/ D.data_size # -1) -> ExecResult(-501, Unflag(D, "KEEPALIVE"), <<>>)
    [] OTHER -> IF allowed THEN Page(D, msg) ELSE ExecResult(-404, D, <<>>)

Execute(D, msg, full) ==
  CASE D.type = "post" /\ D.data_size < 0 -> ExecResult(-411, D, <<>>)
    [] D.type # "post" /\ D.data_size > 0 -> ExecResult(-413, Unflag(D, "KEEPALIVE"), <<>>)
    [] OTHER -> hts_stats_execute(D, msg, full)

(* The statistics pages never return 0 for a request with data, so the     *)
(* branch that skips the data of an executed request is not reached.       *)
Executed(c, r) ==
  [c EXCEPT !.hts = r.d,
            !.conn = IF r.res = -429 THEN "failed" ELSE @,
            !.answers = @ \o (IF r.res = 0 THEN r.written ELSE <<HttpAnswer(r.d, -r.res, <<>>)>>)]

Refused(c, D) ==
  [c EXCEPT !.hts = Unflag(D, "KEEPALIVE"),
            !.answers = Append(@, HttpAnswer(Unflag(D, "KEEPALIVE"), 400, <<>>))]

KeepOrClose(c) ==
  IF "KEEPALIVE" \in c.hts.flags THEN [c EXCEPT !.hts.state = "start"]
  ELSE [c EXCEPT !.hts.state = "none", !.conn = IF @ = "working" THEN "write_close" ELSE @]

RequestDone(c, D, msg, full) ==
  KeepOrClose(
    [(IF "ERROR" \in D.flags \/ D.header_size >= MaxHeader THEN Refused(c, D)
      ELSE Executed(c, Execute(D, msg, full))) EXCEPT !.pos = @ + D.header_size])

EndOfPiece(p, E) == CHOOSE e \in E : e > p /\ \A f \in E : f > p => f >= e

RECURSIVE ParseLoop(_, _, _, _, _)
ParseLoop(c, p, S, E, full) ==
  IF c.conn # "working" \/ \A e \in E : e <= p THEN c
  ELSE LET r == http_parse_data(Parsed(c.hts, SubSeq(S, p + 1, EndOfPiece(p, E))))
           d == RequestDone(c, r.d, RestFrom(S, c.pos), full)
       IN  IF r.d.state # "done"
           THEN ParseLoop([c EXCEPT !.hts = r.d], EndOfPiece(p, E), S, E, full)
           ELSE ParseLoop(d, d.pos, S, E, full)

hts_parse_execute(c, S, E, full) ==
  ParseLoop([c EXCEPT !.hts.state = "start"], c.pos, S, E, full)

(* A piece of the stream arrives and the connection's job reads it.        *)
Arrive(n, full) ==
  /\ conn = "working" /\ got + n <= Len(Stream)
  /\ Cardinality(cuts) < MaxPieces - 1 \/ got + n = Len(Stream)
  /\ got' = got + n /\ cuts' = cuts \cup {got + n}
  /\ \E c \in {hts_parse_execute([pos |-> pos, hts |-> hts, answers |-> answers, conn |-> conn],
                                 Stream, cuts', full)} :
       pos' = c.pos /\ hts' = c.hts /\ answers' = c.answers /\ conn' = c.conn
  /\ UNCHANGED <<requests, allowed>>

HttpInit ==
  /\ requests \in Streams /\ allowed \in BOOLEAN
  /\ got = 0 /\ cuts = {} /\ pos = 0 /\ answers = <<>>
  /\ hts = [NewQuery EXCEPT !.state = "none"] /\ conn = "working"

HttpNext == \E n \in 1..Len(Stream), full \in BOOLEAN : Arrive(n, full)

-----------------------------------------------------------------------------
(* What each request deserves, from what it is and not from its bytes.     *)

Headers(r) == IF r.version = <<>> THEN {} ELSE ToSet(r.headers)
SizeHeaders(r) == SelectSeq(r.headers, LAMBDA h : h \in {"len0", "len9", "len99"})
BodySize(r) == CASE Headers(r) \cap {"len0", "len9", "len99"} = {} -> -1
               [] "len0" \in Headers(r) -> 0
               [] OTHER -> 9

Malformed(r) ==
  \/ r.method \notin DOMAIN Methods \/ r.uri = <<>> \/ r.version \notin DOMAIN Versions
  \/ Len(r.uri) > MaxWord \/ Len(Bytes(r)) >= MaxHeader
  \/ Headers(r) \cap {"nocolon", "lennone", "len999", "longname", "longline"} # {}
  \/ r.version # <<>> /\ Len(SizeHeaders(r)) > 1

Deserved(r) ==
  LET Says(code, body, keep) ==
        [code |-> code, body |-> body, header |-> Malformed(r) \/ r.version # <<>>, keep |-> keep]
      keeps == "keep" \in Headers(r)
      host == IF "host" \in Headers(r) THEN <<"a.", "org">> ELSE <<>>
  IN  CASE Malformed(r) -> Says(400, <<>>, FALSE)
        [] ~Malformed(r) /\ r.method = <<"PO", "ST">> /\ BodySize(r) = -1 -> Says(411, <<>>, keeps)
        [] ~Malformed(r) /\ r.method # <<"PO", "ST">> /\ BodySize(r) > 0 -> Says(413, <<>>, FALSE)
        [] OTHER ->
             IF r.method # <<"GE", "T">> \/ BodySize(r) # -1 THEN Says(501, <<>>, FALSE)
             ELSE IF ~allowed \/ r.uri \notin {<<"/", x>> : x \in {"stats", "metrics", "link"}}
             THEN Says(404, <<>>, keeps)
             ELSE Says(200, IF r.uri = <<"/", "link">> THEN r.uri \o host ELSE r.uri, keeps)

SizeOf(n) == Len(FlattenSeq([i \in 1..n |-> Bytes(requests[i])]))

(* However the network cuts the stream, every request that has arrived     *)
(* completely is answered once, in order, with what it deserves: the parser *)
(* keeps its place, its flags and its offsets over every cut.  The input   *)
(* buffer stands at the start of the next request, and the connection stays *)
(* open exactly as the last answer has told the client.                    *)
HttpAnswers ==
  LET n == Len(answers)
  IN  conn # "failed" =>
        /\ n <= Len(requests)
        /\ \A i \in 1..n : answers[i] = Deserved(requests[i])
        /\ \A i \in 1..n : answers[i].keep <=> (i < n \/ conn = "working")
        /\ conn = "working" => pos = SizeOf(n)
        /\ conn = "working" /\ n < Len(requests) => got < SizeOf(n + 1)
-----------------------------------------------------------------------------
(* The dates of HTTP answers: a time of day of every day the 32-bit clock  *)
(* can show is written and read back.                                      *)
CONSTANTS
  ClockTimes,      \* times of day
  LastDay          \* the last day of the clock

VARIABLE clock     \* now, in seconds

(* The table dd with the entry that gen_http_date sets for the year.       *)
MonthDays(year) == <<31, IF year % 4 = 0 THEN 29 ELSE 28, 31, 30, 31, 30, 31, 31, 30, 31, 30, 31>>

DaysBefore(mon, year) == FoldLeft(LAMBDA a, b : a + b, 0, SubSeq(MonthDays(year), 1, mon))

(* The year of a four-year period that starts with 1970, and its day.      *)
YearAndDay(xd) ==
  CASE xd < 365 -> <<0, xd>>
    [] xd \in 365..729 -> <<1, xd - 365>>
    [] xd \in 730..1095 -> <<2, xd - 730>>
    [] OTHER -> <<3, xd - 1096>>

CalendarDay(year, xd) ==
  LET mon == CHOOSE m \in 0..11 : DaysBefore(m, year) <= xd /\ xd < DaysBefore(m + 1, year)
  IN  [year |-> year, mon |-> mon, day |-> xd - DaysBefore(mon, year) + 1]

gen_http_date(time) ==
  LET days == time \div 86400
      yd == YearAndDay(days % 1461)
      date == CalendarDay(4 * (days \div 1461) + 1970 + yd[1], yd[2])
  IN  [dow |-> (days + 4) % 7, year |-> date.year, mon |-> date.mon, day |-> date.day,
       hour |-> (time \div 3600) % 24, min |-> (time \div 60) % 60, sec |-> time % 60]

gen_http_time(d) ==
  LET leap == IF d.year % 4 = 0 /\ d.mon >= 2 THEN 1 ELSE 0
      days == (d.year - 1970) * 365 + (d.year - 1969) \div 4 + (d.day - 1) + leap
              + DaysBefore(d.mon, 1970)
  IN  ((days * 24 + d.hour) * 60 + d.min) * 60 + d.sec

DateInit == clock \in ClockTimes

Tomorrow == clock \div 86400 < LastDay /\ clock' = clock + 86400

(* The day after a date, by the calendar.                                  *)
DayAfter(d) ==
  LET last == IF d.mon = 1 THEN (IF d.year % 4 = 0 /\ (d.year % 100 # 0 \/ d.year % 400 = 0) THEN 29 ELSE 28)
              ELSE IF d.mon \in {3, 5, 8, 10} THEN 30 ELSE 31
  IN  [d EXCEPT !.dow = (@ + 1) % 7,
                !.day = IF @ = last THEN 1 ELSE @ + 1,
                !.mon = IF d.day # last THEN @ ELSE IF @ = 11 THEN 0 ELSE @ + 1,
                !.year = IF d.day = last /\ d.mon = 11 THEN @ + 1 ELSE @]

(* Reading a written date gives back the time, and the date written        *)
(* tomorrow is the day after today's in the calendar (the code counts every *)
(* fourth year as a leap year and splits days into four-year periods).     *)
DatesRight ==
  /\ gen_http_time(gen_http_date(clock)) = clock
  /\ clock \div 86400 < LastDay => gen_http_date(clock + 86400) = DayAfter(gen_http_date(clock))
=============================================================================
