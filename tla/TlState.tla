------------------------------ MODULE TlState ------------------------------
(* Reading and writing TL data (tl-parse.h, tl-parse.c) along the path of  *)
(* one engine query: the header and the function are fetched from the      *)
(* packet, the answer is stored, and the client fetches it again.  A       *)
(* packet is a sequence of bytes; the k-th byte of the number v is <<v, k>>.*)
EXTENDS Integers, Sequences, FiniteSets, SequencesExt

CONSTANTS
  TlQueries,         \* [options, function, extra]: header options, function, bytes after it
  StatTexts,         \* statistics, as characters; "T" is a tab, "N" a newline
  TextLength         \* error code -> length of the error's text

VARIABLES
  asked,             \* the query and the statistics of this run
  kept               \* how many of its bytes are in the packet
tlVars == <<asked, kept>>

TlInt(v) == [k \in 1..4 |-> <<v, k>>]
TlLong(v) == [k \in 1..8 |-> <<v, k>>]
Zero(n) == [k \in 1..n |-> <<"zero", 1>>]

-----------------------------------------------------------------------------
(* Fetching: the state is [data, pos, remaining, error], data being what   *)
(* is still to be read.  The first error stays.                            *)

tlf_init_raw_message(d) == [data |-> d, pos |-> 0, remaining |-> Len(d), error |-> "none"]
tlf_set_error(s, e) == IF s.error = "none" THEN [s EXCEPT !.error = e] ELSE s
tlf_check(s, n) == IF s.remaining < n THEN tlf_set_error(s, "NOT_ENOUGH_DATA") ELSE s

Fetch_raw_data(s, n) == [s EXCEPT !.data = SubSeq(@, n + 1, Len(@)), !.pos = @ + n, !.remaining = @ - n]
FetchedValue(s) == s.data[1][1]
Failing(s) == s.error # "none"

(* Each returns the new state `s` and the value `v`. *)
Fetched(c, n, used) ==
  IF Failing(c) THEN [s |-> c, v |-> "minus1"] ELSE [s |-> IF used THEN Fetch_raw_data(c, n) ELSE c, v |-> FetchedValue(c)]
tlf_int(s) == Fetched(tlf_check(s, 4), 4, TRUE)
tlf_long(s) == Fetched(tlf_check(s, 8), 8, TRUE)
tlf_lookup_int(s) == Fetched(tlf_check(s, 4), 4, FALSE)
tlf_end(s) == IF s.remaining > 0 THEN tlf_set_error(s, "EXTRA_DATA") ELSE s

(* tlf_query_flags, with the flags read: none is supported. *)
tlf_query_flags(h, f) ==
  [h EXCEPT !.s = IF Failing(f.s) \/ f.v = "0" THEN f.s ELSE tlf_set_error(f.s, "HEADER")]

(* tlf_query_header: the operation, the query's number, then options as    *)
(* long as the next word is one.                                           *)
Actor(h, a) == [h EXCEPT !.s = a.s, !.actor = a.v]
Option(h, op) ==
  CASE op = "DEST_ACTOR" -> Actor(h, tlf_long(h.s))
    [] op = "DEST_ACTOR_FLAGS" -> LET a == Actor(h, tlf_long(h.s)) IN tlf_query_flags(a, tlf_int(a.s))
    [] op = "DEST_FLAGS" -> tlf_query_flags(h, tlf_int(h.s))
OneOption(h, look) ==
  IF look.v \in {"DEST_ACTOR", "DEST_ACTOR_FLAGS", "DEST_FLAGS"}
  THEN Option([h EXCEPT !.s = tlf_int(h.s).s], look.v)
  ELSE [h EXCEPT !.s = look.s, !.more = FALSE]
HeaderOptions(first) ==
  LET options[n \in Nat] ==
        IF n = 0 THEN first
        ELSE LET Next2(h) == IF h.more /\ ~Failing(h.s) THEN OneOption(h, tlf_lookup_int(h.s)) ELSE h
             IN  Next2(options[n - 1])
  IN  options[first.s.remaining \div 4 + 1]
HeaderNumber(op, qid) == [s |-> qid.s, op |-> op, qid |-> qid.v, actor |-> "0", more |-> TRUE]
HeaderRest(op) ==
  IF op.v = "INVOKE_REQ" THEN HeaderOptions(HeaderNumber(op.v, tlf_long(op.s)))
  ELSE [s |-> tlf_set_error(op.s, "HEADER"), op |-> op.v, qid |-> "0", actor |-> "0", more |-> FALSE]
tlf_query_header(s) == HeaderRest(tlf_int(s))

(* tlf_query_answer_header: an error inside a result is a wrapped error.   *)
(* The other two words that may stand there are never sent to a client.    *)
Inner(op, qid, look) ==
  IF look.v = "REQ_ERROR"
  THEN [s |-> tlf_lookup_int(tlf_long(tlf_int(look.s).s).s).s, op |-> "REQ_ERROR_WRAPPED", qid |-> qid]
  ELSE [s |-> look.s, op |-> op, qid |-> qid]
AnswerNumber(op, qid) ==
  IF op = "REQ_ERROR" THEN [s |-> qid.s, op |-> op, qid |-> qid.v] ELSE Inner(op, qid.v, tlf_lookup_int(qid.s))
AnswerRest(op) ==
  IF op.v \in {"REQ_ERROR", "REQ_RESULT"} THEN AnswerNumber(op.v, tlf_long(op.s))
  ELSE [s |-> tlf_set_error(op.s, "HEADER"), op |-> op.v, qid |-> "0"]
tlf_query_answer_header(s) == AnswerRest(tlf_int(s))

-----------------------------------------------------------------------------
(* Storing: the state is [data, pos, qid, error]. *)

tls_init_tcp_raw_msg(qid) == [data |-> <<>>, pos |-> 0, qid |-> qid, error |-> "none"]
tls_set_error_format(o, e) == IF o.error = "none" THEN [o EXCEPT !.error = e] ELSE o
tls_raw_data(o, d) == [o EXCEPT !.data = @ \o d, !.pos = @ + Len(d)]
tls_int(o, v) == tls_raw_data(o, TlInt(v))
tls_long(o, v) == tls_raw_data(o, TlLong(v))
tls_clean(o) == [o EXCEPT !.data = SubSeq(@, 1, Len(@) - o.pos), !.pos = 0]
tls_pad(o) == tls_raw_data(o, Zero((4 - (o.pos % 4)) % 4))

(* The length takes one byte below 254 and four from there on. *)
LengthBytes(n, limit) == IF n < limit THEN <<<<n, 1>>>> ELSE <<<<254, 1>>, <<n, 1>>, <<n, 2>>, <<n, 3>>>>
tls_string_len_late(o, n) == tls_raw_data(o, LengthBytes(n, 255))
tls_string_len(o, n) == tls_raw_data(o, LengthBytes(n, 254))
tls_string(o, str) == tls_pad(tls_raw_data(tls_string_len(o, Len(str)), [k \in 1..Len(str) |-> <<str[k], 1>>]))

(* tls_end_ext: an error takes the place of all that was stored; operation *)
(* and query number go in front.                                           *)
ErrorText(e) == [k \in 1..TextLength[e] |-> "x"]
ErrorStored(o) == tls_string(tls_int(tls_long(tls_int(tls_clean(o), "REQ_ERROR"), o.qid), o.error), ErrorText(o.error))
Prefixed(o, op) == IF o.qid = "0" THEN o.data ELSE TlInt(op) \o TlLong(o.qid) \o o.data
tls_end_ext(o, op) == Prefixed(IF o.error = "none" THEN o ELSE ErrorStored(o), op)

(* tl_store_stats: every line that is a key, one tab and a value becomes a *)
(* pair of strings after their count.                                      *)
StatPairs(text) ==
  LET Step(a, i) ==
        IF text[i] = "N"
        THEN [pairs |-> IF a.value - a.key > 1 /\ a.value < i
                        THEN Append(a.pairs, <<SubSeq(text, a.key, a.value - 2), SubSeq(text, a.value, i - 1)>>)
                        ELSE a.pairs,
              key |-> i + 1, value |-> 0]
        ELSE IF text[i] = "T" THEN [a EXCEPT !.value = IF @ = 0 THEN i + 1 ELSE -1]
        ELSE a
  IN  FoldLeft(Step, [pairs |-> <<>>, key |-> 1, value |-> 0], [i \in 1..Len(text) |-> i]).pairs
StorePairs(o, pairs) ==
  FoldLeft(LAMBDA a, p : tls_string(tls_string(a, p[1]), p[2]), tls_int(tls_int(o, "STAT"), Len(pairs)), pairs)
tl_store_stats(o, text) == StorePairs(o, StatPairs(text))

-----------------------------------------------------------------------------
(* The path of a query (query_job_run, fetch_query, tl_default_parse_      *)
(* function, process_query_job): the outcome is an error or a function.    *)

tl_simple_parse_function(end, f) == IF Failing(end) THEN [error |-> end.error, act |-> "none"] ELSE [error |-> "none", act |-> f]
fetch_query(actor, look) ==
  IF Failing(look.s) THEN [error |-> look.s.error, act |-> "none"]
  ELSE IF actor # "0" \/ look.v \notin {"NOP", "STAT"} THEN [error |-> "UNKNOWN_FUNCTION_ID", act |-> "none"]
  ELSE tl_simple_parse_function(tlf_end(tlf_int(look.s).s), look.v)

QueryAnswered(f, out, text) ==
  tls_end_ext(CASE f.error # "none" -> tls_set_error_format(out, f.error)
                [] f.act = "NOP" -> tls_int(out, "TRUE")
                [] f.act = "STAT" -> tl_store_stats(out, text), "REQ_RESULT")
HeaderAnswered(h, text) ==
  QueryAnswered(IF Failing(h.s) THEN [error |-> h.s.error, act |-> "none"] ELSE fetch_query(h.actor, tlf_lookup_int(h.s)),
           tls_init_tcp_raw_msg(h.qid), text)
AnswerTo(d, text) == HeaderAnswered(tlf_query_header(tlf_init_raw_message(d)), text)

(* A client's query. *)
OptionBytes(o) ==
  CASE o[1] = "DEST_ACTOR" -> TlInt(o[1]) \o TlLong(o[2])
    [] o[1] = "DEST_ACTOR_FLAGS" -> TlInt(o[1]) \o TlLong(o[2]) \o TlInt(o[3])
    [] OTHER -> TlInt(o[1]) \o TlInt(o[3])
QueryBytes(q) ==
  TlInt("INVOKE_REQ") \o TlLong("q") \o FlattenSeq([i \in 1..Len(q.options) |-> OptionBytes(q.options[i])])
    \o TlInt(q.function) \o Zero(q.extra)

(* A packet of less than one word is no query (query_job_run). *)
TlInit ==
  /\ asked \in [query : TlQueries, text : StatTexts]
  /\ kept = Len(QueryBytes(asked.query))
CutByte == kept > 4 /\ kept' = kept - 1 /\ UNCHANGED asked
TlNext == CutByte

-----------------------------------------------------------------------------
(* The reference: what a query with `after` bytes after its function       *)
(* deserves; the last actor named is the one asked.                        *)
AnswerDeserved(q, after) ==
  LET options == {q.options[i] : i \in 1..Len(q.options)}
      actor == \E i \in 1..Len(q.options) :
                 /\ q.options[i][1] # "DEST_FLAGS" /\ q.options[i][2] # "0"
                 /\ \A j \in i + 1..Len(q.options) : q.options[j][1] = "DEST_FLAGS"
  IN  CASE after < 0 -> "error"
        [] \E o \in options : o[1] # "DEST_ACTOR" /\ o[3] # "0" -> "HEADER"
        [] actor \/ q.function \notin {"NOP", "STAT"} -> "UNKNOWN_FUNCTION_ID"
        [] after > 0 -> "EXTRA_DATA"
        [] OTHER -> "none"

(* The lines of a text that are a key, a tab and a value. *)
Line(text, end) ==
  SubSeq(text, 1 + Max({0} \cup {k \in 1..end - 1 : text[k] = "N"}), end - 1)
GoodLines(text) ==
  {i \in 1..Len(text) : /\ text[i] = "N"
                        /\ LET l == Line(text, i)
                           IN  \E t \in 2..Len(l) - 1 : \A k \in 1..Len(l) : l[k] = "T" <=> k = t}

ErrorRight(code, want) ==
  LET n == TextLength[code.v]
  IN  /\ want \in {"error", code.v}
      /\ FetchedValue(code.s) = IF n < 254 THEN n ELSE 254
      /\ Len(code.s.data) - (n + IF n < 254 THEN 1 ELSE 4) \in 0..3
AnswerRight(a, want) ==
  /\ kept >= 12 => a.qid = "q"
  /\ want # "none" => a.op = "REQ_ERROR_WRAPPED" /\ ErrorRight(tlf_int(a.s), want)
  /\ want = "none" =>
       /\ a.op = "REQ_RESULT" /\ FetchedValue(a.s) = IF asked.query.function = "NOP" THEN "TRUE" ELSE "STAT"
       /\ asked.query.function = "STAT" => FetchedValue(tlf_int(a.s).s) = Cardinality(GoodLines(asked.text))
ReadBack(d, q) ==
  /\ Len(d) % 4 = 0
  /\ AnswerRight(tlf_query_answer_header(tlf_init_raw_message(d)), AnswerDeserved(q, kept - (Len(QueryBytes(q)) - q.extra)))
(* Whatever part of a query arrives, its answer is a whole number of words *)
(* that the client reads back: a shortened query gets an error, a whole    *)
(* one what it asked for, under the query's number; an error's text has    *)
(* the length its first bytes say, and the statistics have as many pairs   *)
(* as there are good lines.                                                *)
AnswerReadsBack == ReadBack(AnswerTo(SubSeq(QueryBytes(asked.query), 1, kept), asked.text), asked.query)
=============================================================================
