----------------------------- MODULE WorkerStats -----------------------------
(* The statistics of several worker processes: each worker copies its      *)
(* counters into two records of shared memory, and the master reads them   *)
(* without a lock and adds them up (mtproto-proxy-stats.c, net-ja4.c).     *)
EXTENDS Integers, Sequences, FiniteSets, SequencesExt

CONSTANTS
  NWorkers,
  Prints, Sources,   \* fingerprints of a hello, addresses of clients
  Seen,           \* the pairs of them that arrive
  WorkerJa4, MasterJa4, \* WORKER_TOP_JA4_MAX, MASTER_TOP_JA4_MAX
  MasterIps,         \* MASTER_TOP_IPS_CAP
  MaxHellos, MaxUpdates

VARIABLES
  own,               \* each worker's counters: the first record is in shared memory
  shared,            \* WStats: the two copies of each worker
  writer,            \* how far update_local_stats has come
  published,         \* what each worker has begun to publish, oldest first
  reader             \* compute_stats_sum

statVars == <<own, shared, writer, published, reader>>

Workers == 1..NWorkers
Fields == <<"hellos", "ips", "ja4">>
NoStats == [hellos |-> 0, ips |-> <<>>, ja4 |-> <<>>]
Named(name, n) == [name |-> name, n |-> n]

NoReader == [at |-> "idle", i |-> 0, k |-> 0, cnt |-> 0, w |-> NoStats, since |-> <<>>, took |-> <<>>,
             sum |-> NoStats]

StatInit ==
  /\ own = [w \in Workers |-> NoStats]
  /\ shared = [w \in Workers |-> [k \in 0..1 |-> [cnt |-> 0, val |-> NoStats]]]
  /\ writer = [w \in Workers |-> [k |-> 0, f |-> 0]]
  /\ published = [w \in Workers |-> <<NoStats>>]
  /\ reader = NoReader

-----------------------------------------------------------------------------
(* A worker *)

Positions(list, name) == {i \in DOMAIN list : list[i].name = name}

(* ja4_record: a full table forgets a fingerprint it does not know. *)
ja4_record(list, name) ==
  IF Positions(list, name) # {} THEN [list EXCEPT ![Min(Positions(list, name))].n = @ + 1]
  ELSE IF Len(list) < WorkerJa4 THEN Append(list, Named(name, 1))
  ELSE list

Counted(list, name) ==
  IF Positions(list, name) # {} THEN [list EXCEPT ![Min(Positions(list, name))].n = @ + 1]
  ELSE Append(list, Named(name, 1))

CountHello(w, name, ip) ==
  /\ writer[w] = [k |-> 0, f |-> 0] /\ own[w].hellos < MaxHellos
  /\ own' = [own EXCEPT ![w] =
       [hellos |-> @.hellos + 1, ips |-> Counted(@.ips, ip), ja4 |-> ja4_record(@.ja4, name)]]
  /\ UNCHANGED <<shared, writer, published, reader>>

(* update_local_stats: copy 0, then copy 1. update_local_stats_copy makes  *)
(* cnt odd, writes field after field and makes cnt even again.             *)
BeginCopy(w) ==
  /\ writer[w].f = 0 /\ (writer[w].k = 0 => Len(published[w]) <= MaxUpdates)
  /\ shared' = [shared EXCEPT ![w][writer[w].k].cnt = @ + 1]
  /\ writer' = [writer EXCEPT ![w].f = 1]
  /\ published' = IF writer[w].k = 0 THEN [published EXCEPT ![w] = Append(@, own[w])] ELSE published
  /\ UNCHANGED <<own, reader>>

WriteField(w) ==
  /\ writer[w].f \in DOMAIN Fields
  /\ shared' = [shared EXCEPT ![w][writer[w].k].val[Fields[writer[w].f]] = own[w][Fields[writer[w].f]]]
  /\ writer' = [writer EXCEPT ![w].f = @ + 1]
  /\ UNCHANGED <<own, published, reader>>

EndCopy(w) ==
  /\ writer[w].f = Len(Fields) + 1
  /\ shared' = [shared EXCEPT ![w][writer[w].k].cnt = @ + 1]
  /\ writer' = [writer EXCEPT ![w] = [k |-> 1 - @.k, f |-> 0]]
  /\ UNCHANGED <<own, published, reader>>

-----------------------------------------------------------------------------
(* The master *)

(* merge_one_top_ip: added to the entry of the address; else appended; else *)
(* in place of the smallest entry when that is smaller.                     *)
merge_one_top_ip(list, e) ==
  LET found == Positions(list, e.name)
      least == {i \in DOMAIN list : \A j \in DOMAIN list : list[i].n <= list[j].n}
  IN  IF found # {} THEN [list EXCEPT ![Min(found)].n = @ + e.n]
      ELSE IF Len(list) < MasterIps THEN Append(list, e)
      ELSE IF list[Min(least)].n < e.n THEN [list EXCEPT ![Min(least)] = e]
      ELSE list

ja4_master_merge(list, e) ==
  LET found == Positions(list, e.name)
  IN  IF found # {} THEN [list EXCEPT ![Min(found)].n = @ + e.n]
      ELSE IF Len(list) < MasterJa4 THEN Append(list, e)
      ELSE list

add_stats(sum, w) ==
  [hellos |-> sum.hellos + w.hellos,
   ips |-> FoldLeft(merge_one_top_ip, sum.ips, w.ips),
   ja4 |-> FoldLeft(ja4_master_merge, sum.ja4, w.ja4)]

(* The updates worker i has finished. *)
Finished(i) == IF writer[i] = [k |-> 0, f |-> 0] THEN Len(published[i]) ELSE Len(published[i]) - 1

StartSum ==
  /\ reader.at = "idle"
  /\ reader' = [NoReader EXCEPT !.at = "choose", !.i = 1, !.k = 1, !.since = <<Finished(1)>>]
  /\ UNCHANGED <<own, shared, writer, published>>

(* Copy 1 first, then copy 0, until one of them is not being written. *)
Choose ==
  /\ reader.at = "choose"
  /\ LET cnt == shared[reader.i][reader.k].cnt
     IN  reader' = IF cnt % 2 = 0 THEN [reader EXCEPT !.at = Fields[1], !.cnt = cnt]
                   ELSE [reader EXCEPT !.k = 1 - @]
  /\ UNCHANGED <<own, shared, writer, published>>

(* memcpy, a field at a time. *)
CopyField(f) ==
  /\ reader.at = Fields[f]
  /\ reader' = [reader EXCEPT !.at = IF f = Len(Fields) THEN "check" ELSE Fields[f + 1],
                              !.w[Fields[f]] = shared[reader.i][reader.k].val[Fields[f]]]
  /\ UNCHANGED <<own, shared, writer, published>>

UnchangedAlways == TRUE
Unchanged == shared[reader.i][reader.k].cnt = reader.cnt

Recheck ==
  /\ reader.at = "check"
  /\ reader' =
       IF ~Unchanged THEN [reader EXCEPT !.at = "choose", !.k = 1]
       ELSE LET read == [reader EXCEPT !.sum = add_stats(@, reader.w), !.took = Append(@, reader.w)]
            IN  IF reader.i = NWorkers THEN [read EXCEPT !.at = "done"]
                ELSE [read EXCEPT !.at = "choose", !.i = @ + 1, !.k = 1,
                                  !.since = Append(@, Finished(reader.i + 1))]
  /\ UNCHANGED <<own, shared, writer, published>>

StatNext ==
  \/ \E w \in Workers :
       \/ \E h \in Seen : CountHello(w, h[1], h[2])
       \/ BeginCopy(w) \/ WriteField(w) \/ EndCopy(w)
  \/ StartSum \/ Choose \/ (\E f \in DOMAIN Fields : CopyField(f)) \/ Recheck

-----------------------------------------------------------------------------
OfName(list, name) == FoldSet(LAMBDA i, t : t + list[i].n, 0, Positions(list, name))
Total(name, field) ==
  FoldLeft(LAMBDA t, w : t + OfName(w[field], name), 0, reader.took)
Distinct(field) == {x \in Prints \cup Sources : Total(x, field) > 0}

(* The page the master shows is true: what it took from a worker is one    *)
(* whole set of counters that worker published, no older than the last     *)
(* update finished before it was read; the sum of the counters is exact;   *)
(* no address or fingerprint is listed twice or with more than its total,  *)
(* and with exactly its total when the table had room for all of them.     *)
SumWhole ==
  reader.at = "done" =>
    /\ \A i \in Workers : \E u \in reader.since[i]..Len(published[i]) : reader.took[i] = published[i][u]
    /\ reader.sum.hellos = FoldLeft(LAMBDA t, w : t + w.hellos, 0, reader.took)
    /\ \A x \in Sources :
         /\ Cardinality(Positions(reader.sum.ips, x)) <= 1
         /\ OfName(reader.sum.ips, x) <= Total(x, "ips")
         /\ Cardinality(Distinct("ips")) <= MasterIps => OfName(reader.sum.ips, x) = Total(x, "ips")
    /\ \A x \in Prints :
         /\ Cardinality(Positions(reader.sum.ja4, x)) <= 1
         /\ OfName(reader.sum.ja4, x) <= Total(x, "ja4")
         /\ Cardinality(Distinct("ja4")) <= MasterJa4 => OfName(reader.sum.ja4, x) = Total(x, "ja4")
=============================================================================
