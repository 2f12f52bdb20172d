---------------------------- MODULE ReplayPolicy ----------------------------
(***************************************************************************)
(* Replay protection of the fake-TLS handshake, without its hash table: a  *)
(* queue of the client randoms received, oldest first, and the test of a   *)
(* ClientHello's timestamp against the clock and the oldest entry.  Module *)
(* ReplayCache adds the buckets and implements this one.  In the code      *)
(* CacheTime is 172800, Error 120 and Skew 3.                              *)
(***************************************************************************)
EXTENDS Integers, Sequences, FiniteSetsExt

CONSTANTS
  Hellos,       \* ClientHello packets, each signed with some secret
  Randoms,      \* 16-byte prefixes of client randoms: all the cache compares
  Prefix,       \* the prefix of a hello
  Stamp,        \* the timestamp a hello carries under its signature
  CacheTime,    \* MAX_CLIENT_RANDOM_CACHE_TIME
  Error,        \* MAX_ALLOWED_TIMESTAMP_ERROR
  Skew,         \* how far in the future a timestamp may be
  MaxNow        \* bound: the clock stops here

ASSUME ReplayAssumption ==
  /\ Prefix \in [Hellos -> Randoms]
  /\ Stamp \in [Hellos -> Int]
  /\ CacheTime \in Nat /\ Error \in Nat /\ Skew \in Nat
  /\ MaxNow \in Int
  /\ CacheTime >= Error + Skew

VARIABLES
  now,      \* the clock, in seconds
  boot,     \* when this process started
  queue,    \* first_client_random .. last_client_random
  acc,      \* how often this process accepted a hello
  old       \* hellos an earlier process accepted

vars == <<now, boot, queue, acc, old>>

Entry == [rnd : Randoms, time : Int]

TypeOK ==
  /\ now \in Int /\ boot \in Int
  /\ queue \in Seq(Entry)
  /\ acc \in [Hellos -> Nat]
  /\ old \in SUBSET Hellos

Init ==
  /\ now = 0 /\ boot = 0
  /\ queue = <<>>
  /\ acc = [h \in Hellos |-> 0]
  /\ old = {}

-----------------------------------------------------------------------------
Known(h) == \E i \in DOMAIN queue : queue[i].rnd = Prefix[h]

\* add_client_random, then delete_old_client_randoms: the head is dropped while
\* it is old and not the only entry.
Added(h) == Append(queue, [rnd |-> Prefix[h], time |-> now])

\* Mutant: the loop also drops entries that are still needed.
Kept_Short(q) == {i \in DOMAIN q : i = Len(q) \/ q[i].time > now - Error}

Kept(q) == {i \in DOMAIN q : i = Len(q) \/ q[i].time > now - CacheTime}
Trimmed(q) == SubSeq(q, Min(Kept(q)), Len(q))

\* Mutant: no bound on timestamps from the future.
is_allowed_timestamp_Future(ts, q) == ts > q[1].time + Skew \/ ts > now - Error

\* The queue is never empty here: the hello itself has just been added.
is_allowed_timestamp(ts, q) ==
  /\ ts <= now + Skew
  /\ ts > q[1].time + Skew \/ ts > now - Error

\* A ClientHello arrives.  It is cached even if it is rejected; "valid" stands
\* for the signature, secret, limit and cipher checks.
ClientHello(h, valid) ==
  /\ ~ Known(h)
  /\ queue' = Trimmed(Added(h))
  /\ acc' = [acc EXCEPT ![h] = IF valid /\ is_allowed_timestamp(Stamp[h], queue')
                                 THEN @ + 1 ELSE @]
  /\ UNCHANGED <<now, boot, old>>

Tick ==
  /\ now < MaxNow
  /\ now' = now + 1
  /\ UNCHANGED <<boot, queue, acc, old>>

\* The cache lives in memory only.
Restart ==
  /\ boot' = now
  /\ queue' = <<>>
  /\ acc' = [h \in Hellos |-> 0]
  /\ old' = old \cup {h \in Hellos : acc[h] > 0}
  /\ UNCHANGED now

Next ==
  \/ \E h \in Hellos, valid \in BOOLEAN : ClientHello(h, valid)
  \/ Tick
  \/ Restart

Spec == Init /\ [][Next]_vars

-----------------------------------------------------------------------------
\* No process accepts the same ClientHello twice, although entries are deleted:
\* an entry that is gone was received so long ago, and the oldest one left so
\* late, that both timestamp tests refuse its hello.
NoReplay == \A h \in Hellos : acc[h] <= 1

\* A hello an earlier process accepted gets through again only in the first
\* Error + Skew seconds after the restart.
WindowStep ==
  \A h \in old : acc'[h] > acc[h] => now < boot + Error + Skew
RestartWindow == [][WindowStep]_vars
=============================================================================
