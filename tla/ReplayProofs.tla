---------------------------- MODULE ReplayProofs ----------------------------
(* No ClientHello is accepted twice, and the hash table implements the     *)
(* policy, for every value of the constants.                               *)
EXTENDS ReplayCache, SequenceTheorems, FiniteSetTheorems, TLAPS

\* Min of a nonempty set of naturals is its least element.
LEMMA MinProps ==
  ASSUME NEW S \in SUBSET Nat, S # {}
  PROVE  Min(S) \in S /\ \A y \in S : Min(S) <= y
<1>1. \E x \in S : \A y \in S : ~ (<<y, x>> \in OpToRel(<, Nat))
  BY NatLessThanWellFounded, WFMin, ZenonT(60)
<1>2. \A x, y \in Nat : ~ (<<y, x>> \in OpToRel(<, Nat)) => x <= y
  BY DEF OpToRel
<1>3. \E x \in S : \A y \in S : x <= y
  BY <1>1, <1>2, ZenonT(60)
<1> QED
  BY <1>3, ZenonT(60) DEF Min

\* The queue is in order of time, within the life of the process.
Sorted ==
  /\ boot <= now
  /\ \A i \in DOMAIN queue : boot <= queue[i].time /\ queue[i].time <= now
  /\ \A i, j \in DOMAIN queue : i <= j => queue[i].time <= queue[j].time

\* The hello's random is in the queue, received late enough for its timestamp.
Cached(h) == \E i \in DOMAIN queue :
               queue[i].rnd = Prefix[h] /\ Stamp[h] <= queue[i].time + Skew

\* Both timestamp tests refuse the hello from now on.
Refused(h) ==
  /\ queue # <<>>
  /\ Stamp[h] <= queue[1].time + Skew
  /\ Stamp[h] <= now - Error

PInv ==
  /\ TypeOK
  /\ Sorted
  /\ NoReplay
  /\ \A h \in Hellos : acc[h] > 0 => /\ Cached(h) \/ Refused(h)
                                     /\ Stamp[h] <= now + Skew
  /\ \A h \in old : Stamp[h] <= boot + Skew

\* What trimming a queue leaves: a nonempty suffix, all of what was dropped
\* being at least CacheTime old.
LEMMA TrimmedProps ==
  ASSUME NEW q \in Seq(Entry), q # <<>>, now \in Int
  PROVE  \E k \in 1 .. Len(q) :
           /\ Trimmed(q) \in Seq(Entry)
           /\ Len(Trimmed(q)) = Len(q) - k + 1
           /\ \A i \in 1 .. Len(q) - k + 1 : Trimmed(q)[i] = q[k + i - 1]
           /\ \A j \in 1 .. k - 1 : q[j].time <= now - CacheTime
<1> DEFINE k == Min(Kept(q))
<1>1. Len(q) \in Nat /\ DOMAIN q = 1 .. Len(q) /\ Len(q) >= 1
  OBVIOUS
<1>2. Kept(q) \in SUBSET Nat /\ Len(q) \in Kept(q)
  BY <1>1 DEF Kept
<1>3. k \in Kept(q) /\ \A y \in Kept(q) : k <= y
  BY <1>2, MinProps
<1>4. k \in 1 .. Len(q)
  BY <1>1, <1>3 DEF Kept
<1> HIDE DEF k
<1>5. Trimmed(q) = SubSeq(q, k, Len(q))
  BY DEF Trimmed, k
<1>6. /\ Trimmed(q) \in Seq(Entry)
      /\ Len(Trimmed(q)) = Len(q) - k + 1
      /\ \A i \in 1 .. Len(q) - k + 1 : Trimmed(q)[i] = q[k + i - 1]
  BY <1>1, <1>4, <1>5, SubSeqProperties
<1>7. ASSUME NEW j \in 1 .. k - 1 PROVE q[j].time <= now - CacheTime
  <2>1. j \in 1 .. Len(q) /\ j < k
    BY <1>1, <1>4
  <2>4. j \notin Kept(q)
    BY <1>3, <1>4, <2>1
  <2>2. ~ (q[j].time > now - CacheTime)
    BY <1>1, <2>1, <2>4, ZenonT(60) DEF Kept
  <2>3. q[j].time \in Int
    <3>1. q[j] \in Entry
      BY <1>1, <2>1
    <3> QED
      BY <3>1 DEF Entry
  <2> QED
    BY <2>2, <2>3, ReplayAssumption
<1> QED
  BY <1>4, <1>6, <1>7, ZenonT(60)

\* A ClientHello keeps the invariant and respects the window.
LEMMA HelloStep ==
  ASSUME PInv, NEW h \in Hellos, NEW valid \in BOOLEAN, ClientHello(h, valid)
  PROVE  PInv' /\ WindowStep
<1> DEFINE q == Added(h)
           e == [rnd |-> Prefix[h], time |-> now]
<1>1. /\ queue \in Seq(Entry) /\ now \in Int /\ boot \in Int /\ acc \in [Hellos -> Nat]
      /\ Len(queue) \in Nat /\ DOMAIN queue = 1 .. Len(queue)
      /\ Skew \in Nat /\ Error \in Nat /\ CacheTime \in Nat /\ CacheTime >= Error + Skew
      /\ Stamp \in [Hellos -> Int] /\ Prefix \in [Hellos -> Randoms]
  BY ReplayAssumption DEF PInv, TypeOK
<1>2. e \in Entry
  BY <1>1 DEF Entry
<1>3. /\ q \in Seq(Entry) /\ q # <<>> /\ Len(q) = Len(queue) + 1
      /\ \A i \in 1 .. Len(queue) : q[i] = queue[i]
      /\ q[Len(queue) + 1] = e
  <2>1. q = Append(queue, e)
    BY DEF Added
  <2> HIDE DEF q, e
  <2> QED
    BY <1>1, <1>2, <2>1, AppendProperties, SMTT(30)
<1>4. /\ \A i \in 1 .. Len(q) : q[i].time \in Int /\ boot <= q[i].time /\ q[i].time <= now
      /\ \A i, j \in 1 .. Len(q) : i <= j => q[i].time <= q[j].time
  <2> HIDE DEF q
  <2>1. \A i \in 1 .. Len(q) : q[i].time \in Int
    <3>1. \A i \in 1 .. Len(q) : q[i] \in Entry
      BY <1>3
    <3> QED
      BY <3>1 DEF Entry
  <2>2. \A i \in 1 .. Len(queue) : boot <= queue[i].time /\ queue[i].time <= now
    BY <1>1, SMTT(30) DEF PInv, Sorted
  <2>3. \A i, j \in 1 .. Len(queue) : i <= j => queue[i].time <= queue[j].time
    BY <1>1, ZenonT(60) DEF PInv, Sorted
  <2>4. boot <= now
    BY DEF PInv, Sorted
  <2>5. \A i \in 1 .. Len(q) : i \in 1 .. Len(queue) \/ i = Len(queue) + 1
    BY <1>1, <1>3
  <2>6. q[Len(queue) + 1].time = now
    BY <1>3
  <2>7. \A i \in 1 .. Len(q) : boot <= q[i].time /\ q[i].time <= now
    BY <1>1, <1>3, <2>2, <2>4, <2>5, <2>6
  <2>8. ASSUME NEW i \in 1 .. Len(q), NEW j \in 1 .. Len(q), i <= j
        PROVE  q[i].time <= q[j].time
    <3>1. CASE j = Len(queue) + 1
      BY <2>6, <2>7, <3>1
    <3>2. CASE j \in 1 .. Len(queue)
      <4>1. i \in 1 .. Len(queue)
        BY <1>1, <2>8, <3>2
      <4> QED
        BY <1>3, <2>3, <2>8, <3>2, <4>1
    <3> QED
      BY <2>5, <3>1, <3>2
  <2> QED
    BY <2>1, <2>7, <2>8
<1> HIDE DEF q
<1>5. PICK k \in 1 .. Len(q) :
        /\ queue' \in Seq(Entry)
        /\ Len(queue') = Len(q) - k + 1
        /\ \A i \in 1 .. Len(q) - k + 1 : queue'[i] = q[k + i - 1]
        /\ \A j \in 1 .. k - 1 : q[j].time <= now - CacheTime
  BY <1>1, <1>3, TrimmedProps, ZenonT(60) DEF ClientHello, q
<1>6. /\ queue' # <<>> /\ DOMAIN queue' = 1 .. Len(q) - k + 1
      /\ queue'[1] = q[k]
      /\ queue'[Len(q) - k + 1] = e
  <2>1. Len(queue') \in Nat /\ Len(queue') >= 1
    BY <1>1, <1>3, <1>5
  <2>2. DOMAIN queue' = 1 .. Len(queue') /\ queue' # <<>>
    BY <1>5, <2>1
  <2>3. queue'[1] = q[k + 1 - 1] /\ queue'[Len(q) - k + 1] = q[k + (Len(q) - k + 1) - 1]
    <3>1. 1 \in 1 .. Len(q) - k + 1 /\ Len(q) - k + 1 \in 1 .. Len(q) - k + 1
      BY <1>1, <1>3, <1>5
    <3> QED
      BY <1>5, <3>1
  <2>4. k + 1 - 1 = k /\ k + (Len(q) - k + 1) - 1 = Len(queue) + 1
    BY <1>1, <1>3, <1>5
  <2> QED
    BY <1>3, <1>5, <2>2, <2>3, <2>4
<1>7. now' = now /\ boot' = boot /\ old' = old
  BY DEF ClientHello
<1>8. \A g \in Hellos : g # h => acc'[g] = acc[g]
  BY <1>1 DEF ClientHello
<1>9. \/ acc'[h] = acc[h]
      \/ /\ acc'[h] = acc[h] + 1
         /\ Stamp[h] <= now + Skew
         /\ Stamp[h] > q[k].time + Skew \/ Stamp[h] > now - Error
  BY <1>1, <1>6 DEF ClientHello, is_allowed_timestamp
<1>10. TypeOK'
  BY <1>1, <1>5, <1>7, SMTT(30) DEF PInv, TypeOK, ClientHello
<1>11. Sorted'
  <2>1. ASSUME NEW i \in DOMAIN queue'
        PROVE  queue'[i] = q[k + i - 1] /\ k + i - 1 \in 1 .. Len(q)
    <3>1. i \in 1 .. Len(q) - k + 1
      BY <1>6
    <3>2. Len(q) \in Nat /\ k \in 1 .. Len(q)
      BY <1>3, <1>5
    <3> QED
      BY <1>5, <3>1, <3>2
  <2>2. \A i \in DOMAIN queue' : boot <= queue'[i].time /\ queue'[i].time <= now
    BY <1>4, <2>1
  <2>3. ASSUME NEW i \in DOMAIN queue', NEW j \in DOMAIN queue', i <= j
        PROVE  queue'[i].time <= queue'[j].time
    <3>1. k + i - 1 <= k + j - 1
      BY <1>1, <1>3, <1>5, <1>6, <2>3, SMTT(30)
    <3> QED
      BY <1>4, <2>1, <3>1
  <2> QED
    BY <1>7, <2>2, <2>3 DEF Sorted, PInv
<1>12. ASSUME NEW g \in Hellos, Refused(g)
       PROVE  Refused(g)' /\ Stamp[g] <= q[k].time + Skew
  <2>1. queue[1] = q[1] /\ Len(queue) >= 1
    BY <1>1, <1>3, <1>12 DEF Refused
  <2>2. q[1].time <= q[k].time
    BY <1>1, <1>3, <1>4, <1>5
  <2>3. Stamp[g] <= q[k].time + Skew
    <3>1. q[1].time \in Int /\ q[k].time \in Int /\ Stamp[g] \in Int
      BY <1>1, <1>3, <1>4, <1>5, SMTT(30)
    <3>2. Stamp[g] <= q[1].time + Skew
      BY <1>12, <2>1 DEF Refused
    <3> QED
      BY <1>1, <2>2, <3>1, <3>2, SMTT(30)
  <2> QED
    BY <1>6, <1>7, <1>12, <2>3 DEF Refused
<1>13. ASSUME NEW g \in Hellos, Cached(g)
       PROVE  Cached(g)' \/ Refused(g)'
  <2>1. PICK i \in 1 .. Len(queue) : q[i].rnd = Prefix[g] /\ Stamp[g] <= q[i].time + Skew
    BY <1>1, <1>3, <1>13, SMTT(30) DEF Cached
  <2>2. CASE i >= k
    <3>3. i - k + 1 \in 1 .. Len(q) - k + 1
      BY <1>1, <1>3, <1>5, <2>2, SMTT(30)
    <3>1. i - k + 1 \in DOMAIN queue' /\ queue'[i - k + 1] = q[k + (i - k + 1) - 1]
      BY <1>5, <1>6, <3>3, ZenonT(60)
    <3>2. k + (i - k + 1) - 1 = i
      BY <1>1, <1>5
    <3> QED
      BY <2>1, <3>1, <3>2 DEF Cached
  <2>3. CASE i < k
    <3>1. q[i].time <= now - CacheTime
      BY <1>1, <1>5, <2>3
    <3>2. q[i].time <= q[k].time
      BY <1>1, <1>3, <1>4, <1>5, <2>3, SMTT(30)
    <3>3. q[i].time \in Int /\ q[k].time \in Int /\ Stamp[g] \in Int
      BY <1>1, <1>3, <1>4, <1>5, SMTT(30)
    <3>4. Stamp[g] <= q[k].time + Skew /\ Stamp[g] <= now - Error
      <4>1. /\ now \in Int /\ Skew \in Nat /\ Error \in Nat /\ CacheTime \in Nat
            /\ CacheTime >= Error + Skew
        BY <1>1
      <4>2. Stamp[g] <= q[i].time + Skew
        BY <2>1
      <4>3. Stamp[g] <= q[k].time + Skew
        BY <3>2, <3>3, <4>1, <4>2
      <4>4. q[i].time + Skew <= now - CacheTime + Skew
        BY <3>1, <3>3, <4>1, SMTT(30)
      <4>5. now - CacheTime + Skew <= now - Error
        BY <4>1
      <4>6. Stamp[g] <= now - CacheTime + Skew
        BY <3>3, <4>1, <4>2, <4>4
      <4>7. Stamp[g] <= now - Error
        BY <3>3, <4>1, <4>5, <4>6, SMTT(30)
      <4> QED
        BY <4>3, <4>7
    <3> QED
      BY <1>6, <1>7, <3>4 DEF Refused
  <2> QED
    BY <1>1, <1>5, <2>2, <2>3, SMTT(30)
<1>14. ~ Cached(h)
  BY DEF ClientHello, Known, Cached
<1>15. ASSUME acc'[h] # acc[h]
       PROVE  acc[h] = 0 /\ acc'[h] = 1 /\ Cached(h)'
  <2>1. Stamp[h] <= now + Skew /\ (Stamp[h] > q[k].time + Skew \/ Stamp[h] > now - Error)
    BY <1>9, <1>15
  <2>2. ~ Refused(h)
    <3>1. q[k].time \in Int /\ Stamp[h] \in Int
      BY <1>1, <1>4, <1>5
    <3>2. Refused(h) => Stamp[h] <= now - Error
      BY DEF Refused
    <3> QED
      BY <1>1, <1>12, <2>1, <3>1, <3>2, SMTT(30)
  <2>3. acc[h] = 0
    BY <1>1, <1>14, <2>2 DEF PInv
  <2>4. Cached(h)'
    <3>1. Len(q) - k + 1 \in DOMAIN queue'
      BY <1>1, <1>3, <1>5, <1>6
    <3> QED
      BY <1>6, <2>1, <3>1 DEF Cached
  <2> QED
    BY <1>9, <1>15, <2>3, <2>4
<1>16. NoReplay'
  BY <1>8, <1>15 DEF PInv, NoReplay
<1>17. ASSUME NEW g \in Hellos, acc'[g] > 0
       PROVE  (Cached(g)' \/ Refused(g)') /\ Stamp[g] <= now' + Skew
  <2>1. CASE acc'[g] = acc[g]
    BY <1>7, <1>12, <1>13, <1>17, <2>1, SMTT(30) DEF PInv
  <2>2. CASE acc'[g] # acc[g]
    BY <1>7, <1>8, <1>9, <1>15, <2>2, SMTT(30)
  <2> QED
    BY <2>1, <2>2
<1>18. WindowStep
  <2> SUFFICES ASSUME NEW g \in old, acc'[g] > acc[g] PROVE now < boot + Error + Skew
    BY DEF WindowStep
  <2>1. g \in Hellos
    BY DEF PInv, TypeOK
  <2>2. acc[g] \in Nat /\ acc'[g] # acc[g]
    BY <1>1, <2>1
  <2>3. g = h
    BY <1>8, <2>1, <2>2
  <2>4. Stamp[h] > q[k].time + Skew \/ Stamp[h] > now - Error
    BY <1>9, <2>2, <2>3
  <2>5. Stamp[h] <= boot + Skew
    BY <2>3 DEF PInv
  <2>6. boot <= q[k].time /\ q[k].time \in Int /\ Stamp[h] \in Int
    BY <1>1, <1>4, <1>5, ZenonT(60)
  <2> QED
    BY <1>1, <2>4, <2>5, <2>6, SMTT(30)
<1> QED
  BY <1>7, <1>10, <1>11, <1>16, <1>17, <1>18, SMTT(30) DEF PInv

\* Time passing and restarts keep the invariant; neither accepts anything.
LEMMA OtherStep ==
  ASSUME PInv, Tick \/ Restart \/ UNCHANGED vars
  PROVE  PInv' /\ [WindowStep]_vars
<1>1. /\ now \in Int /\ boot \in Int /\ acc \in [Hellos -> Nat] /\ old \subseteq Hellos
      /\ queue \in Seq(Entry) /\ boot <= now
      /\ Skew \in Nat /\ Error \in Nat /\ Stamp \in [Hellos -> Int]
  BY ReplayAssumption DEF PInv, TypeOK, Sorted
<1>5. \A i \in DOMAIN queue : queue[i].time \in Int
  <2>1. \A i \in DOMAIN queue : queue[i] \in Entry
    BY <1>1
  <2> QED
    BY <2>1 DEF Entry
<1>2. CASE Tick
  <2>1. now' = now + 1 /\ UNCHANGED <<boot, queue, acc, old>>
    BY <1>2 DEF Tick
  <2>2. TypeOK' /\ Sorted' /\ NoReplay'
    BY <1>1, <1>5, <2>1 DEF PInv, TypeOK, Sorted, NoReplay
  <2>3. \A h \in Hellos : Cached(h) => Cached(h)'
    BY <2>1 DEF Cached
  <2>4. \A h \in Hellos : Refused(h) => Refused(h)'
    BY <1>1, <1>5, <2>1 DEF Refused
  <2>5. \A h \in Hellos : Stamp[h] <= now + Skew => Stamp[h] <= now' + Skew
    BY <1>1, <2>1
  <2>6. PInv'
    BY <2>1, <2>2, <2>3, <2>4, <2>5 DEF PInv
  <2>7. WindowStep
    BY <1>1, <2>1 DEF WindowStep
  <2> QED
    BY <2>6, <2>7
<1>3. CASE Restart
  <2>1. /\ boot' = now /\ now' = now /\ queue' = <<>>
        /\ acc' = [h \in Hellos |-> 0]
        /\ old' = old \cup {h \in Hellos : acc[h] > 0}
    BY <1>3 DEF Restart
  <2>2. TypeOK' /\ Sorted' /\ NoReplay'
    BY <1>1, <2>1 DEF TypeOK, Sorted, NoReplay
  <2>3. \A h \in old' : Stamp[h] <= boot' + Skew
    BY <1>1, <2>1 DEF PInv
  <2>4. PInv'
    BY <2>1, <2>2, <2>3 DEF PInv
  <2>5. WindowStep
    BY <1>1, <2>1 DEF WindowStep
  <2> QED
    BY <2>4, <2>5
<1>4. CASE UNCHANGED vars
  BY <1>4 DEF vars, PInv, TypeOK, Sorted, NoReplay, Cached, Refused
<1> QED
  BY <1>2, <1>3, <1>4

\* The invariant holds in every reachable state of the policy.
LEMMA PolicyKept == (Init => PInv) /\ (PInv /\ [Next]_vars => PInv' /\ [WindowStep]_vars)
<1>1. Init => PInv
  <2> SUFFICES ASSUME Init PROVE PInv
    OBVIOUS
  <2>1. TypeOK
    BY DEF Init, TypeOK
  <2>2. Sorted /\ NoReplay
    BY DEF Init, Sorted, NoReplay
  <2> QED
    BY <2>1, <2>2 DEF Init, PInv
<1>2. PInv /\ [Next]_vars => PInv' /\ [WindowStep]_vars
  BY HelloStep, OtherStep DEF Next
<1> QED
  BY <1>1, <1>2

\* No process accepts a ClientHello twice, for every cache time that covers
\* both tolerances (have_client_random, is_allowed_timestamp).
THEOREM ReplaySafe == Spec => []NoReplay
<1>1. PInv => NoReplay
  BY DEF PInv
<1> QED
  BY <1>1, PolicyKept, PTL DEF Spec

\* A restart reopens the door to the hellos of an earlier process for
\* Error + Skew seconds only (is_allowed_timestamp).
THEOREM RestartBounded == Spec => RestartWindow
BY PolicyKept, PTL DEF Spec, RestartWindow

-----------------------------------------------------------------------------
(* The hash table *)

\* The random of an entry is its own, lookups find every entry of the list,
\* and a chain holds the entries of its bucket, the newest first: whatever
\* follows an entry in its chain comes before it in the list.
Chained(q, ch) ==
  /\ q \in Seq(Entry) /\ ch \in [Buckets -> Seq(Entry)]
  /\ \A i, j \in DOMAIN q : q[i].rnd = q[j].rnd => i = j
  /\ \A i \in DOMAIN q : \E k \in DOMAIN ch[BucketOf[q[i].rnd]] : ch[BucketOf[q[i].rnd]][k] = q[i]
  /\ \A b \in Buckets : \A k \in DOMAIN ch[b] :
       \E i \in DOMAIN q : ch[b][k] = q[i] /\ BucketOf[q[i].rnd] = b
  /\ \A b \in Buckets : \A k, m \in DOMAIN ch[b] : \A i, j \in DOMAIN q :
       k < m /\ ch[b][k] = q[i] /\ ch[b][m] = q[j] => j < i

CInv == now \in Int /\ Chained(queue, chain)

\* Where every entry is found, the policy sees the whole list.
LEMMA AllFound ==
  ASSUME NEW q, NEW ch, Chained(q, ch)
  PROVE  FoundOf(q, ch) = q
<1> DEFINE n == Len(q)
           found == {i \in DOMAIN q : Found(q[i], ch)}
           place(i) == Cardinality({j \in found : j <= i})
<1>1. q \in Seq(Entry) /\ n \in Nat /\ DOMAIN q = 1 .. n
  BY DEF Chained
<1>2. found = 1 .. n
  BY <1>1 DEF Chained, Found, Range
<1>3. Cardinality(found) = n
  <2>1. Cardinality(1 .. n) = IF 1 > n THEN 0 ELSE n - 1 + 1
    BY <1>1, FS_Interval, SMTT(30)
  <2>2. Cardinality(1 .. n) = n
    BY <1>1, <2>1
  <2> HIDE DEF found
  <2> QED
    BY <1>2, <2>2
<1>4. ASSUME NEW i \in 1 .. n PROVE place(i) = i
  <2>1. {j \in found : j <= i} = 1 .. i
    BY <1>1, <1>2
  <2>2. Cardinality(1 .. i) = i
    BY FS_Interval
  <2> QED
    BY <2>1, <2>2, ZenonT(60)
<1>5. FoundOf(q, ch) = [k \in 1 .. Cardinality(found) |-> q[CHOOSE i \in found : place(i) = k]]
  BY DEF FoundOf
<1> HIDE DEF found, place, n
<1>6. \A k \in 1 .. n : (CHOOSE i \in found : place(i) = k) = k
  BY <1>2, <1>4
<1>7. FoundOf(q, ch) = [k \in 1 .. n |-> q[k]]
  BY <1>3, <1>5, <1>6
<1> QED
  BY <1>1, <1>7

\* The first entry that stays is one of the list.
LEMMA CutPoint ==
  ASSUME NEW q \in Seq(Entry), q # <<>>, now \in Int
  PROVE  /\ Min(Kept(q)) \in 1 .. Len(q) /\ Len(q) \in Nat /\ DOMAIN q = 1 .. Len(q)
         /\ Trimmed(q) \in Seq(Entry)
         /\ Len(Trimmed(q)) = Len(q) - Min(Kept(q)) + 1
         /\ \A i \in 1 .. Len(q) - Min(Kept(q)) + 1 : Trimmed(q)[i] = q[Min(Kept(q)) + i - 1]
<1> DEFINE k == Min(Kept(q))
<1>1. Len(q) \in Nat /\ DOMAIN q = 1 .. Len(q) /\ Len(q) >= 1
  OBVIOUS
<1>2. Kept(q) \in SUBSET Nat /\ Len(q) \in Kept(q) /\ Kept(q) \subseteq 1 .. Len(q)
  BY <1>1 DEF Kept
<1>3. k \in 1 .. Len(q)
  BY <1>2, MinProps, SMTT(30)
<1>4. Trimmed(q) = SubSeq(q, k, Len(q))
  BY DEF Trimmed
<1> HIDE DEF k
<1>5. /\ Trimmed(q) \in Seq(Entry)
      /\ Len(Trimmed(q)) = Len(q) - k + 1
      /\ \A i \in 1 .. Len(q) - k + 1 : Trimmed(q)[i] = q[k + i - 1]
  BY <1>1, <1>3, <1>4, SubSeqProperties
<1> QED
  BY <1>1, <1>3, <1>5 DEF k

\* A chain loses the deleted entries and nothing else: what follows the first
\* of them in the chain is older, so it is deleted too.
LEMMA ChainCut ==
  ASSUME NEW q, NEW ch, Chained(q, ch), q # <<>>, now \in Int, NEW b \in Buckets
  PROVE  LET c == ch[b]
             d == delete_old_client_randoms(ch, Deleted(q))[b]
         IN  /\ d \in Seq(Entry) /\ DOMAIN d \subseteq DOMAIN c
             /\ \A m \in DOMAIN c : m \in DOMAIN d <=> c[m] \notin Deleted(q)
             /\ \A m \in DOMAIN d : d[m] = c[m]
<1> DEFINE c == ch[b]
           gone == Deleted(q)
           hits == {i \in DOMAIN c : c[i] \in gone}
           d == delete_old_client_randoms(ch, gone)[b]
           k == Min(Kept(q))
           Cut == /\ d \in Seq(Entry) /\ DOMAIN d \subseteq DOMAIN c
                  /\ \A m \in DOMAIN c : m \in DOMAIN d <=> c[m] \notin gone
                  /\ \A m \in DOMAIN d : d[m] = c[m]
<1> SUFFICES Cut
  OBVIOUS
<1>1. q \in Seq(Entry) /\ c \in Seq(Entry) /\ Len(c) \in Nat /\ DOMAIN c = 1 .. Len(c)
  BY DEF Chained
<1>2. k \in 1 .. Len(q) /\ Len(q) \in Nat /\ DOMAIN q = 1 .. Len(q)
  BY <1>1, CutPoint
<1>3. d = IF hits = {} THEN c ELSE SubSeq(c, 1, Min(hits) - 1)
  BY DEF delete_old_client_randoms
<1>4. gone = {q[i] : i \in 1 .. k - 1}
  BY DEF Deleted
<1> HIDE DEF d, gone, k
<1>5. CASE hits = {}
  <2>1. d = c /\ \A m \in DOMAIN c : c[m] \notin gone
    BY <1>3, <1>5
  <2> QED
    BY <1>1, <2>1
<1>6. CASE hits # {}
  <2> DEFINE f == Min(hits)
  <2>1. hits \in SUBSET Nat
    BY <1>1
  <2>2. f \in hits /\ \A y \in hits : f <= y
    BY <1>6, <2>1, MinProps, ZenonT(60)
  <2> HIDE DEF f
  <2>3. f \in 1 .. Len(c) /\ c[f] \in gone
    BY <1>1, <2>2
  <2>4. d = SubSeq(c, 1, f - 1)
    BY <1>3, <1>6, ZenonT(60) DEF f
  <2>5. d \in Seq(Entry) /\ Len(d) = f - 1 /\ \A i \in 1 .. f - 1 : d[i] = c[i]
    <3>1. f - 1 \in 0 .. Len(c)
      BY <1>1, <2>3
    <3> QED
      BY <1>1, <2>3, <2>4, <3>1, SubSeqProperties, SMTT(30)
  <2>6. DOMAIN d = 1 .. f - 1
    BY <2>5
  <2>7. ASSUME NEW m \in DOMAIN c, m < f PROVE c[m] \notin gone
    BY <1>1, <2>2, <2>3, <2>7
  <2>8. ASSUME NEW m \in DOMAIN c, f < m PROVE c[m] \in gone
    <3>1. PICK i \in 1 .. k - 1 : c[f] = q[i]
      BY <1>4, <2>3
    <3>2. PICK j \in DOMAIN q : c[m] = q[j]
      BY <1>1 DEF Chained
    <3>3. i \in DOMAIN q
      BY <1>2, <3>1
    <3>4. \A x, y \in DOMAIN c : \A u, v \in DOMAIN q : x < y /\ c[x] = q[u] /\ c[y] = q[v] => v < u
      BY ZenonT(60) DEF Chained
    <3>6. f \in DOMAIN c
      BY <1>1, <2>3, ZenonT(60)
    <3>7. j < i
      BY <2>8, <3>1, <3>2, <3>3, <3>4, <3>6, ZenonT(60)
    <3>5. j \in 1 .. k - 1
      BY <1>2, <3>1, <3>2, <3>7, SMTT(30)
    <3> QED
      BY <1>4, <3>2, <3>5, SMTT(30)
  <2>9. \A m \in DOMAIN c : m \in 1 .. f - 1 <=> m < f
    BY <1>1, <2>3
  <2>10. \A m \in DOMAIN c : m < f \/ m = f \/ f < m
    BY <1>1, <2>3
  <2>11. DOMAIN d \subseteq DOMAIN c
    BY <1>1, <2>3, <2>6, SMTT(30)
  <2>12. \A m \in DOMAIN c : m \in DOMAIN d <=> c[m] \notin gone
    BY <2>3, <2>6, <2>7, <2>8, <2>9, <2>10, SMTT(30)
  <2> QED
    BY <2>5, <2>6, <2>11, <2>12, SMTT(30)
<1> QED
  BY <1>5, <1>6, SMTT(30)

\* Dropping the oldest entries from list and chains keeps them in step.
LEMMA CutChained ==
  ASSUME NEW q, NEW ch, Chained(q, ch), q # <<>>, now \in Int
  PROVE  Chained(Trimmed(q), delete_old_client_randoms(ch, Deleted(q)))
<1> DEFINE t == Trimmed(q)
           gone == Deleted(q)
           new == delete_old_client_randoms(ch, gone)
           k == Min(Kept(q))
<1>1. /\ k \in 1 .. Len(q) /\ Len(q) \in Nat /\ DOMAIN q = 1 .. Len(q)
      /\ t \in Seq(Entry) /\ Len(t) = Len(q) - k + 1
      /\ \A i \in 1 .. Len(q) - k + 1 : t[i] = q[k + i - 1]
  BY CutPoint DEF Chained
<1>2. gone = {q[i] : i \in 1 .. k - 1}
  BY DEF Deleted
<1>3. \A b \in Buckets :
        /\ new[b] \in Seq(Entry) /\ DOMAIN new[b] \subseteq DOMAIN ch[b]
        /\ \A m \in DOMAIN ch[b] : m \in DOMAIN new[b] <=> ch[b][m] \notin gone
        /\ \A m \in DOMAIN new[b] : new[b][m] = ch[b][m]
  BY ChainCut
<1>4. new \in [Buckets -> Seq(Entry)]
  <2>1. new = [b \in Buckets |-> new[b]]
    BY DEF delete_old_client_randoms
  <2> HIDE DEF new
  <2> QED
    BY <1>3, <2>1
<1> HIDE DEF t, gone, new, k
<1>5. ASSUME NEW i \in DOMAIN t PROVE t[i] = q[k + i - 1] /\ k + i - 1 \in DOMAIN q /\ k <= k + i - 1
  BY <1>1, SMTT(30)
<1>6. ASSUME NEW j \in DOMAIN q, k <= j PROVE j - k + 1 \in DOMAIN t /\ t[j - k + 1] = q[j]
  <2>1. j - k + 1 \in 1 .. Len(q) - k + 1 /\ k + (j - k + 1) - 1 = j
    BY <1>1, <1>6
  <2>2. DOMAIN t = 1 .. Len(q) - k + 1
    BY <1>1
  <2> QED
    BY <1>1, <2>1, <2>2
<1>7. ASSUME NEW j \in DOMAIN q PROVE q[j] \in gone <=> j < k
  <2>1. j < k => q[j] \in gone
    BY <1>1, <1>2
  <2>2. ASSUME NEW i \in 1 .. k - 1, q[j] = q[i] PROVE j < k
    <3>1. i \in DOMAIN q
      BY <1>1
    <3>2. i = j
      BY <2>2, <3>1 DEF Chained
    <3> QED
      BY <1>1, <3>2
  <2> QED
    BY <1>2, <2>1, <2>2
<1>8. \A i, j \in DOMAIN t : t[i].rnd = t[j].rnd => i = j
  <2> SUFFICES ASSUME NEW i \in DOMAIN t, NEW j \in DOMAIN t, t[i].rnd = t[j].rnd PROVE i = j
    OBVIOUS
  <2>1. k + i - 1 = k + j - 1
    BY <1>5 DEF Chained
  <2> QED
    BY <1>1, <2>1
<1>9. ASSUME NEW i \in DOMAIN t
      PROVE  \E m \in DOMAIN new[BucketOf[t[i].rnd]] : new[BucketOf[t[i].rnd]][m] = t[i]
  <2> DEFINE j == k + i - 1
             b == BucketOf[t[i].rnd]
  <2>1. j \in DOMAIN q /\ t[i] = q[j] /\ k <= j
    BY <1>5
  <2>2. ~ (j < k)
    BY <1>1, <2>1, SMTT(30)
  <2>3. PICK m \in DOMAIN ch[b] : ch[b][m] = q[j]
    <3>1. b = BucketOf[q[j].rnd]
      BY <2>1
    <3> HIDE DEF b, j
    <3> QED
      BY <2>1, <3>1 DEF Chained
  <2>4. b \in Buckets
    <3>1. t[i] \in Entry
      BY <1>1
    <3> QED
      BY <3>1, BucketAssumption DEF Entry
  <2> HIDE DEF j, b
  <2>5. m \in DOMAIN new[b] /\ new[b][m] = q[j]
    BY <1>3, <1>7, <2>1, <2>2, <2>3, <2>4, SMTT(30)
  <2> QED
    BY <2>1, <2>5 DEF b
<1>10. ASSUME NEW b \in Buckets, NEW m \in DOMAIN new[b], NEW j \in DOMAIN q, new[b][m] = q[j]
       PROVE  k <= j /\ m \in DOMAIN ch[b] /\ ch[b][m] = q[j]
  <2>1. m \in DOMAIN ch[b] /\ ch[b][m] = q[j] /\ q[j] \notin gone
    BY <1>3, <1>10
  <2> QED
    BY <1>1, <1>7, <2>1, SMTT(30)
<1>11. ASSUME NEW b \in Buckets, NEW m \in DOMAIN new[b]
       PROVE  \E i \in DOMAIN t : new[b][m] = t[i] /\ BucketOf[t[i].rnd] = b
  <2>1. PICK j \in DOMAIN q : new[b][m] = q[j] /\ BucketOf[q[j].rnd] = b
    BY <1>3 DEF Chained
  <2> QED
    BY <1>6, <1>10, <2>1, SMTT(30)
<1>12. ASSUME NEW b \in Buckets, NEW x \in DOMAIN new[b], NEW m \in DOMAIN new[b],
              NEW i \in DOMAIN t, NEW j \in DOMAIN t,
              x < m, new[b][x] = t[i], new[b][m] = t[j]
       PROVE  j < i
  <2>1. k + j - 1 < k + i - 1
    BY <1>5, <1>10, <1>12 DEF Chained
  <2> QED
    BY <1>1, <2>1, SMTT(30)
<1>13. Chained(t, new)
  BY <1>1, <1>4, <1>8, <1>9, <1>11, <1>12, ZenonT(60) DEF Chained
<1> QED
  BY <1>13 DEF t, new, gone

\* A new entry goes to the end of the list and to the head of its chain.
LEMMA AddChained ==
  ASSUME Chained(queue, chain), now \in Int, NEW h \in Hellos,
         \A i \in DOMAIN queue : queue[i].rnd # Prefix[h]
  PROVE  Chained(Added(h), add_client_random(h)) /\ Added(h) # <<>>
<1> DEFINE e == [rnd |-> Prefix[h], time |-> now]
           n == Len(queue)
           q == Added(h)
           b0 == Bucket(h)
           ch == add_client_random(h)
           c0 == chain[b0]
<1>1. /\ queue \in Seq(Entry) /\ n \in Nat /\ DOMAIN queue = 1 .. n
      /\ chain \in [Buckets -> Seq(Entry)]
  BY DEF Chained
<1>2. e \in Entry /\ b0 \in Buckets /\ b0 = BucketOf[e.rnd]
  BY ReplayAssumption, BucketAssumption DEF Entry, Bucket
<1>3. q = Append(queue, e)
  BY DEF Added
<1>4. ch = [chain EXCEPT ![b0] = <<e>> \o @]
  BY DEF add_client_random
<1>5. e.rnd = Prefix[h]
  OBVIOUS
<1> HIDE DEF e, q, ch, b0
<1>6. /\ q \in Seq(Entry) /\ Len(q) = n + 1 /\ DOMAIN q = 1 .. n + 1 /\ q # <<>>
      /\ (\A i \in 1 .. n : q[i] = queue[i]) /\ q[n + 1] = e
  <2>1. /\ q \in Seq(Entry) /\ Len(q) = n + 1 /\ q # <<>>
        /\ (\A i \in 1 .. n : q[i] = queue[i]) /\ q[n + 1] = e
    BY <1>1, <1>2, <1>3, AppendProperties, SMTT(30)
  <2>2. DOMAIN q = 1 .. n + 1
    BY <1>1, <2>1, SMTT(30)
  <2> QED
    BY <2>1, <2>2
<1>7. /\ c0 \in Seq(Entry) /\ Len(c0) \in Nat /\ DOMAIN c0 = 1 .. Len(c0)
      /\ <<e>> \o c0 \in Seq(Entry)
      /\ DOMAIN (<<e>> \o c0) = 1 .. Len(c0) + 1
      /\ (<<e>> \o c0)[1] = e
      /\ \A m \in 1 .. Len(c0) : (<<e>> \o c0)[m + 1] = c0[m]
  <2>1. c0 \in Seq(Entry) /\ <<e>> \in Seq(Entry) /\ Len(<<e>>) = 1 /\ <<e>>[1] = e
    BY <1>1, <1>2
  <2>2. /\ <<e>> \o c0 \in Seq(Entry) /\ Len(<<e>> \o c0) = 1 + Len(c0)
        /\ \A i \in 1 .. 1 + Len(c0) :
             (<<e>> \o c0)[i] = IF i <= 1 THEN <<e>>[i] ELSE c0[i - 1]
    BY <2>1, ConcatProperties
  <2>3. Len(c0) \in Nat /\ DOMAIN c0 = 1 .. Len(c0)
    BY <2>1
  <2>4. DOMAIN (<<e>> \o c0) = 1 .. Len(c0) + 1
    BY <2>2, <2>3
  <2>5. (<<e>> \o c0)[1] = e
    <3>1. 1 \in 1 .. 1 + Len(c0)
      BY <2>3
    <3> QED
      BY <2>1, <2>2, <3>1, SMTT(30)
  <2>6. ASSUME NEW m \in 1 .. Len(c0) PROVE (<<e>> \o c0)[m + 1] = c0[m]
    <3>1. m + 1 \in 1 .. 1 + Len(c0) /\ ~ (m + 1 <= 1) /\ (m + 1) - 1 = m
      BY <2>3, SMTT(30)
    <3> QED
      BY <2>2, <3>1
  <2> QED
    BY <2>1, <2>2, <2>3, <2>4, <2>5, <2>6, SMTT(30)
<1>8. ch \in [Buckets -> Seq(Entry)] /\ ch[b0] = <<e>> \o c0 /\ \A b \in Buckets \ {b0} : ch[b] = chain[b]
  BY <1>1, <1>2, <1>4, <1>7, SMTT(30)
<1>9. /\ DOMAIN ch[b0] = 1 .. Len(c0) + 1 /\ ch[b0][1] = e
      /\ \A m \in 1 .. Len(c0) : ch[b0][m + 1] = c0[m]
  BY <1>7, <1>8, SMTT(30)
\* An entry of a chain is the new one or an old one, its place moved by one in
\* the bucket of the new one.
<1>10. ASSUME NEW b \in Buckets, NEW m \in DOMAIN ch[b]
       PROVE  \/ b = b0 /\ m = 1 /\ ch[b][m] = e
              \/ b = b0 /\ m - 1 \in DOMAIN chain[b] /\ ch[b][m] = chain[b][m - 1] /\ m # 1
              \/ b # b0 /\ m \in DOMAIN chain[b] /\ ch[b][m] = chain[b][m]
  <2>1. CASE b # b0
    BY <1>8, <2>1, SMTT(30)
  <2>2. CASE b = b0 /\ m = 1
    BY <1>9, <2>2, SMTT(30)
  <2>3. CASE b = b0 /\ m # 1
    <3>1. m - 1 \in 1 .. Len(c0) /\ (m - 1) + 1 = m
      BY <1>7, <1>9, <2>3, SMTT(30)
    <3> QED
      BY <1>7, <1>9, <2>3, <3>1, SMTT(30)
  <2> QED
    BY <2>1, <2>2, <2>3, SMTT(30)
<1>11. ASSUME NEW i \in DOMAIN q
       PROVE  \/ i \in DOMAIN queue /\ q[i] = queue[i] /\ q[i].rnd # Prefix[h] /\ i < n + 1
              \/ i = n + 1 /\ q[i] = e
  BY <1>1, <1>6, SMTT(30)
<1>12. \A i, j \in DOMAIN q : q[i].rnd = q[j].rnd => i = j
  BY <1>5, <1>11, SMTT(30) DEF Chained
<1>13. ASSUME NEW i \in DOMAIN q
       PROVE  \E m \in DOMAIN ch[BucketOf[q[i].rnd]] : ch[BucketOf[q[i].rnd]][m] = q[i]
  <2>1. CASE q[i] = e
    <3>1. 1 \in DOMAIN ch[b0]
      BY <1>7, <1>9, SMTT(30)
    <3> QED
      BY <1>2, <1>9, <2>1, <3>1, SMTT(30)
  <2>2. CASE i \in DOMAIN queue /\ q[i] = queue[i]
    <3> DEFINE b == BucketOf[queue[i].rnd]
    <3>1. b \in Buckets
      <4>1. queue[i] \in Entry
        BY <1>1, <2>2, SMTT(30)
      <4> QED
        BY <4>1, BucketAssumption, SMTT(30) DEF Entry
    <3>2. PICK m \in DOMAIN chain[b] : chain[b][m] = queue[i]
      BY <2>2, SMTT(30) DEF Chained
    <3> HIDE DEF b
    <3>3. CASE b # b0
      <4>1. m \in DOMAIN ch[b] /\ ch[b][m] = queue[i]
        BY <1>8, <3>1, <3>2, <3>3
      <4> QED
        BY <2>2, <4>1 DEF b
    <3>4. CASE b = b0
      <4>1. m \in 1 .. Len(c0) /\ m + 1 \in 1 .. Len(c0) + 1
        BY <1>7, <3>2, <3>4, SMTT(30)
      <4>2. m + 1 \in DOMAIN ch[b] /\ ch[b][m + 1] = queue[i]
        BY <1>9, <3>2, <3>4, <4>1, SMTT(30)
      <4> QED
        BY <2>2, <4>2, SMTT(30) DEF b
    <3> QED
      BY <3>3, <3>4, SMTT(30)
  <2> QED
    BY <1>11, <2>1, <2>2, SMTT(30)
<1>14. ASSUME NEW b \in Buckets, NEW m \in DOMAIN ch[b]
       PROVE  \E i \in DOMAIN q : ch[b][m] = q[i] /\ BucketOf[q[i].rnd] = b
  <2>1. n + 1 \in DOMAIN q /\ \A i \in DOMAIN queue : i \in DOMAIN q /\ q[i] = queue[i]
    BY <1>1, <1>6, SMTT(30)
  <2>2. ASSUME NEW x \in DOMAIN chain[b], ch[b][m] = chain[b][x]
        PROVE  \E i \in DOMAIN q : ch[b][m] = q[i] /\ BucketOf[q[i].rnd] = b
    <3>1. PICK i \in DOMAIN queue : chain[b][x] = queue[i] /\ BucketOf[queue[i].rnd] = b
      BY DEF Chained
    <3> QED
      BY <2>1, <2>2, <3>1, SMTT(30)
  <2>3. CASE b = b0 /\ ch[b][m] = e
    BY <1>2, <1>6, <2>1, <2>3, SMTT(30)
  <2> QED
    BY <1>10, <2>2, <2>3, SMTT(30)
<1>15. ASSUME NEW b \in Buckets, NEW x \in DOMAIN ch[b], NEW m \in DOMAIN ch[b],
              NEW i \in DOMAIN q, NEW j \in DOMAIN q,
              x < m, ch[b][x] = q[i], ch[b][m] = q[j]
       PROVE  j < i
  \* An old entry of a chain is one of the list, hence not the new one.
  <2>1. ASSUME NEW y \in DOMAIN chain[b], NEW o \in DOMAIN q, chain[b][y] = q[o]
        PROVE  o \in DOMAIN queue /\ q[o] = queue[o] /\ o < n + 1
    <3>1. chain[b][y].rnd # Prefix[h]
      BY DEF Chained
    <3> QED
      BY <1>5, <1>11, <2>1, <3>1, SMTT(30)
  <2>2. x \in Nat /\ m \in Nat /\ x >= 1
    <3>1. ch[b] \in Seq(Entry)
      BY <1>8, SMTT(30)
    <3> QED
      BY <3>1
  <2>3. ASSUME NEW y \in DOMAIN chain[b], NEW z \in DOMAIN chain[b], y < z,
               ch[b][x] = chain[b][y], ch[b][m] = chain[b][z]
        PROVE  j < i
    <3>1. i \in DOMAIN queue /\ j \in DOMAIN queue /\ q[i] = queue[i] /\ q[j] = queue[j]
      BY <1>15, <2>1, <2>3, ZenonT(60)
    <3>2. chain[b][y] = queue[i] /\ chain[b][z] = queue[j]
      BY <1>15, <2>3, <3>1, ZenonT(60)
    <3> QED
      BY <2>3, <3>1, <3>2, SMTT(30) DEF Chained
  <2>4. CASE b # b0
    BY <1>10, <1>15, <2>3, <2>4, SMTT(30)
  <2>5. CASE b = b0 /\ x # 1
    <3>1. m # 1 /\ x - 1 < m - 1
      BY <1>15, <2>2, <2>5, SMTT(30)
    <3> QED
      BY <1>10, <2>3, <2>5, <3>1, SMTT(30)
  <2>6. CASE b = b0 /\ x = 1
    <3>1. m # 1
      BY <1>15, <2>2, <2>6, SMTT(30)
    <3>2. m - 1 \in DOMAIN chain[b] /\ chain[b][m - 1] = q[j]
      BY <1>10, <1>15, <2>6, <3>1, SMTT(30)
    <3>3. j < n + 1
      BY <2>1, <3>2, SMTT(30)
    <3>4. q[i] = e
      BY <1>9, <1>15, <2>6, SMTT(30)
    <3>5. i = n + 1
      BY <1>5, <1>11, <3>4, SMTT(30)
    <3> QED
      BY <3>3, <3>5, SMTT(30)
  <2> QED
    BY <2>4, <2>5, <2>6, SMTT(30)
<1> QED
  <2>1. \A b \in Buckets : \A x, m \in DOMAIN ch[b] : \A i, j \in DOMAIN q :
          x < m /\ ch[b][x] = q[i] /\ ch[b][m] = q[j] => j < i
    BY <1>15
  <2>2. Chained(q, ch)
    BY <1>6, <1>8, <1>12, <1>13, <1>14, <2>1, ZenonT(60) DEF Chained
  <2> QED
    BY <1>6, <2>2 DEF q, ch

\* The hash table with its list keeps them in step, and each of its steps is
\* one of the policy's.
LEMMA CacheStep ==
  ASSUME CInv, CacheNext
  PROVE  CInv' /\ Policy!Next
<1>1. FoundOf(queue, chain) = queue /\ queue \in Seq(Entry) /\ now \in Int
  BY AllFound, ZenonT(60) DEF CInv, Chained
<1>2. CASE CacheTick
  <2>1. now < MaxNow /\ now' = now + 1 /\ UNCHANGED <<boot, queue, acc, old, chain>>
    BY <1>2 DEF CacheTick, Tick
  <2>2. CInv'
    BY <1>1, <2>1 DEF CInv
  <2>3. FoundOf(queue, chain)' = FoundOf(queue, chain)
    BY <1>1, <2>1, <2>2, AllFound DEF CInv
  <2>4. Policy!Tick
    BY <2>1, <2>3 DEF Policy!Tick
  <2> QED
    BY <2>2, <2>4 DEF Policy!Next
<1>3. CASE CacheRestart
  <2>1. /\ boot' = now /\ queue' = <<>> /\ acc' = [h \in Hellos |-> 0] /\ UNCHANGED now
        /\ old' = old \cup {h \in Hellos : acc[h] > 0}
        /\ chain' = [b \in Buckets |-> <<>>]
    BY <1>3, SMTT(30) DEF CacheRestart, Restart
  <2>2. CInv'
    BY <1>1, <2>1 DEF CInv, Chained
  <2>3. FoundOf(queue, chain)' = <<>>
    BY <2>1, <2>2, AllFound DEF CInv
  <2>4. Policy!Restart
    BY <2>1, <2>3 DEF Policy!Restart
  <2> QED
    BY <2>2, <2>4 DEF Policy!Next
<1>4. ASSUME NEW h \in Hellos, NEW valid \in BOOLEAN, CacheClientHello(h, valid)
      PROVE  CInv' /\ Policy!Next
  <2>1. ASSUME NEW i \in DOMAIN queue PROVE queue[i].rnd # Prefix[h]
    <3>1. PICK k \in DOMAIN chain[BucketOf[queue[i].rnd]] : chain[BucketOf[queue[i].rnd]][k] = queue[i]
      BY DEF CInv, Chained
    <3> QED
      BY <1>4, <3>1, SMTT(30) DEF CacheClientHello, have_client_random, Bucket
  <2>2. Chained(Added(h), add_client_random(h)) /\ Added(h) # <<>>
    BY <1>1, <2>1, AddChained DEF CInv
  <2>3. Chained(queue', chain')
    <3>1. /\ queue' = Trimmed(Added(h))
          /\ chain' = delete_old_client_randoms(add_client_random(h), Deleted(Added(h)))
      BY <1>4 DEF CacheClientHello
    <3> QED
      BY <1>1, <2>2, <3>1, CutChained, SMTT(30)
  <2>4. CInv'
    BY <1>1, <1>4, <2>3 DEF CInv, CacheClientHello
  <2>5. FoundOf(queue, chain)' = queue'
    BY <2>3, AllFound
  <2>6. Policy!Trimmed(Policy!Added(h)) = Trimmed(Added(h))
    <3>1. Policy!Added(h) = Added(h)
      BY <1>1 DEF Policy!Added, Added
    <3>2. \A q : Policy!Kept(q) = Kept(q)
      BY DEF Policy!Kept, Kept
    <3>3. \A q : Policy!Trimmed(q) = Trimmed(q)
      BY <3>2, ZenonT(60) DEF Policy!Trimmed, Trimmed, Policy!Min, Min
    <3> QED
      BY <3>1, <3>3, ZenonT(60)
  <2>7. Policy!ClientHello(h, valid)
    <3>1. ~ Policy!Known(h)
      BY <1>1, <2>1 DEF Policy!Known
    <3>2. FoundOf(queue, chain)' = Policy!Trimmed(Policy!Added(h))
      BY <1>4, <2>5, <2>6, SMTT(30) DEF CacheClientHello
    <3>3. acc' = [acc EXCEPT ![h] = IF valid /\ Policy!is_allowed_timestamp(Stamp[h], FoundOf(queue, chain)')
                                      THEN @ + 1 ELSE @]
      BY <1>4, <2>5 DEF CacheClientHello, Policy!is_allowed_timestamp, is_allowed_timestamp
    <3>4. UNCHANGED <<now, boot, old>>
      BY <1>4 DEF CacheClientHello
    <3> QED
      BY <3>1, <3>2, <3>3, <3>4, SMTT(30) DEF Policy!ClientHello
  <2> QED
    BY <2>4, <2>7, SMTT(30) DEF Policy!Next
<1> QED
  BY <1>2, <1>3, <1>4 DEF CacheNext

\* The cache with its hash table implements the policy, whatever the buckets:
\* cutting a chain at a deleted entry never hides an entry that is still in
\* the list (delete_old_client_randoms).
THEOREM CacheImplementsPolicy == CacheSpec => ImplementsPolicy
<1>1. CacheInit => CInv /\ Policy!Init
  <2> SUFFICES ASSUME CacheInit PROVE CInv /\ Policy!Init
    OBVIOUS
  <2>1. CInv
    BY DEF CacheInit, Init, CInv, Chained
  <2>2. FoundOf(queue, chain) = <<>>
    BY <2>1, AllFound DEF CacheInit, Init, CInv
  <2> QED
    BY <2>1, <2>2 DEF CacheInit, Init, Policy!Init
<1>2. CInv /\ [CacheNext]_cacheVars => CInv' /\ [Policy!Next]_(Policy!vars)
  <2>1. ASSUME CInv, UNCHANGED cacheVars PROVE CInv' /\ UNCHANGED Policy!vars
    <3>1. UNCHANGED <<now, boot, queue, acc, old, chain>>
      BY <2>1 DEF cacheVars, vars
    <3>2. CInv'
      BY <2>1, <3>1 DEF CInv
    <3>3. FoundOf(queue, chain)' = FoundOf(queue, chain)
      BY <2>1, <3>1, <3>2, AllFound DEF CInv
    <3> QED
      BY <3>1, <3>2, <3>3 DEF Policy!vars
  <2> QED
    BY <2>1, CacheStep
<1> QED
  BY <1>1, <1>2, PTL DEF CacheSpec, ImplementsPolicy, Policy!Spec
=============================================================================
