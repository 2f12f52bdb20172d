---------------------------- MODULE ReplayCache ----------------------------
(***************************************************************************)
(* The client random cache as the code keeps it: the list by time of       *)
(* ReplayPolicy and a hash table of chains.  Lookups walk the chains, and  *)
(* a deletion cuts a chain off at the deleted entry, relying on that entry *)
(* being the chain's last.                                                 *)
(***************************************************************************)
EXTENDS ReplayPolicy

CONSTANTS
  Buckets,      \* client_randoms
  BucketOf      \* get_client_random_bucket

VARIABLE
  chain         \* the bucket's entries along next_by_hash, newest first

ASSUME BucketAssumption == BucketOf \in [Randoms -> Buckets]

CacheInit == Init /\ chain = [b \in Buckets |-> <<>>]

Bucket(h) == BucketOf[Prefix[h]]

have_client_random(h) ==
  \E i \in DOMAIN chain[Bucket(h)] : chain[Bucket(h)][i].rnd = Prefix[h]

\* The chains after add_client_random.
add_client_random(h) ==
  [chain EXCEPT ![Bucket(h)] = <<[rnd |-> Prefix[h], time |-> now]>> \o @]

\* The entries delete_old_client_randoms frees.
Deleted(q) == {q[i] : i \in 1 .. Min(Kept(q)) - 1}

\* Mutant: the head of the bucket is reset instead of the link to the entry.
delete_old_client_randoms_All(ch, gone) ==
  [b \in Buckets |-> IF \E i \in DOMAIN ch[b] : ch[b][i] \in gone THEN <<>> ELSE ch[b]]

\* *cur = NULL at each of them.
delete_old_client_randoms(ch, gone) ==
  [b \in Buckets |->
     LET hits == {i \in DOMAIN ch[b] : ch[b][i] \in gone}
     IN  IF hits = {} THEN ch[b] ELSE SubSeq(ch[b], 1, Min(hits) - 1)]

CacheClientHello(h, valid) ==
  /\ ~ have_client_random(h)
  /\ LET q == Added(h) IN
       /\ queue' = Trimmed(q)
       /\ chain' = delete_old_client_randoms(add_client_random(h), Deleted(q))
  /\ acc' = [acc EXCEPT ![h] = IF valid /\ is_allowed_timestamp(Stamp[h], queue')
                                 THEN @ + 1 ELSE @]
  /\ UNCHANGED <<now, boot, old>>

CacheTick == Tick /\ UNCHANGED chain

CacheRestart == Restart /\ chain' = [b \in Buckets |-> <<>>]

CacheNext ==
  \/ \E h \in Hellos, valid \in BOOLEAN : CacheClientHello(h, valid)
  \/ CacheTick
  \/ CacheRestart

cacheVars == <<vars, chain>>

CacheSpec == CacheInit /\ [][CacheNext]_cacheVars

-----------------------------------------------------------------------------
\* An entry a lookup finds: it is in the chain of its bucket.
Found(e, ch) == e \in Range(ch[BucketOf[e.rnd]])

\* The entries of the list that lookups find, in the order of the list.
FoundOf(q, ch) ==
  LET found == {i \in DOMAIN q : Found(q[i], ch)}
      place(i) == Cardinality({j \in found : j <= i})
  IN  [k \in 1 .. Cardinality(found) |-> q[CHOOSE i \in found : place(i) = k]]

\* What the policy remembers is what lookups of the hash table find.
Policy == INSTANCE ReplayPolicy WITH queue <- FoundOf(queue, chain)

\* The cache with hash chains implements the policy: no entry the policy still
\* needs is lost to lookups when delete_old_client_randoms cuts a chain.
ImplementsPolicy == Policy!Spec
=============================================================================
