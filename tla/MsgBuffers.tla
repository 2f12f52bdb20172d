----------------------------- MODULE MsgBuffers ----------------------------
(* The allocator of message buffers (net-msg-buffers.c): chunks of buffers *)
(* of one size, each with a lock that is only ever tried, a tree of free   *)
(* counts, and a queue for buffers freed while another thread has the      *)
(* lock.  Every access to what threads share is a step; chunks are never   *)
(* given back.                                                             *)
EXTENDS Integers, Sequences, FiniteSets, SequencesExt

CONSTANTS
  BufThreads,        \* threads
  ChunkBuffers,      \* buffers in a chunk
  TwoPower,          \* the power of two above it
  MaxChunks,         \* max_buffer_chunks
  BufOps,            \* allocations and frees of each thread
  WordSize           \* 2^(bits of an unsigned)

VARIABLES
  chunks,            \* the chunks in the order of the list
  headLocked,        \* the lock of the list's head
  ChunkSave,         \* the chunk each thread used last; 0 if none
  held,              \* the buffers each thread has in use
  bt                 \* the threads
bufVars == <<chunks, headLocked, ChunkSave, held, bt>>

Buffers == 0..ChunkBuffers - 1
NoBuffer == <<0, 0>>
AllocIdle == [pc |-> "idle", c |-> 0, from |-> 0, b |-> NoBuffer, near |-> NoBuffer,
            ok |-> "idle", fail |-> "idle", done |-> "idle", ops |-> 0]

-----------------------------------------------------------------------------
(* The tree: node i has the free buffers below it, leaf TwoPower + x is    *)
(* buffer x.                                                               *)
Ancestors(i) == {i \div 2^k : k \in 0..10} \ {0}
Less(cnt, nodes) == [i \in DOMAIN cnt |-> IF i \in nodes THEN cnt[i] - 1 ELSE cnt[i]]
More(cnt, nodes) == [i \in DOMAIN cnt |-> IF i \in nodes THEN cnt[i] + 1 ELSE cnt[i]]

NewTree ==
  LET tree[i \in 1..2 * TwoPower - 1] ==
        IF i >= TwoPower THEN (IF i - TwoPower \in Buffers THEN 1 ELSE 0) ELSE tree[2 * i] + tree[2 * i + 1]
  IN  tree

(* free_std_msg_buffer *)
Freed(cnt, x) == More(cnt, Ancestors(TwoPower + x))

(* The leftmost free leaf below a node; the leaf with j free ones before it. *)
Leftmost(cnt, node) ==
  LET down[i \in 1..2 * TwoPower - 1] ==
        IF i >= TwoPower THEN i ELSE down[IF cnt[2 * i] > 0 THEN 2 * i ELSE 2 * i + 1]
  IN  down[node]
Skipping(cnt, skip) ==
  LET down[i \in 1..2 * TwoPower - 1, j \in 0..TwoPower] ==
        IF i >= TwoPower THEN i
        ELSE IF cnt[2 * i] <= j THEN down[2 * i + 1, j - cnt[2 * i]] ELSE down[2 * i, j]
  IN  down[1, skip]

(* alloc_msg_buffer_internal beside a neighbour x: the next buffer if it   *)
(* is free, else down the tree towards x, to the right where the left has  *)
(* none; from the last right branch passed by when there is none either.   *)
Beside(cnt, x) ==
  LET down[i \in 1..2 * TwoPower - 1, j \in 1..2 * TwoPower - 1, l \in 0..TwoPower, r \in 0..TwoPower] ==
        LET m == (l + r) \div 2
        IN  IF i >= TwoPower THEN i
            ELSE IF x < m /\ cnt[2 * i] > 0 THEN down[2 * i, IF cnt[2 * i + 1] > 0 THEN 2 * i + 1 ELSE j, l, m]
            ELSE IF x < m THEN down[2 * i + 1, j, m, r]
            ELSE IF cnt[2 * i + 1] > 0 THEN down[2 * i + 1, j, m, r]
            ELSE Leftmost(cnt, j)
  IN  IF x < TwoPower - 1 /\ cnt[TwoPower + x + 1] > 0 THEN TwoPower + x + 1 ELSE down[1, 1, 0, TwoPower]

Min16(n) == IF n < 16 THEN n ELSE 16
PickLeaves(t) ==
  LET c == bt[t].c
      cnt == chunks[c].free_cnt
  IN  IF bt[t].near[1] = c /\ c > 0 THEN {Beside(cnt, bt[t].near[2])}
      ELSE {Skipping(cnt, j) : j \in 0..Min16(cnt[1]) - 1}

-----------------------------------------------------------------------------
Goes(t, pc) == bt' = [bt EXCEPT ![t] = IF pc = "idle" THEN [AllocIdle EXCEPT !.ops = bt[t].ops] ELSE [@ EXCEPT !.pc = pc]]
Cnt(c) == chunks[c].free_cnt[1]

BufInit ==
  /\ chunks = <<>> /\ headLocked = FALSE
  /\ ChunkSave = [t \in BufThreads |-> 0]
  /\ held = [t \in BufThreads |-> {}]
  /\ bt = [t \in BufThreads |-> AllocIdle]

(* alloc_msg_buffer, with a neighbour or without; a thread without a chunk *)
(* of its own makes a new one.                                             *)
StartAlloc(t) ==
  /\ bt[t].pc = "idle" /\ bt[t].ops < BufOps
  /\ \E near \in held[t] \cup {NoBuffer} :
       bt' = [bt EXCEPT ![t] = [AllocIdle EXCEPT !.pc = IF ChunkSave[t] = 0 THEN "new" ELSE "hint", !.near = near,
                                               !.c = ChunkSave[t], !.from = ChunkSave[t], !.ops = bt[t].ops + 1]]
  /\ UNCHANGED <<chunks, headLocked, ChunkSave, held>>

Hint(t) ==
  /\ bt[t].pc = "hint"
  /\ bt' = [bt EXCEPT ![t].pc = IF Cnt(bt[t].c) > 0 THEN "try" ELSE "scan", ![t].ok = "hinted", ![t].fail = "scan"]
  /\ UNCHANGED <<chunks, headLocked, ChunkSave, held>>

(* try_lock_chunk: the swap, then the queue is emptied. *)
TryLockChunk(t) ==
  /\ bt[t].pc = "try"
  /\ IF chunks[bt[t].c].locked
     THEN Goes(t, bt[t].fail) /\ UNCHANGED chunks
     ELSE Goes(t, "drain") /\ chunks' = [chunks EXCEPT ![bt[t].c].locked = TRUE]
  /\ UNCHANGED <<headLocked, ChunkSave, held>>
PopOne(t) ==
  LET c == bt[t].c
  IN  chunks' = [chunks EXCEPT ![c].free_cnt = Freed(@, Head(chunks[c].queue)), ![c].queue = Tail(@), ![c].posted = @ - 1]
Drain(t) ==
  /\ bt[t].pc = "drain"
  /\ IF chunks[bt[t].c].posted > 0 THEN PopOne(t) /\ UNCHANGED bt ELSE Goes(t, bt[t].ok) /\ UNCHANGED chunks
  /\ UNCHANGED <<headLocked, ChunkSave, held>>

(* unlock_chunk: the queue is emptied, the lock released, and taken again  *)
(* if something came in meanwhile.                                         *)
Unlocking(t) ==
  /\ bt[t].pc = "unlock"
  /\ IF chunks[bt[t].c].posted > 0 THEN PopOne(t) /\ UNCHANGED bt ELSE Goes(t, "release") /\ UNCHANGED chunks
  /\ UNCHANGED <<headLocked, ChunkSave, held>>
ReleaseChunk(t) ==
  /\ bt[t].pc = "release"
  /\ chunks' = [chunks EXCEPT ![bt[t].c].locked = FALSE]
  /\ Goes(t, "check")
  /\ UNCHANGED <<headLocked, ChunkSave, held>>
CheckNothing(t) ==
  /\ bt[t].pc = "check"
  /\ Goes(t, bt[t].done)
  /\ UNCHANGED <<chunks, headLocked, ChunkSave, held>>
CheckQueue(t) ==
  /\ bt[t].pc = "check"
  /\ IF chunks[bt[t].c].queue = <<>> THEN Goes(t, bt[t].done)
     ELSE bt' = [bt EXCEPT ![t].pc = "try", ![t].ok = "unlock", ![t].fail = bt[t].done]
  /\ UNCHANGED <<chunks, headLocked, ChunkSave, held>>

Hinted(t) ==
  /\ bt[t].pc = "hinted"
  /\ bt' = [bt EXCEPT ![t].pc = IF Cnt(bt[t].c) > 0 THEN "pick" ELSE "unlock", ![t].done = "scan"]
  /\ UNCHANGED <<chunks, headLocked, ChunkSave, held>>

(* The search for another chunk under the lock of the head, from the       *)
(* newest to the oldest and round again to where it began.                 *)
ScanList(t) ==
  /\ bt[t].pc = "scan" /\ ~headLocked
  /\ headLocked' = TRUE
  /\ Goes(t, "look")
  /\ UNCHANGED <<chunks, ChunkSave, held>>
Look(t) ==
  /\ bt[t].pc = "look"
  /\ \E free \in IF chunks[bt[t].c].made THEN {Cnt(bt[t].c) > 0} ELSE BOOLEAN :
       bt' = [bt EXCEPT ![t].pc = IF free THEN "try" ELSE "advance", ![t].ok = "found", ![t].fail = "advance"]
  /\ UNCHANGED <<chunks, headLocked, ChunkSave, held>>
Advance(t) ==
  LET next == IF bt[t].c = 1 THEN Len(chunks) ELSE bt[t].c - 1
  IN  /\ bt[t].pc = "advance"
      /\ bt' = [bt EXCEPT ![t].c = next, ![t].pc = IF next = bt[t].from THEN "new" ELSE "look"]
      /\ headLocked' = (next # bt[t].from)
      /\ UNCHANGED <<chunks, ChunkSave, held>>
Found(t) ==
  /\ bt[t].pc = "found"
  /\ bt' = [bt EXCEPT ![t].pc = IF Cnt(bt[t].c) > 0 THEN "pick" ELSE "unlock", ![t].done = "advance"]
  /\ headLocked' = (Cnt(bt[t].c) = 0)
  /\ UNCHANGED <<chunks, ChunkSave, held>>

(* alloc_new_msg_buffers_chunk: the limit is looked at first; the chunk is *)
(* put in the list with whatever malloc left in its tree, locked until its *)
(* first buffer is picked, then counted and its tree made.                 *)
Room(t) ==
  /\ bt[t].pc = "new"
  /\ Goes(t, IF Cardinality({c \in DOMAIN chunks : chunks[c].made}) >= MaxChunks THEN "idle" ELSE "link")
  /\ UNCHANGED <<chunks, headLocked, ChunkSave, held>>
Link(t) ==
  /\ bt[t].pc = "link" /\ ~headLocked
  /\ chunks' = Append(chunks, [locked |-> TRUE, free_cnt |-> NewTree, queue |-> <<>>, posted |-> 0, made |-> FALSE])
  /\ bt' = [bt EXCEPT ![t].pc = "make", ![t].c = Len(chunks) + 1]
  /\ UNCHANGED <<headLocked, ChunkSave, held>>
MakeTree(t) ==
  /\ bt[t].pc = "make"
  /\ chunks' = [chunks EXCEPT ![bt[t].c].made = TRUE]
  /\ Goes(t, "pick")
  /\ UNCHANGED <<headLocked, ChunkSave, held>>

(* A free buffer of the locked chunk. *)
Pick(t) ==
  /\ bt[t].pc = "pick"
  /\ \E leaf \in PickLeaves(t) :
       /\ chunks' = [chunks EXCEPT ![bt[t].c].free_cnt = Less(@, Ancestors(leaf))]
       /\ held' = [held EXCEPT ![t] = @ \cup {<<bt[t].c, leaf - TwoPower>>}]
  /\ ChunkSave' = [ChunkSave EXCEPT ![t] = bt[t].c]
  /\ bt' = [bt EXCEPT ![t].pc = "unlock", ![t].done = "idle"]
  /\ UNCHANGED headLocked

(* free_msg_buffer, by any thread: under the lock, or through the queue. *)
StartFree(t) ==
  /\ bt[t].pc = "idle" /\ bt[t].ops < BufOps
  /\ \E s \in BufThreads : \E b \in held[s] :
       /\ held' = [held EXCEPT ![s] = @ \ {b}]
       /\ bt' = [bt EXCEPT ![t] = [AllocIdle EXCEPT !.pc = "try", !.b = b, !.c = b[1], !.ok = "freeone", !.fail = "push",
                                                  !.ops = bt[t].ops + 1]]
  /\ UNCHANGED <<chunks, headLocked, ChunkSave>>
FreeOne(t) ==
  /\ bt[t].pc = "freeone"
  /\ chunks' = [chunks EXCEPT ![bt[t].c].free_cnt = Freed(@, bt[t].b[2])]
  /\ bt' = [bt EXCEPT ![t].pc = "unlock", ![t].done = "idle", ![t].b = NoBuffer]
  /\ UNCHANGED <<headLocked, ChunkSave, held>>
PushFree(t) ==
  /\ bt[t].pc = "push"
  /\ chunks' = [chunks EXCEPT ![bt[t].c].queue = Append(@, bt[t].b[2])]
  /\ bt' = [bt EXCEPT ![t].pc = "post", ![t].b = NoBuffer]
  /\ UNCHANGED <<headLocked, ChunkSave, held>>
PostFree(t) ==
  /\ bt[t].pc = "post"
  /\ chunks' = [chunks EXCEPT ![bt[t].c].posted = @ + 1]
  /\ bt' = [bt EXCEPT ![t].pc = "try", ![t].ok = "unlock", ![t].fail = "idle", ![t].done = "idle"]
  /\ UNCHANGED <<headLocked, ChunkSave, held>>

BufNext ==
  \E t \in BufThreads :
    StartAlloc(t) \/ Hint(t) \/ TryLockChunk(t) \/ Drain(t) \/ Unlocking(t) \/ ReleaseChunk(t) \/ CheckQueue(t) \/ Hinted(t)
    \/ ScanList(t) \/ Look(t) \/ Advance(t) \/ Found(t) \/ Room(t) \/ Link(t) \/ MakeTree(t) \/ Pick(t)
    \/ StartFree(t) \/ FreeOne(t) \/ PushFree(t) \/ PostFree(t)

-----------------------------------------------------------------------------
(* prepare_bs_inv and get_buffer_no: the number of a buffer from its       *)
(* offset, by the inverse of the odd part of its size.                     *)
Shift(size) == CHOOSE k \in 0..20 : size % 2^k = 0 /\ (size \div 2^k) % 2 = 1
Inverse2(odd) ==
  LET go[n \in 0..40] ==
        IF n = 0 THEN [x |-> (1 - odd) % WordSize, y |-> 1]
        ELSE LET p == go[n - 1] IN [x |-> (p.x * p.x) % WordSize, y |-> (p.y * (1 + p.x)) % WordSize]
  IN  go[CHOOSE n \in 0..40 : go[n].x = 0 /\ \A m \in 0..n - 1 : go[m].x # 0].y
get_buffer_no(size, offset) ==
  ((offset \div 2^Shift(size)) * Inverse2(size \div 2^Shift(size))) % WordSize
Numbered == \A size \in 1..WordSize \div 3, i \in 0..2 : get_buffer_no(size, size * i) = i

(* A buffer is in one place: free in the tree of its chunk, in the queue   *)
(* of its chunk, in use by one thread, or being freed by one.  The tree's  *)
(* counts add up.  When no thread is in the allocator, every lock is free  *)
(* and every queue empty, so that no freed buffer is left behind; the      *)
(* limit on chunks is passed by less than one chunk a thread.              *)
BuffersKept ==
  /\ \A c \in 1..Len(chunks) : LET k == chunks[c] IN
       /\ \A i \in 1..TwoPower - 1 : k.free_cnt[i] = k.free_cnt[2 * i] + k.free_cnt[2 * i + 1]
       /\ \A x \in 0..TwoPower - 1 : k.free_cnt[TwoPower + x] \in 0..1
       /\ \A x \in Buffers :
            k.free_cnt[TwoPower + x] + Cardinality({t \in BufThreads : <<c, x>> \in held[t]})
            + Cardinality({t \in BufThreads : bt[t].b = <<c, x>>}) + Cardinality({i \in DOMAIN k.queue : k.queue[i] = x}) = 1
       /\ (\A t \in BufThreads : bt[t].pc = "idle") => ~k.locked /\ k.queue = <<>>
  /\ (\A t \in BufThreads : bt[t].pc = "idle") => ~headLocked
  /\ Len(chunks) <= MaxChunks + Cardinality(BufThreads) - 1
  /\ Numbered
=============================================================================
