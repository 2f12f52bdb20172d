------------------------------ MODULE MpQueue ------------------------------
(* The queue between threads of common/mp-queue.c: a list of rings, each   *)
(* with a head and a tail that are advanced by atomic additions, elements  *)
(* that are exchanged by double-word compare-and-swap, hazard pointers     *)
(* that keep a ring in memory, and a semaphore that counts the elements.   *)
(* One step is one access to shared memory.  The queues of garbage and of  *)
(* spare rings, instances of the same algorithm, are kept as sets.         *)
EXTENDS Integers, Sequences, FiniteSets

CONSTANTS
  Threads,
  Plans,           \* what the threads do: the items each pushes in order, how often each pops
                   \* afterwards, and with what: mpq_pop_w ("w"), mpq_pop_nw ("nw") or, in a queue
                   \* without semaphore, mpq_pop ("bare")
  Tries,           \* tries of the semaphore before giving up
  NRings,          \* rings that may be allocated
  SmallSize, BigSize, \* MPQ_SMALL_BLOCK_SIZE, MPQ_BLOCK_SIZE
  MaxIter          \* iterations of a push before it closes the ring

VARIABLES
  plan,            \* the plan that is followed
  ring,            \* the rings
  mq,              \* [head, tail] of the queue
  sem,             \* [value, waiting] and who sleeps
  spare, garbage,  \* MqPreparedBlocks, MqGarbageBlocks
  hp,              \* hazard pointer of each thread
  th,              \* the local state of each thread
  popped,          \* what has been popped: <<thread, value>>
  touched          \* a thread has used a ring after it was freed

mpqVars == <<plan, ring, mq, sem, spare, garbage, hp, th, popped, touched>>

None == 0
Rings == 1..NRings

FreshNodes(size, v) == [i \in 0..size - 1 |-> [idx |-> i, safe |-> TRUE, val |-> IF i = 0 THEN v ELSE None]]
Unused == [state |-> "none", head |-> 0, tail |-> 0, closed |-> FALSE, next |-> None, nodes |-> <<>>]
NewRing(size, v) ==
  [state |-> "used", head |-> 0, tail |-> IF v = None THEN 0 ELSE 1, closed |-> FALSE,
   next |-> None, nodes |-> FreshNodes(size, v)]
Size(r) == Cardinality(DOMAIN ring[r].nodes)
At(r, i) == ring[r].nodes[i % Size(r)]

Idle ==
  [pc |-> "idle", q |-> None, i |-> 0, val |-> None, idx |-> 0, safe |-> TRUE, it |-> 0,
   new |-> None, got |-> None, s |-> 0, again |-> FALSE, left |-> {}, pushed |-> 0, pops |-> 0]

MpqInit ==
  /\ plan \in Plans
  /\ ring = [r \in Rings |-> IF r = 1 THEN NewRing(SmallSize, None) ELSE Unused]
  /\ mq = [head |-> 1, tail |-> 1] /\ sem = [value |-> 0, waiting |-> 0, asleep |-> {}]
  /\ spare = {} /\ garbage = {} /\ hp = [t \in Threads |-> None]
  /\ th = [t \in Threads |-> Idle] /\ popped = <<>> /\ touched = FALSE

(* Local steps: thread t moves to pc, with further changes of its locals.  *)
Goto(t, pc) == th' = [th EXCEPT ![t].pc = pc]
At1(t, pc) == th[t].pc = pc
Touch(t) == touched' = (touched \/ ring[th[t].q].state = "free")
Item(t) == plan.items[t][th[t].pushed + 1]
Pushing(t) == th[t].pushed < Len(plan.items[t])
Popping(t) == ~Pushing(t) /\ th[t].pops < plan.pops[t]
Pushed(t) == [Idle EXCEPT !.pushed = th[t].pushed + 1]
Bare == plan.by = "bare"

-----------------------------------------------------------------------------
(* Both operations: publish the ring in the hazard pointer, then see       *)
(* whether it is still the end of the queue that it was read from.         *)

EndOf(t) == IF Pushing(t) THEN mq.tail ELSE mq.head

ReadEnd(t) ==
  /\ At1(t, "read") \/ (At1(t, "idle") /\ (Pushing(t) \/ (Bare /\ Popping(t))))
  /\ th' = [th EXCEPT ![t] = [Idle EXCEPT !.pc = "publish", !.q = EndOf(t), !.pushed = th[t].pushed, !.pops = th[t].pops]]
  /\ UNCHANGED <<ring, mq, sem, spare, garbage, hp, popped, touched>>

Publish(t) ==
  /\ At1(t, "publish") /\ hp' = [hp EXCEPT ![t] = th[t].q] /\ Goto(t, "verify")
  /\ UNCHANGED <<ring, mq, sem, spare, garbage, popped, touched>>

VerifyBlindly(t) ==
  /\ At1(t, "verify") /\ Goto(t, IF Pushing(t) THEN "next" ELSE "take")
  /\ UNCHANGED <<ring, mq, sem, spare, garbage, hp, popped, touched>>

Verify(t) ==
  /\ At1(t, "verify")
  /\ Goto(t, IF EndOf(t) # th[t].q THEN "read" ELSE IF Pushing(t) THEN "next" ELSE "take")
  /\ UNCHANGED <<ring, mq, sem, spare, garbage, hp, popped, touched>>

-----------------------------------------------------------------------------
(* mpq_push_w.                                                             *)

(* A ring that has a successor is no longer the tail.                      *)
HelpTail(t) ==
  /\ At1(t, "next") /\ Touch(t)
  /\ IF ring[th[t].q].next = None THEN Goto(t, "ticket") /\ UNCHANGED mq
     ELSE /\ mq' = IF mq.tail = th[t].q THEN [mq EXCEPT !.tail = ring[th[t].q].next] ELSE mq
          /\ Goto(t, "read")
  /\ UNCHANGED <<ring, sem, spare, garbage, hp, popped>>

PushTicket(t) ==
  /\ At1(t, "ticket") /\ Touch(t)
  /\ LET r == th[t].q IN
     /\ ring' = [ring EXCEPT ![r].tail = @ + 1]
     /\ th' = [th EXCEPT ![t].pc = IF ring[r].closed THEN "alloc" ELSE "val", ![t].i = ring[r].tail]
  /\ UNCHANGED <<mq, sem, spare, garbage, hp, popped>>

(* Both operations read a node's value, then its index.                    *)
ReadVal(t) ==
  /\ At1(t, "val") /\ Touch(t)
  /\ th' = [th EXCEPT ![t].pc = "idx", ![t].val = At(th[t].q, th[t].i).val]
  /\ UNCHANGED <<ring, mq, sem, spare, garbage, hp, popped>>

WithIdx(val, node, i) ==
  IF val # None \/ node.idx > i THEN "full" ELSE IF node.safe THEN "put" ELSE "room"

ReadIdx(t) ==
  /\ At1(t, "idx") /\ Touch(t)
  /\ th' = [th EXCEPT ![t].pc = IF Pushing(t) THEN WithIdx(th[t].val, At(th[t].q, th[t].i), th[t].i)
                                ELSE IF At(th[t].q, th[t].i).idx > th[t].i THEN "empty" ELSE "swap",
                      ![t].idx = At(th[t].q, th[t].i).idx, ![t].safe = At(th[t].q, th[t].i).safe]
  /\ UNCHANGED <<ring, mq, sem, spare, garbage, hp, popped>>

(* An unsafe node may only be used while the head has not passed it.       *)
SeeRoom(t) ==
  /\ At1(t, "room") /\ Touch(t) /\ Goto(t, IF ring[th[t].q].head <= th[t].i THEN "put" ELSE "full")
  /\ UNCHANGED <<ring, mq, sem, spare, garbage, hp, popped>>

(* Double-word compare-and-swap of the node as it was read.                *)
Cas(t, new, yes, no) ==
  LET r == th[t].q
      k == th[t].i % Size(r)
  IN  IF ring[r].nodes[k] = [idx |-> th[t].idx, safe |-> th[t].safe, val |-> th[t].val]
      THEN ring' = [ring EXCEPT ![r].nodes[k] = new] /\ yes
      ELSE UNCHANGED ring /\ no

PutValue(t) ==
  /\ At1(t, "put") /\ Touch(t)
  /\ Cas(t, [idx |-> th[t].i, safe |-> TRUE, val |-> Item(t)], Goto(t, "leave"), Goto(t, "full"))
  /\ UNCHANGED <<mq, sem, spare, garbage, hp, popped>>

SeeFull(t) ==
  /\ At1(t, "full") /\ Touch(t)
  /\ th' = [th EXCEPT ![t].it = @ + 1,
                      ![t].pc = IF \/ th[t].i - ring[th[t].q].head >= Size(th[t].q)
                                   \/ th[t].it >= MaxIter
                                THEN "close" ELSE "ticket"]
  /\ UNCHANGED <<ring, mq, sem, spare, garbage, hp, popped>>

CloseRing(t) ==
  /\ At1(t, "close") /\ Touch(t) /\ Goto(t, "alloc")
  /\ ring' = [ring EXCEPT ![th[t].q].closed = TRUE]
  /\ UNCHANGED <<mq, sem, spare, garbage, hp, popped>>

(* alloc_mpq_block: garbage nobody points to, a spare ring, a new one.     *)
Reclaimed(r, v) == NewRing(Size(r), v)
Respared(r, v) ==
  [NewRing(Size(r), v) EXCEPT !.nodes = [i \in DOMAIN ring[r].nodes |->
     IF i = 0 THEN [idx |-> 0, safe |-> TRUE, val |-> v] ELSE ring[r].nodes[i]]]

Alloc(t) ==
  /\ At1(t, "alloc") /\ Touch(t)
  /\ LET size == IF th[t].q = mq.head THEN SmallSize ELSE BigSize
         old == {r \in garbage : Size(r) = size /\ \A u \in Threads : hp[u] # r}
         kept == {r \in spare : Size(r) = size}
         new == {r \in Rings : ring[r].state = "none"}
         Use(r, block) == /\ ring' = [ring EXCEPT ![r] = block]
                          /\ th' = [th EXCEPT ![t].pc = "link", ![t].new = r]
     IN  IF old # {} THEN /\ \E r \in old : Use(r, Reclaimed(r, Item(t))) /\ garbage' = garbage \ {r}
                          /\ UNCHANGED spare
         ELSE IF kept # {} THEN /\ \E r \in kept : Use(r, Respared(r, Item(t))) /\ spare' = spare \ {r}
                                /\ UNCHANGED garbage
         ELSE /\ new # {} /\ \E r \in {CHOOSE r \in new : \A s \in new : r <= s} :
                               Use(r, NewRing(size, Item(t)))
              /\ UNCHANGED <<spare, garbage>>
  /\ UNCHANGED <<mq, sem, hp, popped>>

LinkRing(t) ==
  /\ At1(t, "link") /\ Touch(t)
  /\ LET r == th[t].q IN
     IF ring[r].next = None
     THEN ring' = [ring EXCEPT ![r].next = th[t].new] /\ Goto(t, "swing") /\ UNCHANGED spare
     ELSE /\ ring' = [ring EXCEPT ![th[t].new].state = "prepared"]
          /\ spare' = spare \cup {th[t].new} /\ Goto(t, "read")
  /\ UNCHANGED <<mq, sem, garbage, hp, popped>>

SwingTail(t) ==
  /\ At1(t, "swing") /\ Goto(t, "leave")
  /\ mq' = IF mq.tail = th[t].q THEN [mq EXCEPT !.tail = th[t].new] ELSE mq
  /\ UNCHANGED <<ring, sem, spare, garbage, hp, popped, touched>>

LeavePush(t) ==
  /\ At1(t, "leave") /\ hp' = [hp EXCEPT ![t] = None]
  /\ IF Bare THEN th' = [th EXCEPT ![t] = Pushed(t)] ELSE Goto(t, "post")
  /\ UNCHANGED <<ring, mq, sem, spare, garbage, popped, touched>>

SemPost(t) ==
  /\ At1(t, "post") /\ Goto(t, "wake") /\ sem' = [sem EXCEPT !.value = @ + 1]
  /\ UNCHANGED <<ring, mq, spare, garbage, hp, popped, touched>>

SemWake(t) ==
  /\ At1(t, "wake")
  /\ IF sem.waiting > 0 /\ sem.asleep # {}
     THEN \E u \in sem.asleep : sem' = [sem EXCEPT !.asleep = @ \ {u}]
     ELSE UNCHANGED sem
  /\ th' = [th EXCEPT ![t] = Pushed(t)]
  /\ UNCHANGED <<ring, mq, spare, garbage, hp, popped, touched>>

-----------------------------------------------------------------------------
(* mpq_pop_w and mpq_pop_nw: the semaphore first.                          *)

GiveUp(t, tried) ==
  IF tried < Tries THEN "semread" ELSE IF plan.by = "w" THEN "sleep" ELSE "none"

SemRead(t) ==
  /\ At1(t, "semread") \/ (At1(t, "idle") /\ ~Bare /\ Popping(t))
  /\ LET tried == IF At1(t, "idle") THEN 1 ELSE th[t].it + 1 IN
     th' = [th EXCEPT ![t].s = sem.value, ![t].it = tried,
                      ![t].pc = IF sem.value > 0 THEN "semtake" ELSE GiveUp(t, tried)]
  /\ UNCHANGED <<ring, mq, sem, spare, garbage, hp, popped, touched>>

SemTake(t) ==
  /\ At1(t, "semtake") /\ sem' = [sem EXCEPT !.value = @ - 1]
  /\ Goto(t, IF sem.value > 0 THEN "read" ELSE "semback")
  /\ UNCHANGED <<ring, mq, spare, garbage, hp, popped, touched>>

SemBack(t) ==
  /\ At1(t, "semback") /\ sem' = [sem EXCEPT !.value = @ + 1]
  /\ LET next == GiveUp(t, th[t].it) IN
     th' = [th EXCEPT ![t].s = sem.value + 1,
                      ![t].pc = IF next = "sleep" /\ sem.value + 1 > 0 THEN "semtake" ELSE next]
  /\ UNCHANGED <<ring, mq, spare, garbage, hp, popped, touched>>

(* mp_sem_wait: announce, then sleep unless the value has changed since.   *)
SemAnnounce(t) ==
  /\ At1(t, "sleep") /\ sem' = [sem EXCEPT !.waiting = @ + 1] /\ Goto(t, "futex")
  /\ UNCHANGED <<ring, mq, spare, garbage, hp, popped, touched>>

SemFutex(t) ==
  /\ At1(t, "futex") /\ Goto(t, "awake")
  /\ sem' = IF sem.value = th[t].s THEN [sem EXCEPT !.asleep = @ \cup {t}] ELSE sem
  /\ UNCHANGED <<ring, mq, spare, garbage, hp, popped, touched>>

SemAwake(t) ==
  /\ At1(t, "awake") /\ t \notin sem.asleep
  /\ sem' = [sem EXCEPT !.waiting = @ - 1] /\ Goto(t, "semread")
  /\ UNCHANGED <<ring, mq, spare, garbage, hp, popped, touched>>

(* mpq_block_pop.                                                          *)
PopTicket(t) ==
  /\ At1(t, "take") /\ Touch(t)
  /\ ring' = [ring EXCEPT ![th[t].q].head = @ + 1]
  /\ th' = [th EXCEPT ![t].pc = "val", ![t].i = ring[th[t].q].head]
  /\ UNCHANGED <<mq, sem, spare, garbage, hp, popped>>

(* Take the value; or make the node useless to a push that comes late.     *)
SwapOut(t) ==
  /\ At1(t, "swap") /\ Touch(t)
  /\ LET l == th[t]
         n == Size(l.q)
     IN  IF l.val # None /\ l.idx = l.i
         THEN Cas(t, [idx |-> l.i + n, safe |-> l.safe, val |-> None],
                  th' = [th EXCEPT ![t].pc = "done", ![t].got = l.val], Goto(t, "val"))
         ELSE IF l.val # None
         THEN Cas(t, [idx |-> l.idx, safe |-> FALSE, val |-> l.val], Goto(t, "empty"), Goto(t, "val"))
         ELSE Cas(t, [idx |-> l.i + n, safe |-> l.safe, val |-> None], Goto(t, "empty"), Goto(t, "val"))
  /\ UNCHANGED <<mq, sem, spare, garbage, hp, popped>>

SeeEmpty(t) ==
  /\ At1(t, "empty") /\ Touch(t)
  /\ Goto(t, IF ring[th[t].q].tail <= th[t].i + 1 THEN "fixtail" ELSE "take")
  /\ UNCHANGED <<ring, mq, sem, spare, garbage, hp, popped>>

(* mpq_fix_state: bring the tail up to a head that has overtaken it.       *)
FixTail(t) ==
  /\ At1(t, "fixtail") /\ Touch(t)
  /\ th' = [th EXCEPT ![t].pc = IF ring[th[t].q].closed THEN "noval" ELSE "fixhead",
                      ![t].s = ring[th[t].q].tail]
  /\ UNCHANGED <<ring, mq, sem, spare, garbage, hp, popped>>

FixHead(t) ==
  /\ At1(t, "fixhead") /\ Touch(t)
  /\ th' = [th EXCEPT ![t].pc = IF ring[th[t].q].head <= th[t].s THEN "noval" ELSE "fixswap",
                      ![t].idx = ring[th[t].q].head]
  /\ UNCHANGED <<ring, mq, sem, spare, garbage, hp, popped>>

FixSwap(t) ==
  /\ At1(t, "fixswap") /\ Touch(t)
  /\ IF ring[th[t].q].tail = th[t].s /\ ~ring[th[t].q].closed
     THEN ring' = [ring EXCEPT ![th[t].q].tail = th[t].idx] /\ Goto(t, "noval")
     ELSE UNCHANGED ring /\ Goto(t, "fixtail")
  /\ UNCHANGED <<mq, sem, spare, garbage, hp, popped>>

(* No value: try once more if there is a next ring, then go on to it.      *)
NoValue(t) ==
  /\ At1(t, "noval") /\ Touch(t)
  /\ th' = [th EXCEPT ![t].again = TRUE, ![t].got = None,
                      ![t].pc = IF th[t].again THEN "unlink"
                                ELSE IF ring[th[t].q].next = None THEN "done" ELSE "take"]
  /\ UNCHANGED <<ring, mq, sem, spare, garbage, hp, popped>>

Unlink(t) ==
  /\ At1(t, "unlink") /\ Touch(t)
  /\ IF mq.head = th[t].q
     THEN /\ mq' = [mq EXCEPT !.head = ring[th[t].q].next]
          /\ th' = [th EXCEPT ![t].pc = "scan", ![t].left = Threads \ {t}]
     ELSE UNCHANGED mq /\ Goto(t, "read")
  /\ UNCHANGED <<ring, sem, spare, garbage, hp, popped>>

(* is_hazard_ptr looks at the threads one by one.                          *)
Scan(t) ==
  /\ At1(t, "scan")
  /\ IF th[t].left = {}
     THEN /\ ring' = [ring EXCEPT ![th[t].q].state = "free"] /\ Goto(t, "read")
          /\ UNCHANGED garbage
     ELSE \E u \in th[t].left :
            IF hp[u] = th[t].q
            THEN /\ ring' = [ring EXCEPT ![th[t].q].state = "garbage"]
                 /\ garbage' = garbage \cup {th[t].q} /\ Goto(t, "read")
            ELSE /\ th' = [th EXCEPT ![t].left = @ \ {u}] /\ UNCHANGED <<ring, garbage>>
  /\ UNCHANGED <<mq, sem, spare, hp, popped, touched>>

Popped(t) == [Idle EXCEPT !.pushed = th[t].pushed, !.pops = th[t].pops + 1]

LeavePop(t) ==
  /\ At1(t, "done") /\ hp' = [hp EXCEPT ![t] = None]
  /\ popped' = IF th[t].got = None THEN popped ELSE Append(popped, <<t, th[t].got>>)
  /\ th' = [th EXCEPT ![t] = Popped(t)]
  /\ UNCHANGED <<ring, mq, sem, spare, garbage, touched>>

(* mpq_pop_nw without an element.                                          *)
LeaveEmpty(t) ==
  /\ At1(t, "none") /\ th' = [th EXCEPT ![t] = Popped(t)]
  /\ UNCHANGED <<ring, mq, sem, spare, garbage, hp, popped, touched>>

MpqStep(t) ==
  \/ ReadEnd(t) \/ Publish(t) \/ Verify(t)
  \/ HelpTail(t) \/ PushTicket(t) \/ ReadVal(t) \/ ReadIdx(t) \/ SeeRoom(t)
  \/ PutValue(t) \/ SeeFull(t) \/ CloseRing(t) \/ Alloc(t) \/ LinkRing(t) \/ SwingTail(t)
  \/ LeavePush(t) \/ SemPost(t) \/ SemWake(t)
  \/ SemRead(t) \/ SemTake(t) \/ SemBack(t) \/ SemAnnounce(t) \/ SemFutex(t)
  \/ SemAwake(t) \/ PopTicket(t) \/ SwapOut(t) \/ SeeEmpty(t) \/ FixTail(t) \/ FixHead(t)
  \/ FixSwap(t) \/ NoValue(t) \/ Unlink(t) \/ Scan(t) \/ LeavePop(t) \/ LeaveEmpty(t)

MpqNext == UNCHANGED plan /\ \E t \in Threads : MpqStep(t)

-----------------------------------------------------------------------------
Before(u, v, w) ==
  \E a, b \in DOMAIN plan.items[u] : a < b /\ plan.items[u][a] = v /\ plan.items[u][b] = w

Reached(r) == ring[r].state = "used" \/ \E t \in Threads : hp[t] = r
InQueue(v) == \E r \in Rings : Reached(r) /\ \E k \in DOMAIN ring[r].nodes : ring[r].nodes[k].val = v
Taken(v) == \/ \E j \in DOMAIN popped : popped[j][2] = v
            \/ \E t \in Threads : At1(t, "done") /\ th[t].got = v

(* Every value comes out at most once, and until then is in a ring of the  *)
(* queue or of a thread that is at it; a thread that has passed the        *)
(* semaphore never finds the queue empty (the assertion of mpq_pop_w); one *)
(* thread's values that another takes come out in the order they went in;  *)
(* a ring is never used after it was freed, although mpq_pop may move the  *)
(* head past the tail; and nobody sleeps on beside an element.             *)
EachOnce ==
  /\ \A t \in Threads : At1(t, "done") /\ ~Bare => th[t].got # None
  /\ \A t \in Threads : \A j \in 1..th[t].pushed : InQueue(plan.items[t][j]) \/ Taken(plan.items[t][j])
  /\ \A j, k \in DOMAIN popped : j < k =>
       /\ popped[j][2] # popped[k][2]
       /\ popped[j][1] = popped[k][1] => ~\E u \in Threads : Before(u, popped[k][2], popped[j][2])
  /\ ~touched
  /\ sem.asleep # {} /\ sem.value > 0 => \E t \in Threads \ sem.asleep : th[t].pc # "idle" \/ Pushing(t)
=============================================================================
