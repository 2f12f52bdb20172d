----------------------------- MODULE EventQueue -----------------------------
(***************************************************************************)
(* The main loop's heap of events that are to be run (net-events.c).       *)
(*                                                                         *)
(* epoll_work runs the heap until it is empty and then fetches; a handler  *)
(* may fail sockets, its own or others, which takes their events out of    *)
(* the heap wherever they stand.  All events of a fetch have the same      *)
(* timestamp, so that the priority decides.                                *)
(***************************************************************************)
EXTENDS Integers, FiniteSets, SequencesExt

CONSTANTS
  Events,    \* descriptors
  priority,  \* descriptor -> its priority: listening sockets have -10, connections 0
  Reports    \* the orders in which epoll_wait may report ready descriptors

ASSUME QueueConstants ==
  /\ IsFiniteSet(Events) /\ priority \in [Events -> Int]
  /\ \A r \in Reports : r \in Seq(Events) /\ IsInjective(r)

VARIABLES
  ev_heap,     \* the heap, without its unused entry 0
  in_queue,    \* descriptor -> its index in the heap, 0 when it is not there
  fetched,     \* the descriptors reported by the last epoll_wait and not removed
  ran          \* those of them whose handler was called, in order

queueVars == <<ev_heap, in_queue, fetched, ran>>

QueueInit == ev_heap = <<>> /\ in_queue = [e \in Events |-> 0] /\ fetched = {} /\ ran = <<>>

greater_ev(a, b) == priority[a] > priority[b]

(* A heap under construction: the entries h and the indices q.             *)
Entry(s, i, e) == [h |-> [s.h EXCEPT ![i] = e], q |-> [s.q EXCEPT ![e] = i]]

(* The child of i that comes first, among n entries.                       *)
Child(s, i, n) ==
  LET j == 2 * i IN IF j < n /\ greater_ev(s.h[j], s.h[j + 1]) THEN j + 1 ELSE j

(* e goes up from the hole i.                                              *)
RECURSIVE Up(_, _, _)
Up(s, i, e) ==
  IF i > 1 /\ greater_ev(s.h[i \div 2], e)
  THEN Up(Entry(s, i, s.h[i \div 2]), i \div 2, e)
  ELSE Entry(s, i, e)

(* e goes down from the hole i, among n entries.                           *)
RECURSIVE Down(_, _, _, _)
Down(s, i, e, n) ==
  IF 2 * i <= n /\ greater_ev(e, s.h[Child(s, i, n)])
  THEN Down(Entry(s, i, s.h[Child(s, i, n)]), Child(s, i, n), e, n)
  ELSE Entry(s, i, e)

(* The hole i goes down to a leaf.                                         *)
RECURSIVE DownHole(_, _, _)
DownHole(s, i, n) ==
  IF 2 * i > n
  THEN [s |-> s, i |-> i]
  ELSE DownHole(Entry(s, i, s.h[Child(s, i, n)]), Child(s, i, n), n)

put_event_into_heap(s, e) ==
  Up([s EXCEPT !.h = Append(@, e)], Len(s.h) + 1, e)

Without(s, e) == [s EXCEPT !.q[e] = 0]

pop_heap_head(s) ==
  LET n == Len(s.h)
      x == s.h[n]
      t == [Without(s, s.h[1]) EXCEPT !.h = SubSeq(@, 1, n - 1)]
  IN IF n = 1 THEN t ELSE Down(t, 1, x, n - 1)

(* The last entry is put in the hole and not moved up.                     *)
RemoveNoUp(s, e) ==
  LET n == Len(s.h)
      d == DownHole(Without(s, e), s.q[e], n)
      cut == [d.s EXCEPT !.h = SubSeq(@, 1, n - 1)]
  IN IF s.q[e] = 0 THEN s ELSE IF d.i < n THEN Entry(cut, d.i, d.s.h[n]) ELSE cut

remove_event_from_heap(s, e) ==
  LET n == Len(s.h)
      d == DownHole(Without(s, e), s.q[e], n)
      cut == [d.s EXCEPT !.h = SubSeq(@, 1, n - 1)]
  IN IF s.q[e] = 0 THEN s ELSE IF d.i < n THEN Up(cut, d.i, d.s.h[n]) ELSE cut

Heap == [h |-> ev_heap, q |-> in_queue]
SetHeap(s) == ev_heap' = s.h /\ in_queue' = s.q

(* epoll_wait reports some descriptors.                                    *)
epoll_fetch_events ==
  /\ ev_heap = <<>>
  /\ \E order \in Reports :
       /\ SetHeap(FoldLeft(put_event_into_heap, Heap, order))
       /\ fetched' = Range(order) /\ ran' = <<>>

(* The first event is popped and its handler called, which takes the       *)
(* events of failing sockets out.                                          *)
epoll_runqueue ==
  /\ ev_heap # <<>>
  /\ \E order \in {<<>>} \cup {<<e>> : e \in Events} \cup {<<a, b>> : a, b \in Events} :
       /\ SetHeap(FoldLeft(remove_event_from_heap, pop_heap_head(Heap), order))
       /\ fetched' = fetched \ (Range(order) \ Range(ran \o <<ev_heap[1]>>))
       /\ ran' = Append(ran, ev_heap[1])

QueueNext == epoll_fetch_events \/ epoll_runqueue

(***************************************************************************)
(* Properties                                                              *)
(***************************************************************************)

(* The heap holds each event once, at the index the event records, and     *)
(* parents come before children.                                           *)
HeapRight ==
  /\ \A e \in Events : in_queue[e] # 0 => in_queue[e] \in DOMAIN ev_heap /\ ev_heap[in_queue[e]] = e
  /\ \A i \in DOMAIN ev_heap : in_queue[ev_heap[i]] = i /\ (i > 1 => ~greater_ev(ev_heap[i \div 2], ev_heap[i]))

(* Every fetched event is still to be run or has been run, once, whatever  *)
(* sockets failed meanwhile, and the handlers were called in the order of  *)
(* their priorities: listening sockets before connections.                 *)
EventsRun ==
  /\ HeapRight
  /\ fetched = Range(ran) \cup Range(ev_heap)
  /\ Len(ran) + Len(ev_heap) = Cardinality(fetched)
  /\ \A i, j \in DOMAIN ran : i < j => ~greater_ev(ran[i], ran[j])
=============================================================================
