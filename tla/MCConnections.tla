--------------------------- MODULE MCConnections ---------------------------
(* Connections and their descriptors: outbound connections counted by      *)
(* their targets, inbound ones by the listening sockets, the slots of      *)
(* Events[] that connections take and leave, the heap of events, and the   *)
(* trees of connections other threads search.  They share no state, so a   *)
(* behaviour moves one of the five.                                        *)
EXTENDS ConnTarget, ListenGate, FdEvents, EventQueue, SharedTree

VARIABLE part

vars == <<targetVars, gateVars, slotVars, queueVars, treeVars, part>>

MCLimits == {[min |-> 1, max |-> 1], [min |-> 1, max |-> 2]}

(* Listening sockets 1 to 4 and connections 5 to 7.  Descriptors of one    *)
(* priority are interchangeable: they are reported in increasing order.    *)
MCpriority == [e \in Events |-> IF e <= 4 THEN -10 ELSE 0]
Mixed(n, S) ==
  [i \in 1 .. n |-> IF i \in S THEN Cardinality(S \cap 1 .. i) ELSE 4 + Cardinality((1 .. i) \ S)]
MCReports ==
  UNION {{Mixed(n, S) : S \in {T \in SUBSET (1 .. n) : Cardinality(T) \in n - 3 .. 4}} : n \in 1 .. 7}

(* Priorities by which each of the three connections can become the root.  *)
MCDraws == <<{1}, {2}, {0}>>

Init ==
  /\ TargetInit /\ GateInit /\ FdInit /\ QueueInit /\ TreeInit
  /\ part \in {"targets", "gate", "slots", "queue", "tree"}

Targets(A) == part = "targets" /\ A /\ UNCHANGED <<gateVars, slotVars, queueVars, treeVars, part>>
Gate(A) == part = "gate" /\ A /\ UNCHANGED <<targetVars, slotVars, queueVars, treeVars, part>>
OnSlots(A) == part = "slots" /\ A /\ UNCHANGED <<targetVars, gateVars, queueVars, treeVars, part>>
OnQueue(A) == part = "queue" /\ A /\ UNCHANGED <<targetVars, gateVars, slotVars, treeVars, part>>
OnTree(A) == part = "tree" /\ A /\ UNCHANGED <<targetVars, gateVars, slotVars, queueVars, part>>

Next == Targets(TargetNext) \/ Gate(GateNext) \/ OnSlots(FdNext) \/ OnQueue(QueueNext) \/ OnTree(TreeNext)

(* The main loop runs pending signals and due timers again and again and   *)
(* finishes what it has begun; nothing is assumed of peers and clients.    *)
Spec ==
  /\ Init /\ [][Next]_vars
  /\ WF_vars(Targets(init_epoll))
  /\ \A j \in Jobs : WF_vars(Targets(do_conn_target_job(j))) /\ WF_vars(Targets(ReconnectDue(j)))
  /\ WF_vars(Gate(engine_resume_precise_cron)) /\ WF_vars(Gate(CompareLimit))
  /\ WF_vars(Gate(epoll_remove)) /\ WF_vars(Gate(do_precise_cron)) /\ WF_vars(Gate(RearmCron))

(* Every fetched event is run once and in order (epoll_runqueue), and the  *)
(* trees of connections stay whole under the threads that search them      *)
(* (get_tree_ptr, free_tree_ptr).                                          *)
EventsKept ==
  /\ part = "queue" => EventsRun
  /\ part = "tree" => TreeKept
=============================================================================
