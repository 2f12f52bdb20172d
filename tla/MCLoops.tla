------------------------------ MODULE MCLoops ------------------------------
(* A relayed client connection, and a job like those of net-connections.c  *)
(* in a multithreaded engine: the threads n and o serve the connection     *)
(* class, the main thread m its own and the classes without threads.  A    *)
(* behaviour moves one of the two.                                         *)
EXTENDS RelayTimer, JobSignal, TLC

CONSTANTS m, n, o

(* Connections of which at most one feature uses the timer.                *)
Plain == Kind("middle", FALSE, FALSE)
Single == {Kind("direct", TRUE, FALSE), Kind("direct", FALSE, TRUE), Plain}

MCQueueOf == [main |-> "qmain", mult |-> "qmain", conn |-> "qconn"]
MCHome == [t \in Threads |-> IF t = m THEN "qmain" ELSE "qconn"]
MCSigClass == [RUN |-> "conn", ABORT |-> "main", FINISH |-> AnyClass]

VARIABLE part

vars == <<relayVars, jobVars, part>>

Init ==
  /\ RelayInit /\ JobInit
  /\ part = "relay" \/ (part = "job" /\ cfg = Plain)

Relays(A) == part = "relay" /\ A /\ UNCHANGED <<jobVars, part>>
Works(A) == part = "job" /\ A /\ UNCHANGED <<relayVars, part>>

Next == Relays(RelayNext) \/ Works(JobNext)

(* Jobs with a signal run, epoll reports and timers fire: the main loop    *)
(* turns to each of them again and again, between the steps of other jobs. *)
(* Threads keep running what they started and keep popping their queues.   *)
Spec ==
  /\ Init /\ [][Next]_vars
  /\ WF_vars(Relays(SocketRun)) /\ WF_vars(Relays(net_server_socket_reader))
  /\ SF_vars(Relays(EpollEvent)) /\ SF_vars(Relays(ConnectionRun)) /\ SF_vars(Relays(DrsAlarm))
  /\ \A t \in Threads : WF_vars(Works(Step(t))) /\ WF_vars(Works(PopJob(t)))
=============================================================================
