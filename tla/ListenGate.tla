----------------------------- MODULE ListenGate -----------------------------
(***************************************************************************)
(* The limit on client ("special") connections and the parking of the      *)
(* precise cron, both driven by active_special_connections                 *)
(* (net-connections.c, engine.c, mtproto-proxy.c).                         *)
(*                                                                         *)
(* The main thread accepts: a listener at the limit leaves epoll, and      *)
(* JS_AUX puts it back.  Connection threads close: the one that takes the  *)
(* counter down from the limit signals every listener.  The cron job, in   *)
(* a thread of its own, stops its timer when it sees no client and is      *)
(* signalled by the next accept.  An access to shared state is a step;     *)
(* with a single thread the steps of a handler follow each other.          *)
(***************************************************************************)
EXTENDS Integers, FiniteSets

CONSTANTS
  Listeners,                \* listening sockets with C_SPECIAL
  Closers,                  \* threads of the JC_CONNECTION class
  max_special_connections,
  MaxClients                \* bound: clients that connect at the same time

ASSUME GateConstants ==
  /\ IsFiniteSet(Listeners) /\ Listeners # {} /\ IsFiniteSet(Closers)
  /\ max_special_connections \in Nat \ {0} /\ MaxClients \in Nat

VARIABLES
  active,     \* active_special_connections
  listening,  \* the listeners with EVT_IN_EPOLL
  aux,        \* the listeners with JS_AUX pending
  main,       \* what the main thread is doing: its step and listener
  wake,       \* the listeners each closing thread has still to signal
  cron,       \* the precise cron job: signal, timer, running
  hup         \* SIGHUP is in pending_signals

gateVars == <<active, listening, aux, main, wake, cron, hup>>

GateInit ==
  /\ active = 0 /\ listening = Listeners /\ aux = {}
  /\ main = [pc |-> "loop", lc |-> CHOOSE l \in Listeners : TRUE]
  /\ wake = [k \in Closers |-> {}]
  /\ cron = [run |-> TRUE, timer |-> FALSE, busy |-> FALSE]
  /\ hup = FALSE

(***************************************************************************)
(* Main thread: net_accept_new_connections and alloc_new_connection        *)
(***************************************************************************)

(* accept() returns a client and it is counted.  The loop of               *)
(* net_accept_new_connections goes on while the listener is in epoll.      *)
accept(l) ==
  /\ main.pc = "loop" /\ l \in listening /\ active < MaxClients
  /\ active' = active + 1
  /\ main' = [pc |-> IF active = 0 THEN "resume" ELSE "compare", lc |-> l]
  /\ UNCHANGED <<listening, aux, wake, cron, hup>>

(* The first client wakes the precise cron.                                *)
engine_resume_precise_cron ==
  /\ main.pc = "resume"
  /\ cron' = [cron EXCEPT !.run = TRUE]
  /\ main' = [main EXCEPT !.pc = "compare"]
  /\ UNCHANGED <<active, listening, aux, wake, hup>>

(* The counter is read again and compared with the limit.                  *)
CompareLimit ==
  /\ main.pc = "compare"
  /\ main' = [main EXCEPT !.pc = IF active >= max_special_connections THEN "remove" ELSE "loop"]
  /\ UNCHANGED <<active, listening, aux, wake, cron, hup>>

epoll_remove ==
  /\ main.pc = "remove"
  /\ listening' = listening \ {main.lc}
  /\ main' = [main EXCEPT !.pc = "loop"]
  /\ UNCHANGED <<active, aux, wake, cron, hup>>

(* JS_AUX of a listener, in the main thread.                               *)
do_listening_connection_job(l) ==
  /\ main.pc = "loop" /\ l \in aux
  /\ aux' = aux \ {l} /\ listening' = listening \cup {l}
  /\ UNCHANGED <<active, main, wake, cron, hup>>

(***************************************************************************)
(* Connection threads: cpu_server_close_connection                         *)
(***************************************************************************)

CloseAboveLimit(k) ==
  /\ wake[k] = {} /\ active > 0
  /\ active' = active - 1
  /\ wake' = [wake EXCEPT ![k] = IF active > max_special_connections THEN Listeners ELSE {}]
  /\ UNCHANGED <<listening, aux, main, cron, hup>>

CloseSpecial(k) ==
  /\ wake[k] = {} /\ active > 0
  /\ active' = active - 1
  /\ wake' = [wake EXCEPT ![k] = IF active = max_special_connections THEN Listeners ELSE {}]
  /\ UNCHANGED <<listening, aux, main, cron, hup>>

SignalListener(k) ==
  \E l \in wake[k] :
    /\ wake' = [wake EXCEPT ![k] = @ \ {l}] /\ aux' = aux \cup {l}
    /\ UNCHANGED <<active, listening, main, cron, hup>>

(***************************************************************************)
(* The precise cron job                                                    *)
(***************************************************************************)

Sighup == ~ hup /\ hup' = TRUE /\ UNCHANGED <<active, listening, aux, main, wake, cron>>

(* do_precise_cron: pending signals, then cron and precise_cron.           *)
do_precise_cron ==
  /\ ~ cron.busy
  /\ \E op \in {"run", "timer"} : cron[op] /\ cron' = [cron EXCEPT ![op] = FALSE, !.busy = TRUE]
  /\ hup' = FALSE
  /\ UNCHANGED <<active, listening, aux, main, wake>>

ParkAlways ==
  /\ cron.busy
  /\ cron' = [cron EXCEPT !.busy = FALSE]
  /\ UNCHANGED <<active, listening, aux, main, wake, hup>>

(* mtfront_has_active_connections decides whether the timer is set again.  *)
RearmCron ==
  /\ cron.busy
  /\ cron' = [cron EXCEPT !.busy = FALSE, !.timer = @ \/ active > 0]
  /\ UNCHANGED <<active, listening, aux, main, wake, hup>>

GateNext ==
  \/ \E l \in Listeners : accept(l) \/ do_listening_connection_job(l)
  \/ engine_resume_precise_cron \/ CompareLimit \/ epoll_remove
  \/ \E k \in Closers : CloseSpecial(k) \/ SignalListener(k)
  \/ Sighup \/ do_precise_cron \/ RearmCron

GateSpec == GateInit /\ [][GateNext]_gateVars

-----------------------------------------------------------------------------
(* Types.  The counter of clients never goes below zero although closing   *)
(* threads take it down without a lock (cpu_server_close_connection).      *)
GateTypeOK ==
  /\ active \in 0..MaxClients
  /\ listening \subseteq Listeners /\ aux \subseteq Listeners
  /\ main \in [pc : {"loop", "resume", "compare", "remove"}, lc : Listeners]
  /\ wake \in [Closers -> SUBSET Listeners]
  /\ cron \in [run : BOOLEAN, timer : BOOLEAN, busy : BOOLEAN] /\ hup \in BOOLEAN

(* Below the limit no listener is out of epoll for good: it is in, or its  *)
(* JS_AUX is pending, or a closing thread is about to signal it.  This is  *)
(* what makes "removed at the limit, signalled by the close that leaves    *)
(* the limit" (net-connections.c:494, 720) enough although the two run in  *)
(* different threads.  The limit is exceeded ("forced to accept connection *)
(* when special connections limit was reached") by no more than one client *)
(* for every listener still in epoll, every JS_AUX pending and every one a *)
(* closing thread has still to send.  While there is a client the precise  *)
(* cron is coming: its park and the accept that resumes it cannot miss     *)
(* each other (precise_cron_job_run, engine_resume_precise_cron).          *)
GateKept ==
  /\ active < max_special_connections =>
       \A l \in Listeners : l \in listening \cup aux \cup UNION {wake[k] : k \in Closers}
  /\ active <= max_special_connections - 1 + Cardinality(Listeners) * (2 + Cardinality(Closers))
  /\ active > 0 => cron.run \/ cron.timer \/ cron.busy \/ main.pc = "resume"

(* A SIGHUP is handled, unless there is no client at some later time; with *)
(* no client it waits for the next one.                                    *)
SighupHandled == hup ~> (~ hup \/ active = 0)
=============================================================================
