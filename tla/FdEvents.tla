------------------------------ MODULE FdEvents ------------------------------
(***************************************************************************)
(* The slot of a file descriptor in Events[] and who may use it            *)
(* (net-events.c, net-connections.c).                                      *)
(*                                                                         *)
(* The main thread owns a slot: it sets the handler of a new socket,       *)
(* fetches and runs its events and empties the slot when the socket fails. *)
(* Other threads look a connection up by its descriptor at any time, under *)
(* a reference count of two halves: the low one counts references, the     *)
(* high one threads that are about to take one.  Once the last reference   *)
(* of a socket and of its connection is gone the descriptor is closed and  *)
(* the kernel may give it to the next connection.  An access to the slot   *)
(* is a step.                                                              *)
(***************************************************************************)
EXTENDS Integers, FiniteSets

CONSTANTS
  Fds,      \* descriptors
  Socks,    \* bound: the connections of a behaviour, by generation
  Getters,  \* threads that look connections up
  Sweeper,  \* the one of them that is the main thread
  NoSock

ASSUME SlotConstants ==
  /\ Fds # {} /\ IsFiniteSet(Getters)
  /\ Sweeper \in Getters /\ NoSock \notin Socks

VARIABLES
  slot,   \* fd -> its event_t
  sock,   \* socket connection and its connection
  disp,   \* what the main thread is doing with the slots: step, fd, socket
  get,    \* getter -> its step in connection_get_by_fd, fd, generation, job
  opened  \* fd -> the connection that has it open

slotVars == <<slot, sock, disp, get, opened>>

(* refcnt is low + 2^32 * high.  "queued" is in_queue, "armed"             *)
(* EVT_IN_EPOLL, "ready" the flags epoll_wait left; "of" remembers the     *)
(* socket they were reported for.                                          *)
EmptySlot ==
  [low |-> 0, high |-> 0, data |-> NoSock, queued |-> FALSE, armed |-> FALSE, ready |-> FALSE, of |-> NoSock]

(* "refs" counts the references to the socket job, "conn" those to its     *)
(* connection; "error" is the socket's C_ERROR, "failed" and "closed" are  *)
(* C_ERROR and C_FAILED of the connection, "abort" a pending JS_ABORT.     *)
NewSock ==
  [st |-> "new", fd |-> 0, refs |-> 0, conn |-> 0,
   error |-> FALSE, failed |-> FALSE, closed |-> FALSE, abort |-> FALSE]

Rest == [pc |-> "loop", fd |-> CHOOSE f \in Fds : TRUE, s |-> NoSock]
NoGet == [pc |-> "out", fd |-> CHOOSE f \in Fds : TRUE, want |-> NoSock, got |-> NoSock]

FdInit ==
  /\ slot = [f \in Fds |-> EmptySlot] /\ sock = [s \in Socks |-> NewSock]
  /\ disp = Rest /\ get = [g \in Getters |-> NoGet]
  /\ opened = [f \in Fds |-> NoSock]

(* An assertion of the code failed, or NULL was followed: the process is   *)
(* gone.                                                                   *)
Stopped == disp.pc = "stop" \/ \E g \in Getters : get[g].pc = "stop"

(* The main thread is in its loop and may turn to anything.                *)
MainFree == disp.pc = "loop" /\ get[Sweeper].pc = "out" /\ ~Stopped

(***************************************************************************)
(* Reference counts of the jobs                                            *)
(***************************************************************************)

(* net_server_socket_free fails the connection and drops the socket's      *)
(* reference to it.                                                        *)
DropSock(t, s) ==
  IF t[s].refs > 1
  THEN [t EXCEPT ![s].refs = @ - 1]
  ELSE [t EXCEPT ![s] = [t[s] EXCEPT !.refs = 0, !.st = "freed", !.conn = @ - 1, !.failed = TRUE]]

(* job_signal with a reference of its own: a socket that has completed, or *)
(* has the signal already, drops the reference.                            *)
SignalAbort(t, s) ==
  IF t[s].error \/ t[s].abort THEN t ELSE [t EXCEPT ![s] = [t[s] EXCEPT !.abort = TRUE, !.refs = @ + 1]]

(* job_signal with JOB_REF_PASS: the sender's reference is the signal's.   *)
PassAbort(t, s) ==
  IF t[s].error \/ t[s].abort THEN DropSock(t, s) ELSE [t EXCEPT ![s].abort = TRUE]

(***************************************************************************)
(* Main thread: a new connection                                           *)
(***************************************************************************)

(* accept() or connect() returned a free descriptor.  The job has two      *)
(* references, the slot's and io_conn; the connection has the socket's.    *)
alloc_new_socket_connection(s, f) ==
  /\ MainFree /\ sock[s].st = "new" /\ opened[f] = NoSock
  /\ opened' = [opened EXCEPT ![f] = s]
  /\ sock' = [sock EXCEPT ![s] = [@ EXCEPT !.st = "open", !.fd = f, !.refs = 2, !.conn = 1]]
  /\ disp' = [pc |-> "data", fd |-> f, s |-> s]
  /\ UNCHANGED <<slot, get>>

Asserted(step, held, next) ==
  /\ disp.pc = step /\ ~Stopped
  /\ disp' = [disp EXCEPT !.pc = IF held THEN next ELSE "stop"]
  /\ UNCHANGED <<slot, sock, get, opened>>

Unreferenced(f) == slot[f].low = 0 /\ slot[f].high = 0

AssertNoData == Asserted("data", slot[disp.fd].data = NoSock, "refs")
AssertNoRefs == Asserted("refs", Unreferenced(disp.fd), "handler")
AssertUnset == Asserted("handler", Unreferenced(disp.fd), "count")

epoll_sethandler ==
  /\ disp.pc = "count" /\ ~Stopped
  /\ slot' = [slot EXCEPT ![disp.fd].low = @ + 1]
  /\ disp' = [disp EXCEPT !.pc = "set"]
  /\ UNCHANGED <<sock, get, opened>>

(* The handler's data, then epoll_insert.                                  *)
SetData ==
  /\ disp.pc = "set" /\ ~Stopped
  /\ slot' = [slot EXCEPT ![disp.fd] = [@ EXCEPT !.data = disp.s, !.ready = FALSE, !.armed = TRUE]]
  /\ disp' = Rest
  /\ UNCHANGED <<sock, get, opened>>

(***************************************************************************)
(* Main thread: events                                                     *)
(***************************************************************************)

(* epoll_fetch_events: epoll_wait reports the descriptor.                  *)
FetchEvent(f) ==
  /\ MainFree /\ slot[f].armed /\ ~slot[f].queued /\ opened[f] # NoSock
  /\ slot' = [slot EXCEPT ![f] = [@ EXCEPT !.queued = TRUE, !.ready = TRUE, !.of = opened[f]]]
  /\ UNCHANGED <<sock, disp, get, opened>>

(* epoll_runqueue calls net_server_socket_read_write_gateway.  A           *)
(* disconnected socket is aborted and leaves epoll; else JS_RUN is sent    *)
(* and the loop goes on.  That the slot has data and a reference, which    *)
(* the gateway checks first, is the invariant EventsCurrent.               *)
RunEvent(f) ==
  /\ MainFree /\ slot[f].queued /\ slot[f].data # NoSock /\ slot[f].low # 0
  /\ \/ /\ slot' = [slot EXCEPT ![f] = [@ EXCEPT !.queued = FALSE, !.armed = FALSE]]
        /\ sock' = SignalAbort(sock, slot[f].data)
     \/ /\ slot' = [slot EXCEPT ![f] = [@ EXCEPT !.queued = FALSE, !.ready = FALSE]]
        /\ UNCHANGED sock
  /\ UNCHANGED <<disp, get, opened>>

(* JS_AUX: the events the socket waits for have changed.                   *)
SocketAux(s) ==
  /\ MainFree /\ sock[s].st = "open" /\ ~sock[s].error
  /\ slot' = [slot EXCEPT ![sock[s].fd] = [@ EXCEPT !.ready = FALSE, !.armed = TRUE]]
  /\ UNCHANGED <<sock, disp, get, opened>>

(***************************************************************************)
(* Main thread: JS_ABORT runs fail_socket_connection                       *)
(***************************************************************************)

(* Without remove_event_from_heap.                                         *)
FailKeepsEvent(s) ==
  /\ MainFree /\ sock[s].abort
  /\ sock' = [sock EXCEPT ![s] = [@ EXCEPT !.abort = FALSE, !.error = TRUE]]
  /\ disp' = [pc |-> "drop", fd |-> sock[s].fd, s |-> s]
  /\ UNCHANGED <<slot, get, opened>>

fail_socket_connection(s) ==
  /\ MainFree /\ sock[s].abort
  /\ sock' = [sock EXCEPT ![s] = [@ EXCEPT !.abort = FALSE, !.error = TRUE]]
  /\ slot' = [slot EXCEPT ![sock[s].fd].queued = FALSE]
  /\ disp' = [pc |-> "drop", fd |-> sock[s].fd, s |-> s]
  /\ UNCHANGED <<get, opened>>

(* The count after -1, and whether the caller has to clear the data.       *)
MustClear(f) == slot[f].low = 1 /\ slot[f].high = 0 /\ slot[f].data # NoSock

connection_event_incref ==
  /\ disp.pc = "drop" /\ ~Stopped
  /\ slot' = [slot EXCEPT ![disp.fd].low = @ - 1]
  /\ disp' = [disp EXCEPT !.pc = IF MustClear(disp.fd) THEN "clear" ELSE "leave"]
  /\ UNCHANGED <<sock, get, opened>>

ClearData ==
  /\ disp.pc = "clear" /\ ~Stopped
  /\ slot' = [slot EXCEPT ![disp.fd].data = NoSock]
  /\ sock' = DropSock(sock, slot[disp.fd].data)
  /\ disp' = [disp EXCEPT !.pc = "leave"]
  /\ UNCHANGED <<get, opened>>

(* epoll_insert with no flags removes the descriptor, the connection       *)
(* fails, and the reference the signal came with is dropped.               *)
LeaveEpoll ==
  /\ disp.pc = "leave" /\ ~Stopped
  /\ slot' = [slot EXCEPT ![disp.fd].armed = FALSE]
  /\ sock' = DropSock([sock EXCEPT ![disp.s].failed = TRUE], disp.s)
  /\ disp' = Rest
  /\ UNCHANGED <<get, opened>>

(***************************************************************************)
(* Connection threads                                                      *)
(***************************************************************************)

(* fail_connection, from any thread, once the new connection's job has     *)
(* been unlocked.                                                          *)
FailConnection(s) ==
  /\ ~Stopped /\ sock[s].st = "open" /\ ~sock[s].failed
  /\ disp.s # s \/ disp.pc \notin {"data", "refs", "handler", "count", "set"}
  /\ sock' = [sock EXCEPT ![s].failed = TRUE]
  /\ UNCHANGED <<slot, disp, get, opened>>

(* JS_ABORT of the connection, cpu_server_close_connection: io_conn goes   *)
(* with the signal.                                                        *)
CloseConnection(s) ==
  /\ ~Stopped /\ sock[s].failed /\ ~sock[s].closed
  /\ sock' = PassAbort([sock EXCEPT ![s].closed = TRUE], s)
  /\ UNCHANGED <<slot, disp, get, opened>>

(* JS_FINISH of the connection, cpu_server_free_connection, closes the     *)
(* descriptor, which also leaves the kernel's epoll set.                   *)
FreeConnection(s) ==
  /\ ~Stopped /\ sock[s].st = "freed" /\ sock[s].closed /\ sock[s].conn = 0
  /\ sock' = [sock EXCEPT ![s].st = "gone"]
  /\ opened' = [opened EXCEPT ![sock[s].fd] = NoSock]
  /\ UNCHANGED <<slot, disp, get>>

(***************************************************************************)
(* connection_get_by_fd and connection_get_by_fd_generation                *)
(***************************************************************************)

At(g, pc) == get[g].pc = pc /\ ~Stopped
Go(g, pc) == get' = [get EXCEPT ![g].pc = pc]

(* A getter that knows the generation has it from a connection on that     *)
(* descriptor; the sweep over all descriptors wants any.                   *)
LookUp(g, f, want) ==
  /\ At(g, "out") /\ (g = Sweeper => disp.pc = "loop")
  /\ IF g = Sweeper THEN want = NoSock ELSE want # NoSock /\ sock[want].fd = f
  /\ get' = [get EXCEPT ![g] = [pc |-> "low", fd |-> f, want |-> want, got |-> NoSock]]
  /\ UNCHANGED <<slot, sock, disp, opened>>

ReadLow(g) ==
  /\ At(g, "low")
  /\ Go(g, IF slot[get[g].fd].low = 0 THEN "out" ELSE "data")
  /\ UNCHANGED <<slot, sock, disp, opened>>

ReadData(g) ==
  /\ At(g, "data")
  /\ Go(g, IF slot[get[g].fd].data = NoSock THEN "out" ELSE "announce")
  /\ UNCHANGED <<slot, sock, disp, opened>>

(* fetch_and_add of 2^32: the low half before it decides.                  *)
Announce(g) ==
  /\ At(g, "announce")
  /\ slot' = [slot EXCEPT ![get[g].fd].high = @ + 1]
  /\ Go(g, IF slot[get[g].fd].low # 0 THEN "take" ELSE "withdraw")
  /\ UNCHANGED <<sock, disp, opened>>

(* Another thread's reference may have come meanwhile.                     *)
Withdraw(g) ==
  /\ At(g, "withdraw")
  /\ slot' = [slot EXCEPT ![get[g].fd].high = @ - 1]
  /\ Go(g, IF slot[get[g].fd].low # 0 THEN "announce" ELSE "out")
  /\ UNCHANGED <<sock, disp, opened>>

TakeRef(g) ==
  /\ At(g, "take")
  /\ slot' = [slot EXCEPT ![get[g].fd] = [slot[get[g].fd] EXCEPT !.high = @ - 1, !.low = @ + 1]]
  /\ Go(g, "job")
  /\ UNCHANGED <<sock, disp, opened>>

(* job_incref (ev->data)                                                   *)
TakeJob(g) ==
  /\ At(g, "job")
  /\ LET s == slot[get[g].fd].data IN
       IF s = NoSock
       THEN Go(g, "stop") /\ UNCHANGED sock
       ELSE /\ get' = [get EXCEPT ![g] = [@ EXCEPT !.pc = "drop", !.got = s]]
            /\ sock' = [sock EXCEPT ![s].refs = @ + 1]
  /\ UNCHANGED <<slot, disp, opened>>

DropRef(g) ==
  /\ At(g, "drop")
  /\ slot' = [slot EXCEPT ![get[g].fd].low = @ - 1]
  /\ Go(g, IF MustClear(get[g].fd) THEN "clear" ELSE "look")
  /\ UNCHANGED <<sock, disp, opened>>

GetterClears(g) ==
  /\ At(g, "clear")
  /\ slot' = [slot EXCEPT ![get[g].fd].data = NoSock]
  /\ sock' = DropSock(sock, slot[get[g].fd].data)
  /\ Go(g, "look")
  /\ UNCHANGED <<disp, opened>>

(* A socket with C_ERROR is no answer; else its connection is, and the     *)
(* reference to the socket job is dropped.  The wrong generation is        *)
(* dropped too.                                                            *)
RightGeneration(g) == get[g].want \in {NoSock, get[g].got}

Look(g) ==
  /\ At(g, "look")
  /\ LET s == get[g].got
         found == ~sock[s].error /\ RightGeneration(g)
     IN /\ sock' = IF found THEN DropSock([sock EXCEPT ![s].conn = @ + 1], s) ELSE DropSock(sock, s)
        /\ Go(g, IF found THEN "hold" ELSE "out")
  /\ UNCHANGED <<slot, disp, opened>>

(* The caller is done with the connection; the drain sweep may have failed *)
(* it.                                                                     *)
Release(g) ==
  /\ At(g, "hold")
  /\ LET s == get[g].got IN
       \/ sock' = [sock EXCEPT ![s].conn = @ - 1]
       \/ g = Sweeper /\ sock' = [sock EXCEPT ![s] = [sock[s] EXCEPT !.conn = @ - 1, !.failed = TRUE]]
  /\ Go(g, "out")
  /\ UNCHANGED <<slot, disp, opened>>

(* The service manager starts the process again.                           *)
StartAgain ==
  /\ Stopped
  /\ slot' = [f \in Fds |-> EmptySlot] /\ sock' = [s \in Socks |-> NewSock]
  /\ disp' = Rest /\ get' = [g \in Getters |-> NoGet]
  /\ opened' = [f \in Fds |-> NoSock]

FdNext ==
  \/ \E s \in Socks :
       \/ \E f \in Fds : alloc_new_socket_connection(s, f)
       \/ SocketAux(s) \/ fail_socket_connection(s)
       \/ FailConnection(s) \/ CloseConnection(s) \/ FreeConnection(s)
  \/ AssertNoData \/ AssertNoRefs \/ AssertUnset \/ epoll_sethandler \/ SetData
  \/ \E f \in Fds : FetchEvent(f) \/ RunEvent(f)
  \/ connection_event_incref \/ ClearData \/ LeaveEpoll \/ StartAgain
  \/ \E g \in Getters :
       \/ \E f \in Fds, want \in Socks \cup {NoSock} : LookUp(g, f, want)
       \/ ReadLow(g) \/ ReadData(g) \/ Announce(g) \/ Withdraw(g) \/ TakeRef(g)
       \/ TakeJob(g) \/ DropRef(g) \/ GetterClears(g) \/ Look(g) \/ Release(g)

FdSpec == FdInit /\ [][FdNext]_slotVars

(***************************************************************************)
(* Properties                                                              *)
(***************************************************************************)

FdTypeOK ==
  /\ \A f \in Fds : slot[f].low \in Nat /\ slot[f].high \in Nat /\ slot[f].data \in Socks \cup {NoSock}
  /\ \A s \in Socks : sock[s].refs \in Nat /\ sock[s].conn \in Nat
  /\ opened \in [Fds -> Socks \cup {NoSock}]

(* A slot never points to a freed socket and no getter holds one, whatever *)
(* thread drops the last reference.                                        *)
NoDangling ==
  /\ \A f \in Fds : slot[f].data # NoSock => sock[slot[f].data].st = "open"
  /\ \A g \in Getters : get[g].pc \in {"drop", "clear", "look"} => sock[get[g].got].st = "open"

(* A caller that was given a connection has the one it asked for, and its  *)
(* descriptor is not closed while it is held.                              *)
HeldIsOpen ==
  \A g \in Getters : get[g].pc = "hold" =>
    /\ opened[get[g].fd] = get[g].got
    /\ g # Sweeper => get[g].got = get[g].want

(* An event in the heap belongs to the socket in the slot: an event that   *)
(* was fetched for one connection is not run for the next one that got its *)
(* descriptor.                                                             *)
EventsCurrent ==
  \A f \in Fds : slot[f].queued =>
    slot[f].of = opened[f] /\ slot[f].data = opened[f] /\ slot[f].data # NoSock /\ slot[f].low # 0

SlotsSafe == FdTypeOK /\ NoDangling /\ HeldIsOpen /\ EventsCurrent


(* The assertions on a slot that is about to be used hold: nobody refers   *)
(* to the slot of a descriptor the kernel has just given out, and a slot   *)
(* with references has data.                                               *)
SlotUnused == ~Stopped
=============================================================================
