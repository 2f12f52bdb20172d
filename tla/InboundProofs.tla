---------------------------- MODULE InboundProofs ----------------------------
(* Inbound connections: proofs about ListenGate, for any number of         *)
(* listeners and closing threads and any limit, and about FdEvents, for    *)
(* any descriptors, connections and threads that look connections up.      *)
EXTENDS ListenGate, FdEvents, FiniteSetTheorems, TLAPS

(* The listeners the main thread may still accept from: the one it has     *)
(* just accepted from only counts again once it has been compared with     *)
(* the limit.                                                              *)
Ready == IF main.pc = "loop" THEN listening ELSE listening \ {main.lc}

(* The signals that closing threads have still to send.                    *)
Unsent == {p \in Closers \X Listeners : p[2] \in wake[p[1]]}

Chances == Cardinality(Ready) + Cardinality(aux) + Cardinality(Unsent)
Most == Cardinality(Listeners) + Cardinality(Listeners) + Cardinality(Closers) * Cardinality(Listeners)

(* A listener that is about to be removed although a close has left the    *)
(* limit since will be put back: that close has signalled it, or is about  *)
(* to.                                                                     *)
Covered(l) == l \in aux \/ \E k \in Closers : l \in wake[k]

GateInv ==
  /\ GateTypeOK
  /\ active < max_special_connections => \A l \in Listeners : l \in listening \/ Covered(l)
  /\ active < max_special_connections /\ main.pc = "remove" => Covered(main.lc)
  /\ active >= max_special_connections => active + Chances <= max_special_connections - 1 + Most
  /\ active > 0 => cron.run \/ cron.timer \/ cron.busy \/ main.pc = "resume"
-----------------------------------------------------------------------------
(* Sets of listeners and of unsent signals are finite and bounded.         *)
LEMMA SetsCounted ==
  ASSUME NEW R \in SUBSET Listeners, NEW U \in SUBSET (Closers \X Listeners)
  PROVE  /\ IsFiniteSet(R) /\ Cardinality(R) \in Nat /\ Cardinality(R) <= Cardinality(Listeners)
         /\ IsFiniteSet(U) /\ Cardinality(U) \in Nat
         /\ Cardinality(U) <= Cardinality(Closers) * Cardinality(Listeners)
         /\ Cardinality(Listeners) \in Nat /\ Cardinality(Closers) \in Nat
         /\ Cardinality(Closers) * Cardinality(Listeners) \in Nat
<1>1. /\ IsFiniteSet(R) /\ Cardinality(R) \in Nat /\ Cardinality(R) <= Cardinality(Listeners)
      /\ Cardinality(Listeners) \in Nat /\ Cardinality(Closers) \in Nat
  BY GateConstants, FS_Subset, FS_CardinalityType
<1>2. /\ IsFiniteSet(Closers \X Listeners)
      /\ Cardinality(Closers \X Listeners) = Cardinality(Closers) * Cardinality(Listeners)
  BY GateConstants, FS_Product
<1>3. IsFiniteSet(U) /\ Cardinality(U) \in Nat /\ Cardinality(U) <= Cardinality(Closers \X Listeners)
  BY <1>2, FS_Subset, FS_CardinalityType
<1>4. Cardinality(Closers \X Listeners) \in Nat
  BY <1>2, FS_CardinalityType
<1> QED
  BY <1>1, <1>2, <1>3, <1>4

(* Whatever the sets are, there are no more chances than listeners, JS_AUX *)
(* and signals of every thread to every listener.                          *)
LEMMA ChancesBounded ==
  ASSUME GateTypeOK
  PROVE  Chances \in Nat /\ Chances <= Most /\ Most \in Nat
<1>1. Ready \in SUBSET Listeners /\ aux \in SUBSET Listeners /\ Unsent \in SUBSET (Closers \X Listeners)
  BY DEF GateTypeOK, Ready, Unsent
<1>2. /\ Cardinality(Ready) \in Nat /\ Cardinality(Ready) <= Cardinality(Listeners)
      /\ Cardinality(Unsent) \in Nat /\ Cardinality(Unsent) <= Cardinality(Closers) * Cardinality(Listeners)
      /\ Cardinality(Listeners) \in Nat /\ Cardinality(Closers) * Cardinality(Listeners) \in Nat
  BY <1>1, SetsCounted
<1>3. Cardinality(aux) \in Nat /\ Cardinality(aux) <= Cardinality(Listeners)
  BY <1>1, SetsCounted, ZenonT(60)
<1> QED
  BY <1>2, <1>3 DEF Chances, Most

(* The main thread's step after accepting from l uses one chance.          *)
LEMMA AcceptUses ==
  ASSUME NEW L \in SUBSET Listeners, NEW l \in L
  PROVE  Cardinality(L \ {l}) = Cardinality(L) - 1
BY GateConstants, FS_Subset, FS_RemoveElement

(* JS_AUX of a listener turns a pending signal into a listening socket.    *)
LEMMA MoveKeeps ==
  ASSUME NEW A \in SUBSET Listeners, NEW L \in SUBSET Listeners, NEW l \in A
  PROVE  Cardinality(A \ {l}) + Cardinality(L \cup {l}) <= Cardinality(A) + Cardinality(L)
<1>1. IsFiniteSet(A) /\ IsFiniteSet(L) /\ Cardinality(A) \in Nat /\ Cardinality(L) \in Nat
  BY GateConstants, FS_Subset, FS_CardinalityType
<1>2. Cardinality(A \ {l}) = Cardinality(A) - 1
  BY <1>1, FS_RemoveElement, ZenonT(60)
<1>3. Cardinality(L \cup {l}) = IF l \in L THEN Cardinality(L) ELSE Cardinality(L) + 1
  BY <1>1, FS_AddElement, ZenonT(60)
<1> QED
  BY <1>1, <1>2, <1>3

(* A signal that is sent is pending.                                       *)
LEMMA SignalKeeps ==
  ASSUME NEW U \in SUBSET (Closers \X Listeners), NEW A \in SUBSET Listeners, NEW p \in U, NEW l \in Listeners
  PROVE  Cardinality(U \ {p}) + Cardinality(A \cup {l}) <= Cardinality(U) + Cardinality(A)
<1>1. IsFiniteSet(A) /\ IsFiniteSet(U) /\ Cardinality(A) \in Nat /\ Cardinality(U) \in Nat
  BY SetsCounted
<1>2. Cardinality(U \ {p}) = Cardinality(U) - 1
  BY <1>1, FS_RemoveElement, ZenonT(60)
<1>3. Cardinality(A \cup {l}) = IF l \in A THEN Cardinality(A) ELSE Cardinality(A) + 1
  BY <1>1, FS_AddElement, ZenonT(60)
<1> QED
  BY <1>1, <1>2, <1>3
-----------------------------------------------------------------------------
LEMMA GateStarts == GateInit => GateInv
<1> SUFFICES ASSUME GateInit PROVE GateInv
  OBVIOUS
<1>1. GateTypeOK
  <2>1. main \in [pc : {"loop", "resume", "compare", "remove"}, lc : Listeners]
    <3>1. (CHOOSE l \in Listeners : TRUE) \in Listeners
      BY GateConstants
    <3> QED
      BY <3>1 DEF GateInit
  <2>2. cron \in [run : BOOLEAN, timer : BOOLEAN, busy : BOOLEAN] /\ hup \in BOOLEAN
    BY ZenonT(60) DEF GateInit
  <2>3. wake \in [Closers -> SUBSET Listeners]
    BY DEF GateInit
  <2>4. active \in 0..MaxClients /\ listening \subseteq Listeners /\ aux \subseteq Listeners
    BY GateConstants DEF GateInit
  <2> QED
    BY <2>1, <2>2, <2>3, <2>4 DEF GateTypeOK
<1> QED
  BY <1>1, GateConstants DEF GateInit, GateInv

LEMMA GateStep == GateInv /\ [GateNext]_gateVars => GateInv'
<1> SUFFICES ASSUME GateInv, [GateNext]_gateVars PROVE GateInv'
  OBVIOUS
<1> USE GateConstants
<1>0. GateTypeOK /\ active \in Nat /\ Chances \in Nat /\ Chances <= Most /\ Most \in Nat
  BY ChancesBounded DEF GateInv, GateTypeOK
<1>1. ASSUME NEW l \in Listeners, accept(l) PROVE GateInv'
  <2>1. GateTypeOK'
    BY <1>0, <1>1 DEF accept, GateTypeOK
  <2>2. Chances' = Chances - 1
    <3>1. listening \in SUBSET Listeners /\ l \in listening /\ Cardinality(listening) \in Nat
      BY <1>0, <1>1, SetsCounted, ZenonT(60) DEF accept, GateTypeOK
    <3>2. Ready = listening /\ Ready' = listening \ {l}
      BY <1>1 DEF accept, Ready
    <3>3. Unsent' = Unsent /\ aux' = aux
      BY <1>1 DEF accept, Unsent
    <3>4. aux \in SUBSET Listeners /\ Unsent \in SUBSET (Closers \X Listeners)
      BY <1>0 DEF GateTypeOK, Unsent
    <3>5. Cardinality(aux) \in Nat /\ Cardinality(Unsent) \in Nat
      BY <3>4, SetsCounted
    <3>6. Cardinality(listening \ {l}) = Cardinality(listening) - 1
      BY <3>1, AcceptUses
    <3> QED
      BY <3>1, <3>2, <3>3, <3>5, <3>6 DEF Chances
  <2>3. active' >= max_special_connections => active' + Chances' <= max_special_connections - 1 + Most
    BY <1>0, <1>1, <2>2 DEF accept, GateInv, Most
  <2>4. \A x \in Listeners : Covered(x)' <=> Covered(x)
    BY <1>1 DEF accept, Covered
  <2> QED
    BY <1>0, <1>1, <2>1, <2>3, <2>4 DEF accept, GateInv
<1>2. ASSUME NEW l \in Listeners, do_listening_connection_job(l) PROVE GateInv'
  <2>1. GateTypeOK'
    BY <1>0, <1>2 DEF do_listening_connection_job, GateTypeOK
  <2>2. Chances' <= Chances /\ Chances' \in Nat
    <3>1. listening \in SUBSET Listeners /\ aux \in SUBSET Listeners /\ l \in aux
      BY <1>0, <1>2 DEF do_listening_connection_job, GateTypeOK
    <3>2. Ready = listening /\ Ready' = listening \cup {l} /\ aux' = aux \ {l} /\ Unsent' = Unsent
      BY <1>2 DEF do_listening_connection_job, Ready, Unsent
    <3>3. Unsent \in SUBSET (Closers \X Listeners)
      BY DEF Unsent
    <3>4. /\ Cardinality(listening) \in Nat /\ Cardinality(aux) \in Nat /\ Cardinality(Unsent) \in Nat
          /\ Cardinality(listening \cup {l}) \in Nat /\ Cardinality(aux \ {l}) \in Nat
      <4>1. listening \cup {l} \in SUBSET Listeners /\ aux \ {l} \in SUBSET Listeners
        BY <3>1
      <4> QED
        BY <3>1, <3>3, <4>1, SetsCounted
    <3>5. Cardinality(aux \ {l}) + Cardinality(listening \cup {l}) <= Cardinality(aux) + Cardinality(listening)
      BY <3>1, MoveKeeps
    <3> QED
      BY <3>2, <3>4, <3>5 DEF Chances
  <2>3. \A x \in Listeners : x \in listening \/ Covered(x) => x \in listening' \/ Covered(x)'
    BY <1>2 DEF do_listening_connection_job, Covered
  <2> QED
    BY <1>0, <1>2, <2>1, <2>2, <2>3 DEF do_listening_connection_job, GateInv, GateTypeOK, Most
<1>3. CASE engine_resume_precise_cron
  <2>1. GateTypeOK'
    BY <1>0, <1>3, ZenonT(60) DEF engine_resume_precise_cron, GateTypeOK
  <2>2. Chances' = Chances
    BY <1>3 DEF engine_resume_precise_cron, Chances, Ready, Unsent, GateInv, GateTypeOK
  <2>3. \A x \in Listeners : Covered(x)' <=> Covered(x)
    BY <1>3 DEF engine_resume_precise_cron, Covered
  <2> QED
    BY <1>0, <1>3, <2>1, <2>2, <2>3, SMTT(30) DEF engine_resume_precise_cron, GateInv, GateTypeOK, Most
<1>4. CASE CompareLimit
  <2>1. GateTypeOK'
    BY <1>0, <1>4 DEF CompareLimit, GateTypeOK
  <2>2. active >= max_special_connections => Chances' = Chances
    BY <1>4, <1>0 DEF CompareLimit, Chances, Ready, Unsent, GateTypeOK
  <2>3. \A x \in Listeners : Covered(x)' <=> Covered(x)
    BY <1>4 DEF CompareLimit, Covered
  <2> QED
    BY <1>0, <1>4, <2>1, <2>2, <2>3 DEF CompareLimit, GateInv, GateTypeOK, Most
<1>5. CASE epoll_remove
  <2>1. GateTypeOK'
    BY <1>0, <1>5 DEF epoll_remove, GateTypeOK
  <2>2. Chances' = Chances
    BY <1>5, <1>0 DEF epoll_remove, Chances, Ready, Unsent, GateTypeOK
  <2>3. \A x \in Listeners : Covered(x)' <=> Covered(x)
    BY <1>5 DEF epoll_remove, Covered
  <2> QED
    BY <1>0, <1>5, <2>1, <2>2, <2>3 DEF epoll_remove, GateInv, GateTypeOK, Most
<1>6. ASSUME NEW k \in Closers, CloseSpecial(k) PROVE GateInv'
  <2>1. GateTypeOK'
    BY <1>0, <1>6 DEF CloseSpecial, GateTypeOK
  <2>2. active' >= max_special_connections => active' + Chances' <= max_special_connections - 1 + Most
    <3> SUFFICES ASSUME active' >= max_special_connections
                 PROVE  active' + Chances' <= max_special_connections - 1 + Most
      BY DEF Most
    <3>1. active' = active - 1 /\ wake' = wake
      BY <1>0, <1>6 DEF CloseSpecial, GateTypeOK
    <3>2. Chances' = Chances
      BY <1>6, <3>1, ZenonT(60) DEF CloseSpecial, Chances, Ready, Unsent
    <3> QED
      BY <1>0, <3>1, <3>2 DEF GateInv, Most
  <2>3. CASE active = max_special_connections
    <3>1. \A x \in Listeners : Covered(x)'
      BY <1>0, <1>6, <2>3 DEF CloseSpecial, Covered, GateTypeOK
    <3> QED
      BY <1>0, <1>6, <2>1, <2>2, <2>3, <3>1 DEF CloseSpecial, GateInv, GateTypeOK, Most
  <2>4. CASE active # max_special_connections
    <3>1. wake' = wake
      BY <1>0, <1>6, <2>4 DEF CloseSpecial, GateTypeOK
    <3>2. \A x \in Listeners : Covered(x)' <=> Covered(x)
      BY <1>6, <3>1 DEF CloseSpecial, Covered
    <3> QED
      BY <1>0, <1>6, <2>1, <2>2, <2>4, <3>2 DEF CloseSpecial, GateInv, GateTypeOK, Most
  <2> QED
    BY <2>3, <2>4
<1>7. ASSUME NEW k \in Closers, SignalListener(k) PROVE GateInv'
  <2> PICK l \in wake[k] : wake' = [wake EXCEPT ![k] = @ \ {l}] /\ aux' = aux \cup {l}
    BY <1>7, ZenonT(60) DEF SignalListener
  <2>0. l \in Listeners /\ UNCHANGED <<active, listening, main, cron, hup>>
    BY <1>0, <1>7 DEF SignalListener, GateTypeOK
  <2>1. GateTypeOK'
    BY <1>0, <2>0 DEF GateTypeOK
  <2>2. Chances' <= Chances /\ Chances' \in Nat
    <3>1. /\ Unsent \in SUBSET (Closers \X Listeners) /\ <<k, l>> \in Unsent
          /\ Ready \in SUBSET Listeners /\ aux \in SUBSET Listeners
      BY <1>0, <2>0 DEF Unsent, Ready, GateTypeOK
    <3>2. Unsent' = Unsent \ {<<k, l>>}
      BY <1>0, <2>0 DEF Unsent, GateTypeOK
    <3>3. Ready' = Ready
      BY <2>0 DEF Ready
    <3>4. /\ Cardinality(Ready) \in Nat /\ Cardinality(aux) \in Nat /\ Cardinality(Unsent) \in Nat
          /\ Cardinality(aux \cup {l}) \in Nat /\ Cardinality(Unsent \ {<<k, l>>}) \in Nat
      <4>1. aux \cup {l} \in SUBSET Listeners /\ Unsent \ {<<k, l>>} \in SUBSET (Closers \X Listeners)
        BY <2>0, <3>1
      <4> QED
        BY <3>1, <4>1, SetsCounted, ZenonT(60)
    <3>5. Cardinality(Unsent \ {<<k, l>>}) + Cardinality(aux \cup {l}) <= Cardinality(Unsent) + Cardinality(aux)
      BY <2>0, <3>1, SignalKeeps
    <3> QED
      BY <3>2, <3>3, <3>4, <3>5 DEF Chances
  <2>3. \A x \in Listeners : Covered(x) => Covered(x)'
    BY <1>0, <2>0 DEF Covered, GateTypeOK
  <2> QED
    BY <1>0, <2>0, <2>1, <2>2, <2>3, SMTT(30) DEF GateInv, GateTypeOK, Most
<1>8. ASSUME UNCHANGED <<active, listening, aux, main, wake>>, GateTypeOK',
             active > 0 => (cron.run \/ cron.timer \/ cron.busy \/ main.pc = "resume")'
      PROVE  GateInv'
  <2>1. Chances' = Chances
    BY <1>8 DEF Chances, Ready, Unsent
  <2>2. \A x \in Listeners : Covered(x)' <=> Covered(x)
    BY <1>8, SMTT(30) DEF Covered
  <2> QED
    BY <1>0, <1>8, <2>1, <2>2 DEF GateInv, GateTypeOK, Most
<1>9. CASE Sighup
  BY <1>0, <1>8, <1>9, SMTT(30) DEF Sighup, GateInv, GateTypeOK
<1>10. CASE do_precise_cron
  <2>1. cron' \in [run : BOOLEAN, timer : BOOLEAN, busy : BOOLEAN] /\ cron'.busy
    BY <1>0, <1>10, ZenonT(60) DEF do_precise_cron, GateTypeOK
  <2> QED
    BY <1>0, <1>8, <1>10, <2>1, ZenonT(60) DEF do_precise_cron, GateTypeOK
<1>11. CASE RearmCron
  <2>1. cron' \in [run : BOOLEAN, timer : BOOLEAN, busy : BOOLEAN] /\ (active > 0 => cron'.timer)
    BY <1>0, <1>11, ZenonT(60) DEF RearmCron, GateTypeOK
  <2> QED
    BY <1>0, <1>8, <1>11, <2>1, SMTT(30) DEF RearmCron, GateTypeOK
<1>12. CASE UNCHANGED gateVars
  BY <1>0, <1>8, <1>12 DEF gateVars, GateInv, GateTypeOK
<1> QED
  BY <1>1, <1>2, <1>3, <1>4, <1>5, <1>6, <1>7, <1>9, <1>10, <1>11, <1>12 DEF GateNext

(* What GateKept says of the limit follows from the chances left.          *)
LEMMA GateFollows == GateInv => GateKept
<1> SUFFICES ASSUME GateInv PROVE GateKept
  OBVIOUS
<1>0. /\ GateTypeOK /\ active \in Nat /\ Chances \in Nat /\ Most \in Nat
      /\ Cardinality(Listeners) \in Nat /\ Cardinality(Closers) \in Nat
  BY ChancesBounded, SetsCounted, GateConstants, FS_CardinalityType DEF GateInv, GateTypeOK
<1>1. Most = Cardinality(Listeners) * (2 + Cardinality(Closers))
  BY <1>0, SMTT(30) DEF Most
<1>2. active <= max_special_connections - 1 + Cardinality(Listeners) * (2 + Cardinality(Closers))
  BY <1>0, <1>1, GateConstants, SMTT(30) DEF GateInv
<1>3. ASSUME active < max_special_connections, NEW l \in Listeners
      PROVE  l \in listening \cup aux \cup UNION {wake[k] : k \in Closers}
  BY <1>3 DEF GateInv, Covered
<1> QED
  BY <1>2, <1>3 DEF GateKept, GateInv

(* GateKept always holds: no listener is left out of epoll below the       *)
(* limit, the limit is exceeded by a bounded number of clients, and the    *)
(* cron runs while there are clients, for any number of listeners and      *)
(* closing threads (alloc_new_connection, cpu_server_close_connection,     *)
(* precise_cron_job_run).                                                  *)
THEOREM GateAlways == GateSpec => [](GateTypeOK /\ GateKept)
<1>1. GateInv => GateTypeOK /\ GateKept
  BY GateFollows DEF GateInv
<1> QED
  BY GateStarts, GateStep, <1>1, PTL DEF GateSpec
-----------------------------------------------------------------------------
(* FdEvents.  Most leaves are first-order; the ones with arithmetic cite   *)
(* SMT.                                                                    *)
USE ZenonT(60)

AnySock == Socks \cup {NoSock}
SetupPcs == {"data", "refs", "handler", "count", "set"}
FailPcs == {"drop", "clear", "leave"}
GotPcs == {"drop", "clear", "look"}
DispPcs == {"loop"} \cup SetupPcs \cup FailPcs
GetPcs == {"out", "low", "data", "announce", "withdraw", "take", "job", "hold"} \cup GotPcs

SlotRecord ==
  [low : Nat, high : Nat, data : AnySock, queued : BOOLEAN, armed : BOOLEAN, ready : BOOLEAN, of : AnySock]
SockRecord ==
  [st : {"new", "open", "freed", "gone"}, fd : Fds \cup {0}, refs : Nat, conn : Nat,
   error : BOOLEAN, failed : BOOLEAN, closed : BOOLEAN, abort : BOOLEAN]
DispRecord == [pc : DispPcs, fd : Fds, s : AnySock]
GetRecord == [pc : GetPcs, fd : Fds, want : AnySock, got : AnySock]

SlotTypes ==
  /\ slot \in [Fds -> SlotRecord] /\ sock \in [Socks -> SockRecord] /\ disp \in DispRecord
  /\ get \in [Getters -> GetRecord] /\ opened \in [Fds -> AnySock]

Live(s) == sock[s].st = "open"
Setup(s) == disp.s = s /\ disp.pc \in SetupPcs
Failing(s) == disp.s = s /\ disp.pc \in FailPcs

(* A descriptor is open for the one socket that has it, until its          *)
(* connection is freed.  A socket lives as long as it has references.      *)
OpenedRight ==
  \A f \in Fds, s \in Socks : opened[f] = s <=> sock[s].st \in {"open", "freed"} /\ sock[s].fd = f
LifeAt(s) ==
  /\ sock[s].st = "new" => ~ sock[s].error /\ ~ sock[s].closed /\ ~ sock[s].failed
  /\ sock[s].st \in {"freed", "gone"} => sock[s].closed
  /\ sock[s].st = "gone" => sock[s].conn = 0
  /\ sock[s].refs > 0 <=> Live(s)
  /\ Live(s) => sock[s].fd \in Fds
  /\ sock[s].abort => ~ sock[s].error
LifeRight == \A s \in Socks : LifeAt(s)

(* What the main thread is at.                                             *)
DispRight ==
  disp.pc # "loop" =>
    /\ get[Sweeper].pc = "out"
    /\ \E s \in Socks :
         /\ disp.s = s /\ Live(s) /\ sock[s].fd = disp.fd
         /\ disp.pc \in SetupPcs => ~ sock[s].error
         /\ disp.pc \in FailPcs => sock[s].error /\ ~ sock[s].abort

(* A socket is counted in the slot from epoll_sethandler until it fails.   *)
Counted(s) ==
  /\ Live(s) /\ (sock[s].error => disp.s = s /\ disp.pc = "drop")
  /\ ~ (disp.s = s /\ disp.pc \in SetupPcs \ {"set"})
MainHolds(f) == \E s \in Socks : Counted(s) /\ sock[s].fd = f
LowMain(f) == IF MainHolds(f) THEN 1 ELSE 0
LowBy(f) == {g \in Getters : get[g].fd = f /\ get[g].pc \in {"job", "drop"}}
HighBy(f) == {g \in Getters : get[g].fd = f /\ get[g].pc \in {"withdraw", "take"}}
LowAt(f) == slot[f].low = LowMain(f) + Cardinality(LowBy(f))
HighAt(f) == slot[f].high = Cardinality(HighBy(f))
SlotsCounted == \A f \in Fds : LowAt(f) /\ HighAt(f)

(* The data of a slot are the socket that has the descriptor, from the end *)
(* of its setup and at least as long as it is counted.                     *)
DataAt(f, s) ==
  /\ slot[f].data = s => Live(s) /\ sock[s].fd = f /\ ~ Setup(s)
  /\ Counted(s) /\ ~ Setup(s) /\ sock[s].fd = f => slot[f].data = s
DataRight == \A f \in Fds, s \in Socks : DataAt(f, s)

(* One thread at most clears a slot, and nobody can refer to it meanwhile. *)
MainClears(f) == disp.pc = "clear" /\ disp.fd = f
Clears(g, f) == get[g].pc = "clear" /\ get[g].fd = f
Takes(g, f) == get[g].pc = "take" /\ get[g].fd = f
Closing(f) == slot[f].low = 0 /\ slot[f].data # NoSock /\ \A u \in Getters : ~ Takes(u, f)
ClearAt(f) ==
  /\ MainClears(f) => Closing(f)
  /\ \A g \in Getters : Clears(g, f) =>
       Closing(f) /\ ~ MainClears(f) /\ \A u \in Getters : Clears(u, f) => u = g
ClearRight == \A f \in Fds : ClearAt(f)

(* References to a socket: its slot's, io_conn, a pending signal's, the    *)
(* one the failing main thread has, and those of getters.                  *)
PointsTo(s) == Setup(s) \/ \E f \in Fds : slot[f].data = s
FromSlot(s) == IF PointsTo(s) THEN 1 ELSE 0
FromConn(s) == IF Live(s) /\ ~ sock[s].closed THEN 1 ELSE 0
FromSignal(s) == IF sock[s].abort THEN 1 ELSE 0
FromMain(s) == IF Failing(s) THEN 1 ELSE 0
GotBy(s) == {g \in Getters : get[g].got = s /\ get[g].pc \in GotPcs}
RefsAt(s) == sock[s].refs = FromSlot(s) + FromConn(s) + FromSignal(s) + FromMain(s) + Cardinality(GotBy(s))

(* References to its connection: the socket's, and those of getters.       *)
FromSock(s) == IF Live(s) THEN 1 ELSE 0
HeldBy(s) == {g \in Getters : get[g].got = s /\ get[g].pc = "hold"}
ConnAt(s) == sock[s].conn = FromSock(s) + Cardinality(HeldBy(s))
SocksCounted == \A s \in Socks : RefsAt(s) /\ ConnAt(s)

(* A getter has got the socket of its descriptor, and holds the one it     *)
(* wanted.                                                                 *)
GetAt(g) ==
  /\ get[g].pc \in GotPcs \cup {"hold"} =>
       \E s \in Socks : get[g].got = s /\ sock[s].fd = get[g].fd /\ sock[s].st # "new"
  /\ get[g].pc # "out" /\ g # Sweeper => get[g].want # NoSock
  /\ get[g].pc = "hold" => g = Sweeper \/ get[g].got = get[g].want
GetRight == \A g \in Getters : GetAt(g)

(* An event in the heap, and a descriptor in epoll, are of a socket that   *)
(* is set up and has not failed.                                           *)
Served(f, s) == opened[f] = s /\ Live(s) /\ ~ Setup(s)
EventAt(f) ==
  /\ slot[f].queued => \E s \in Socks : Served(f, s) /\ ~ sock[s].error /\ slot[f].of = s
  /\ slot[f].armed => \E s \in Socks : Served(f, s) /\ (sock[s].error => Failing(s))
EventsRight == \A f \in Fds : EventAt(f)

FdInv ==
  /\ SlotTypes /\ OpenedRight /\ LifeRight /\ DispRight /\ SlotsCounted /\ DataRight
  /\ ClearRight /\ SocksCounted /\ GetRight /\ EventsRight

-----------------------------------------------------------------------------
(* Sets of getters, and two of them that differ in one getter.             *)
LEMMA Finite ==
  ASSUME NEW A \in SUBSET Getters
  PROVE  IsFiniteSet(A) /\ Cardinality(A) \in Nat
BY SlotConstants, FS_Subset, FS_CardinalityType

Apart(A, B, g) ==
  /\ (g \in A <=> g \in B) => B = A
  /\ g \in A /\ g \notin B => Cardinality(B) = Cardinality(A) - 1
  /\ g \notin A /\ g \in B => Cardinality(B) = Cardinality(A) + 1

(* Two sets that agree on all other getters.                               *)
LEMMA OneApart ==
  ASSUME NEW A \in SUBSET Getters, NEW B \in SUBSET Getters, NEW g \in Getters,
         \A u \in Getters : u # g => (u \in B <=> u \in A)
  PROVE  Apart(A, B, g)
<1>1. IsFiniteSet(A) /\ Cardinality(A) \in Nat
  BY Finite
<1>2. ASSUME g \in A <=> g \in B PROVE B = A
  <2>1. \A u \in Getters : u \in B <=> u \in A
    BY <1>2
  <2> QED
    BY <2>1
<1>3. ASSUME g \in A, g \notin B PROVE Cardinality(B) = Cardinality(A) - 1
  <2>1. B = A \ {g}
    BY <1>3
  <2> QED
    BY <1>1, <1>3, <2>1, FS_RemoveElement
<1>4. ASSUME g \notin A, g \in B PROVE Cardinality(B) = Cardinality(A) + 1
  <2>1. B = A \cup {g}
    BY <1>4
  <2> QED
    BY <1>1, <1>4, <2>1, FS_AddElement
<1> QED
  BY <1>2, <1>3, <1>4 DEF Apart

(* A set with a member counts for one at least.                            *)
LEMMA MemberCounts ==
  ASSUME NEW A \in SUBSET Getters, NEW g \in A
  PROVE  Cardinality(A) \in Nat /\ Cardinality(A) >= 1
<1>1. IsFiniteSet(A) /\ Cardinality(A) \in Nat
  BY Finite
<1>2. Cardinality(A) # 0
  BY <1>1, FS_EmptySet
<1> QED
  BY <1>1, <1>2, SMTT(30)

(* The parts of the counts are numbers.                                    *)
LEMMA CountParts ==
  /\ \A f : LowMain(f) \in {0, 1} /\ Cardinality(LowBy(f)) \in Nat /\ Cardinality(HighBy(f)) \in Nat
  /\ \A s : /\ FromSlot(s) \in {0, 1} /\ FromConn(s) \in {0, 1} /\ FromSignal(s) \in {0, 1}
            /\ FromMain(s) \in {0, 1} /\ FromSock(s) \in {0, 1}
            /\ Cardinality(GotBy(s)) \in Nat /\ Cardinality(HeldBy(s)) \in Nat
<1>1. \A f : LowBy(f) \in SUBSET Getters /\ HighBy(f) \in SUBSET Getters
  BY DEF LowBy, HighBy
<1>2. \A s : GotBy(s) \in SUBSET Getters /\ HeldBy(s) \in SUBSET Getters
  BY DEF GotBy, HeldBy
<1>3. \A f : LowMain(f) \in {0, 1}
  BY DEF LowMain
<1>4. \A s : FromSlot(s) \in {0, 1} /\ FromConn(s) \in {0, 1} /\ FromSignal(s) \in {0, 1}
  BY DEF FromSlot, FromConn, FromSignal
<1>5. \A s : FromMain(s) \in {0, 1} /\ FromSock(s) \in {0, 1}
  BY DEF FromMain, FromSock
<1> QED
  BY <1>1, <1>2, <1>3, <1>4, <1>5, Finite

(* The same after a step.                                                  *)
LEMMA CountPartsNext ==
  /\ \A f : LowMain(f)' \in {0, 1} /\ Cardinality(LowBy(f)') \in Nat /\ Cardinality(HighBy(f)') \in Nat
  /\ \A s : /\ FromSlot(s)' \in {0, 1} /\ FromConn(s)' \in {0, 1} /\ FromSignal(s)' \in {0, 1}
            /\ FromMain(s)' \in {0, 1} /\ FromSock(s)' \in {0, 1}
            /\ Cardinality(GotBy(s)') \in Nat /\ Cardinality(HeldBy(s)') \in Nat
<1>1. \A f : LowBy(f)' \in SUBSET Getters /\ HighBy(f)' \in SUBSET Getters
  BY DEF LowBy, HighBy
<1>2. \A s : GotBy(s)' \in SUBSET Getters /\ HeldBy(s)' \in SUBSET Getters
  BY DEF GotBy, HeldBy
<1>3. \A f : LowMain(f)' \in {0, 1}
  BY DEF LowMain
<1>4. \A s : FromSlot(s)' \in {0, 1} /\ FromConn(s)' \in {0, 1} /\ FromSignal(s)' \in {0, 1}
  BY DEF FromSlot, FromConn, FromSignal
<1>5. \A s : FromMain(s)' \in {0, 1} /\ FromSock(s)' \in {0, 1}
  BY DEF FromMain, FromSock
<1> QED
  BY <1>1, <1>2, <1>3, <1>4, <1>5, Finite

(* The fields of the records.                                              *)
LEMMA SlotFields ==
  ASSUME SlotTypes
  PROVE  /\ \A f \in Fds : /\ slot[f] \in SlotRecord /\ slot[f].low \in Nat /\ slot[f].high \in Nat
                           /\ slot[f].data \in AnySock /\ slot[f].queued \in BOOLEAN
                           /\ slot[f].armed \in BOOLEAN /\ slot[f].of \in AnySock /\ opened[f] \in AnySock
         /\ \A s \in Socks : /\ sock[s] \in SockRecord /\ sock[s].fd \in Fds \cup {0}
                             /\ sock[s].st \in {"new", "open", "freed", "gone"}
                             /\ sock[s].refs \in Nat /\ sock[s].conn \in Nat
                             /\ sock[s].error \in BOOLEAN /\ sock[s].failed \in BOOLEAN
                             /\ sock[s].closed \in BOOLEAN /\ sock[s].abort \in BOOLEAN
         /\ disp.pc \in DispPcs /\ disp.fd \in Fds /\ disp.s \in AnySock
         /\ \A g \in Getters : /\ get[g] \in GetRecord /\ get[g].pc \in GetPcs /\ get[g].fd \in Fds
                               /\ get[g].want \in AnySock /\ get[g].got \in AnySock
<1>1. ASSUME NEW f \in Fds
      PROVE  /\ slot[f] \in SlotRecord /\ slot[f].low \in Nat /\ slot[f].high \in Nat
             /\ slot[f].data \in AnySock /\ slot[f].queued \in BOOLEAN
             /\ slot[f].armed \in BOOLEAN /\ slot[f].of \in AnySock /\ opened[f] \in AnySock
  BY DEF SlotTypes, SlotRecord
<1>2. ASSUME NEW s \in Socks
      PROVE  /\ sock[s] \in SockRecord /\ sock[s].fd \in Fds \cup {0}
             /\ sock[s].st \in {"new", "open", "freed", "gone"}
             /\ sock[s].refs \in Nat /\ sock[s].conn \in Nat
             /\ sock[s].error \in BOOLEAN /\ sock[s].failed \in BOOLEAN
             /\ sock[s].closed \in BOOLEAN /\ sock[s].abort \in BOOLEAN
  BY DEF SlotTypes, SockRecord
<1>3. disp.pc \in DispPcs /\ disp.fd \in Fds /\ disp.s \in AnySock
  BY DEF SlotTypes, DispRecord
<1>4. ASSUME NEW g \in Getters
      PROVE  /\ get[g] \in GetRecord /\ get[g].pc \in GetPcs /\ get[g].fd \in Fds
             /\ get[g].want \in AnySock /\ get[g].got \in AnySock
  BY DEF SlotTypes, GetRecord
<1> QED
  BY <1>1, <1>2, <1>3, <1>4

-----------------------------------------------------------------------------
(* What a conjunct of the invariant depends on.                            *)

(* The sets of getters after a step of one getter.                         *)
OnlyGetter(g) == \A u \in Getters : u # g => get'[u] = get[u]

(* One getter's step changes every set of getters by that getter at most.  *)
LEMMA GetterSets ==
  ASSUME NEW g \in Getters, OnlyGetter(g)
  PROVE  /\ \A f : Apart(LowBy(f), LowBy(f)', g) /\ Apart(HighBy(f), HighBy(f)', g)
         /\ \A s : Apart(GotBy(s), GotBy(s)', g) /\ Apart(HeldBy(s), HeldBy(s)', g)
<1>1. ASSUME NEW f PROVE Apart(LowBy(f), LowBy(f)', g)
  <2>1. PICK A, B : A = LowBy(f) /\ B = LowBy(f)'
    OBVIOUS
  <2>2. A \in SUBSET Getters /\ B \in SUBSET Getters
    BY <2>1 DEF LowBy
  <2>3. \A u \in Getters : u # g => (u \in B <=> u \in A)
    BY <2>1 DEF OnlyGetter, LowBy
  <2>4. Apart(A, B, g)
    BY <2>2, <2>3, OneApart
  <2> QED
    BY <2>1, <2>4
<1>2. ASSUME NEW f PROVE Apart(HighBy(f), HighBy(f)', g)
  <2>1. PICK A, B : A = HighBy(f) /\ B = HighBy(f)'
    OBVIOUS
  <2>2. A \in SUBSET Getters /\ B \in SUBSET Getters
    BY <2>1 DEF HighBy
  <2>3. \A u \in Getters : u # g => (u \in B <=> u \in A)
    BY <2>1 DEF OnlyGetter, HighBy
  <2>4. Apart(A, B, g)
    BY <2>2, <2>3, OneApart
  <2> QED
    BY <2>1, <2>4
<1>3. ASSUME NEW s PROVE Apart(GotBy(s), GotBy(s)', g)
  <2>1. PICK A, B : A = GotBy(s) /\ B = GotBy(s)'
    OBVIOUS
  <2>2. A \in SUBSET Getters /\ B \in SUBSET Getters
    BY <2>1 DEF GotBy
  <2>3. \A u \in Getters : u # g => (u \in B <=> u \in A)
    BY <2>1 DEF OnlyGetter, GotBy
  <2>4. Apart(A, B, g)
    BY <2>2, <2>3, OneApart
  <2> QED
    BY <2>1, <2>4
<1>4. ASSUME NEW s PROVE Apart(HeldBy(s), HeldBy(s)', g)
  <2>1. PICK A, B : A = HeldBy(s) /\ B = HeldBy(s)'
    OBVIOUS
  <2>2. A \in SUBSET Getters /\ B \in SUBSET Getters
    BY <2>1 DEF HeldBy
  <2>3. \A u \in Getters : u # g => (u \in B <=> u \in A)
    BY <2>1 DEF OnlyGetter, HeldBy
  <2>4. Apart(A, B, g)
    BY <2>2, <2>3, OneApart
  <2> QED
    BY <2>1, <2>4
<1> QED
  BY <1>1, <1>2, <1>3, <1>4

(* A step that moves no getter.                                            *)
LEMMA GettersStay ==
  ASSUME get' = get
  PROVE  /\ \A f : LowBy(f)' = LowBy(f) /\ HighBy(f)' = HighBy(f)
         /\ \A s : GotBy(s)' = GotBy(s) /\ HeldBy(s)' = HeldBy(s)
BY DEF LowBy, HighBy, GotBy, HeldBy

(* What a socket looks like from the slots, and from the main thread.      *)
SameSock(s) ==
  /\ sock'[s].st = sock[s].st /\ sock'[s].fd = sock[s].fd /\ sock'[s].error = sock[s].error
  /\ sock'[s].abort = sock[s].abort
SameMain(s) ==
  /\ Setup(s)' <=> Setup(s)
  /\ Failing(s)' <=> Failing(s)
  /\ Counted(s)' <=> Counted(s)

(* A socket the step leaves in its state stands to the main thread as it   *)
(* did.                                                                    *)
LEMMA MainStays ==
  ASSUME disp' = disp, NEW s, sock'[s].st = sock[s].st, sock'[s].error = sock[s].error
  PROVE  SameMain(s)
<1>1. Setup(s)' <=> Setup(s)
  BY DEF Setup
<1>2. Failing(s)' <=> Failing(s)
  BY DEF Failing
<1>3. Counted(s)' <=> Counted(s)
  BY DEF Counted, Live
<1> QED
  BY <1>1, <1>2, <1>3 DEF SameMain

(* Descriptors stay with sockets that keep them.                           *)
LEMMA OpenedFrame ==
  ASSUME OpenedRight, opened' = opened,
         \A r \in Socks : /\ sock'[r].st \in {"open", "freed"} <=> sock[r].st \in {"open", "freed"}
                          /\ sock'[r].fd = sock[r].fd
  PROVE  OpenedRight'
BY DEF OpenedRight

(* The other sockets live on.                                              *)
LEMMA LifeFrame ==
  ASSUME LifeRight, NEW s \in Socks, \A r \in Socks : r # s => sock'[r] = sock[r], LifeAt(s)'
  PROVE  LifeRight'
<1>1. ASSUME NEW r \in Socks, r # s PROVE LifeAt(r)'
  BY <1>1 DEF LifeRight, LifeAt, Live
<1> QED
  BY <1>1 DEF LifeRight

(* The count of references of a slot that the step leaves alone.           *)
LEMMA LowFrame ==
  ASSUME NEW f \in Fds, LowAt(f), slot'[f].low = slot[f].low, LowBy(f)' = LowBy(f), MainHolds(f)' <=> MainHolds(f)
  PROVE  LowAt(f)'
BY DEF LowAt, LowMain

(* The main thread counts the sockets it counted.                          *)
LEMMA HoldsFrame ==
  ASSUME \A r \in Socks : sock'[r].fd = sock[r].fd /\ (Counted(r)' <=> Counted(r))
  PROVE  \A f : MainHolds(f)' <=> MainHolds(f)
BY DEF MainHolds

(* The count of announcements of a slot that the step leaves alone.        *)
LEMMA HighFrame ==
  ASSUME NEW f \in Fds, HighAt(f), slot'[f].high = slot[f].high, HighBy(f)' = HighBy(f)
  PROVE  HighAt(f)'
BY DEF HighAt

(* The data of a slot, when slot, socket and main thread stay.             *)
LEMMA DataFrame ==
  ASSUME NEW f \in Fds, NEW s \in Socks, DataAt(f, s), slot'[f].data = slot[f].data, SameSock(s), SameMain(s)
  PROVE  DataAt(f, s)'
BY DEF DataAt, SameSock, SameMain, Live

(* Nobody begins to clear the slot or to take a reference.                 *)
LEMMA ClearFrame ==
  ASSUME NEW f \in Fds, ClearAt(f), slot'[f].low = slot[f].low, slot'[f].data = slot[f].data,
         MainClears(f)' => MainClears(f),
         \A u \in Getters : (Clears(u, f)' => Clears(u, f)) /\ (Takes(u, f)' => Takes(u, f))
  PROVE  ClearAt(f)'
<1>1. Closing(f) => Closing(f)'
  BY DEF Closing
<1> QED
  BY <1>1 DEF ClearAt

(* The references to a socket that the step leaves alone.                  *)
LEMMA RefsFrame ==
  ASSUME NEW s \in Socks, RefsAt(s), sock'[s].refs = sock[s].refs, sock'[s].closed = sock[s].closed, SameSock(s),
         SameMain(s), \A f \in Fds : slot'[f].data = s <=> slot[f].data = s, GotBy(s)' = GotBy(s)
  PROVE  RefsAt(s)'
<1>1. FromSlot(s)' = FromSlot(s)
  BY DEF FromSlot, PointsTo, SameMain
<1>2. FromConn(s)' = FromConn(s) /\ FromSignal(s)' = FromSignal(s)
  BY DEF FromConn, FromSignal, Live, SameSock
<1>3. FromMain(s)' = FromMain(s)
  BY DEF FromMain, SameMain
<1> QED
  BY <1>1, <1>2, <1>3 DEF RefsAt

(* The references to a connection that the step leaves alone.              *)
LEMMA ConnFrame ==
  ASSUME NEW s \in Socks, ConnAt(s), sock'[s].conn = sock[s].conn, sock'[s].st = sock[s].st, HeldBy(s)' = HeldBy(s)
  PROVE  ConnAt(s)'
BY DEF ConnAt, FromSock, Live

(* A getter that does not move keeps what it has got.                      *)
LEMMA GetFrame ==
  ASSUME NEW g \in Getters, GetAt(g), get'[g] = get[g],
         \A r \in Socks : sock[r].st # "new" => sock'[r].fd = sock[r].fd /\ sock'[r].st # "new"
  PROVE  GetAt(g)'
BY DEF GetAt

(* The events of a slot, when its socket goes on being served.             *)
LEMMA EventFrame ==
  ASSUME NEW f \in Fds, EventAt(f), slot'[f].queued = slot[f].queued, slot'[f].of = slot[f].of,
         slot'[f].armed = slot[f].armed,
         \A s \in Socks : /\ Served(f, s) => Served(f, s)'
                          /\ Served(f, s) /\ ~ sock[s].error => ~ sock'[s].error
                          /\ Served(f, s) /\ (sock[s].error => Failing(s)) => (sock'[s].error => Failing(s)')
  PROVE  EventAt(f)'
BY DEF EventAt


-----------------------------------------------------------------------------
(* Steps of a getter that leave the sockets alone.                         *)

OnlySlot(f) == \A e \in Fds : e # f => slot'[e] = slot[e]
OnlySock(s) == \A r \in Socks : r # s => sock'[r] = sock[r]

(* The references of a slot as one getter moves.                           *)
LEMMA LowChange ==
  ASSUME NEW f \in Fds, NEW g \in Getters, OnlyGetter(g), LowAt(f), slot[f].low \in Nat,
         MainHolds(f)' <=> MainHolds(f),
         \/ (g \in LowBy(f) <=> g \in LowBy(f)') /\ slot'[f].low = slot[f].low
         \/ g \notin LowBy(f) /\ g \in LowBy(f)' /\ slot'[f].low = slot[f].low + 1
         \/ g \in LowBy(f) /\ g \notin LowBy(f)' /\ slot'[f].low = slot[f].low - 1
  PROVE  LowAt(f)'
<1>1. LowMain(f)' = LowMain(f)
  BY DEF LowMain
<1>2. Apart(LowBy(f), LowBy(f)', g)
  BY GetterSets
<1>3. PICK l, m, k, ll, kk :
        /\ l = slot[f].low /\ m = LowMain(f) /\ k = Cardinality(LowBy(f))
        /\ ll = slot'[f].low /\ kk = Cardinality(LowBy(f)')
  OBVIOUS
<1>4. l = m + k /\ l \in Nat /\ m \in {0, 1} /\ k \in Nat
  BY <1>3, CountParts DEF LowAt
<1>5. (kk = k /\ ll = l) \/ (kk = k + 1 /\ ll = l + 1) \/ (kk = k - 1 /\ ll = l - 1)
  BY <1>2, <1>3 DEF Apart
<1>6. ll = m + kk
  BY <1>4, <1>5, SMTT(30)
<1> QED
  BY <1>1, <1>3, <1>6 DEF LowAt

(* The same for the announcements.                                         *)
LEMMA HighChange ==
  ASSUME NEW f \in Fds, NEW g \in Getters, OnlyGetter(g), HighAt(f),
         \/ (g \in HighBy(f) <=> g \in HighBy(f)') /\ slot'[f].high = slot[f].high
         \/ g \notin HighBy(f) /\ g \in HighBy(f)' /\ slot'[f].high = slot[f].high + 1
         \/ g \in HighBy(f) /\ g \notin HighBy(f)' /\ slot'[f].high = slot[f].high - 1
  PROVE  HighAt(f)'
<1>1. Apart(HighBy(f), HighBy(f)', g)
  BY GetterSets
<1>2. PICK k, kk : k = Cardinality(HighBy(f)) /\ kk = Cardinality(HighBy(f)')
  OBVIOUS
<1>3. slot[f].high = k
  BY <1>2 DEF HighAt
<1>4. slot'[f].high = kk
  BY <1>1, <1>2, <1>3 DEF Apart
<1> QED
  BY <1>2, <1>4 DEF HighAt

(* A getter that is counted is a reference.                                *)
LEMMA LowHeld ==
  ASSUME NEW f \in Fds, LowAt(f), NEW g \in LowBy(f), slot[f].low \in Nat
  PROVE  slot[f].low # 0 /\ slot[f].low - 1 \in Nat
<1>1. LowBy(f) \in SUBSET Getters
  BY DEF LowBy
<1>2. PICK l, m, k : l = slot[f].low /\ m = LowMain(f) /\ k = Cardinality(LowBy(f))
  OBVIOUS
<1>3. l = m + k /\ l \in Nat /\ m \in {0, 1} /\ k \in Nat /\ k >= 1
  BY <1>1, <1>2, CountParts, MemberCounts DEF LowAt
<1>4. l # 0 /\ l - 1 \in Nat
  BY <1>3, SMTT(30)
<1> QED
  BY <1>2, <1>4

(* The same for the announcements.                                         *)
LEMMA HighHeld ==
  ASSUME NEW f \in Fds, HighAt(f), NEW g \in HighBy(f), slot[f].high \in Nat
  PROVE  slot[f].high # 0 /\ slot[f].high - 1 \in Nat
<1>1. HighBy(f) \in SUBSET Getters
  BY DEF HighBy
<1>2. PICK k : k = Cardinality(HighBy(f))
  OBVIOUS
<1>3. k = slot[f].high /\ k \in Nat /\ k >= 1
  BY <1>1, <1>2, MemberCounts DEF HighAt
<1>4. k # 0 /\ k - 1 \in Nat
  BY <1>3, SMTT(30)
<1> QED
  BY <1>3, <1>4

(* A getter moves and at most the counts of its slot change.               *)
LEMMA GetterStep ==
  ASSUME FdInv, NEW g \in Getters, NEW f \in Fds, OnlyGetter(g), OnlySlot(f), SlotTypes',
         sock' = sock, disp' = disp, opened' = opened,
         get'[g].fd = f, get[g].fd = f \/ get[g].pc = "out", g = Sweeper => disp.pc = "loop",
         slot'[f].data = slot[f].data, slot'[f].queued = slot[f].queued,
         slot'[f].of = slot[f].of, slot'[f].armed = slot[f].armed,
         \A s : (g \in GotBy(s) <=> g \in GotBy(s)') /\ (g \in HeldBy(s) <=> g \in HeldBy(s)'),
         GetAt(g)', LowAt(f)', HighAt(f)', ClearAt(f)'
  PROVE  FdInv'
<1>1. \A s : SameMain(s) /\ SameSock(s)
  BY MainStays DEF SameSock
<1>2. \A e : MainHolds(e)' <=> MainHolds(e)
  BY <1>1, HoldsFrame DEF SameMain
<1>3. \A e \in Fds : slot'[e].data = slot[e].data /\ slot'[e].queued = slot[e].queued
                     /\ slot'[e].of = slot[e].of /\ slot'[e].armed = slot[e].armed
  BY DEF OnlySlot
<1>4. OpenedRight' /\ LifeRight'
  <2>1. OpenedRight'
    BY DEF FdInv, OpenedRight
  <2>2. LifeRight'
    BY DEF FdInv, LifeRight, LifeAt, Live
  <2> QED
    BY <2>1, <2>2
<1>5. DispRight'
  <2>1. disp.pc # "loop" => get'[Sweeper] = get[Sweeper]
    BY SlotConstants DEF OnlyGetter
  <2> QED
    BY <2>1 DEF FdInv, DispRight, Live
<1>6. ASSUME NEW e \in Fds, e # f PROVE LowAt(e)' /\ HighAt(e)' /\ ClearAt(e)'
  <2>1. slot'[e] = slot[e]
    BY <1>6 DEF OnlySlot
  <2>2. g \notin LowBy(e) /\ g \notin LowBy(e)' /\ g \notin HighBy(e) /\ g \notin HighBy(e)'
    BY <1>6 DEF LowBy, HighBy
  <2>3. LowBy(e)' = LowBy(e) /\ HighBy(e)' = HighBy(e)
    BY <2>2, GetterSets DEF Apart
  <2>4. LowAt(e)' /\ HighAt(e)'
    BY <1>2, <2>1, <2>3, LowFrame, HighFrame DEF FdInv, SlotsCounted
  <2>5. MainClears(e)' => MainClears(e)
    BY DEF MainClears
  <2>6. \A u \in Getters : (Clears(u, e)' => Clears(u, e)) /\ (Takes(u, e)' => Takes(u, e))
    BY <1>6 DEF OnlyGetter, Clears, Takes
  <2>7. ClearAt(e)'
    BY <2>1, <2>5, <2>6, ClearFrame DEF FdInv, ClearRight
  <2> QED
    BY <2>4, <2>7
<1>7. SlotsCounted' /\ ClearRight'
  BY <1>6 DEF SlotsCounted, ClearRight
<1>8. DataRight'
  BY <1>1, <1>3, DataFrame DEF FdInv, DataRight
<1>9. \A s : GotBy(s)' = GotBy(s) /\ HeldBy(s)' = HeldBy(s)
  BY GetterSets DEF Apart
<1>10. SocksCounted'
  BY <1>1, <1>3, <1>9, RefsFrame, ConnFrame DEF FdInv, SocksCounted
<1>11. GetRight'
  BY GetFrame DEF FdInv, GetRight, OnlyGetter
<1>12. EventsRight'
  <2>1. ASSUME NEW e \in Fds, NEW s \in Socks
        PROVE  (Served(e, s)' <=> Served(e, s)) /\ (Failing(s)' <=> Failing(s))
    BY <1>1 DEF Served, SameMain, Live
  <2> QED
    BY <1>3, <2>1, EventFrame DEF FdInv, EventsRight
<1> QED
  BY <1>4, <1>5, <1>7, <1>8, <1>10, <1>11, <1>12 DEF FdInv

(* The record of a getter that goes to another step.                       *)
LEMMA GoRight ==
  ASSUME SlotTypes, NEW g \in Getters, NEW pc \in GetPcs, Go(g, pc)
  PROVE  /\ get' \in [Getters -> GetRecord] /\ OnlyGetter(g)
         /\ get'[g].pc = pc /\ get'[g].fd = get[g].fd /\ get'[g].want = get[g].want /\ get'[g].got = get[g].got
<1>1. PICK x : x = [get[g] EXCEPT !.pc = pc]
  OBVIOUS
<1>2. get[g] \in GetRecord /\ get \in [Getters -> GetRecord]
  BY DEF SlotTypes
<1>3. x \in GetRecord /\ x.pc = pc /\ x.fd = get[g].fd /\ x.want = get[g].want /\ x.got = get[g].got
  BY <1>1, <1>2 DEF GetRecord
<1>4. get' = [get EXCEPT ![g] = x]
  BY <1>1, <1>2 DEF Go
<1> QED
  BY <1>2, <1>3, <1>4 DEF OnlyGetter

(* A getter that is not out is not the main thread, unless that is free.   *)
LEMMA SweeperFree ==
  ASSUME FdInv, NEW g \in Getters, get[g].pc # "out"
  PROVE  g = Sweeper => disp.pc = "loop"
BY DEF FdInv, DispRight

(* Steps that only read.                                                   *)
LEMMA GetterReads ==
  ASSUME FdInv, NEW g \in Getters, NEW f \in Fds, OnlyGetter(g), get' \in [Getters -> GetRecord],
         slot' = slot, sock' = sock, disp' = disp, opened' = opened,
         get'[g].fd = f, get[g].fd = f \/ get[g].pc = "out", g = Sweeper => disp.pc = "loop",
         get[g].pc \in {"out", "low", "data"}, get'[g].pc \in {"out", "low", "data", "announce"},
         get'[g].pc # "out" /\ g # Sweeper => get'[g].want # NoSock
  PROVE  FdInv'
<1>1. SlotTypes' /\ OnlySlot(f)
  BY DEF FdInv, SlotTypes, OnlySlot
<1>2. \A s : SameMain(s)
  BY MainStays
<1>3. MainHolds(f)' <=> MainHolds(f)
  BY <1>2, HoldsFrame DEF SameMain
<1>4. g \notin LowBy(f) /\ g \notin LowBy(f)' /\ g \notin HighBy(f) /\ g \notin HighBy(f)'
  BY DEF LowBy, HighBy
<1>5. LowAt(f)' /\ HighAt(f)'
  <2>1. LowBy(f)' = LowBy(f) /\ HighBy(f)' = HighBy(f)
    BY <1>4, GetterSets DEF Apart
  <2> QED
    BY <1>3, <2>1, LowFrame, HighFrame DEF FdInv, SlotsCounted
<1>6. ClearAt(f)'
  <2>1. \A u \in Getters : (Clears(u, f)' => Clears(u, f)) /\ (Takes(u, f)' => Takes(u, f))
    <3>1. ~ Clears(g, f)' /\ ~ Takes(g, f)'
      BY DEF Clears, Takes
    <3> QED
      BY <3>1 DEF OnlyGetter, Clears, Takes
  <2>2. MainClears(f)' => MainClears(f)
    BY DEF MainClears
  <2> QED
    BY <2>1, <2>2, ClearFrame DEF FdInv, ClearRight
<1>7. \A s : g \notin GotBy(s) /\ g \notin GotBy(s)' /\ g \notin HeldBy(s) /\ g \notin HeldBy(s)'
  BY DEF GotBy, HeldBy, GotPcs
<1>8. GetAt(g)'
  BY DEF GetAt, GotPcs
<1> QED
  BY <1>1, <1>5, <1>6, <1>7, <1>8, GetterStep

(* A lookup begins.                                                        *)
LEMMA LookUpStep ==
  ASSUME FdInv, NEW g \in Getters, NEW f \in Fds, NEW want \in AnySock, LookUp(g, f, want)
  PROVE  FdInv'
<1>1. PICK x : x = [pc |-> "low", fd |-> f, want |-> want, got |-> NoSock]
  OBVIOUS
<1>2. x \in GetRecord /\ x.pc = "low" /\ x.fd = f /\ x.want = want
  BY <1>1 DEF GetRecord, GetPcs, AnySock
<1>3. get' = [get EXCEPT ![g] = x] /\ get \in [Getters -> GetRecord]
  BY <1>1 DEF LookUp, FdInv, SlotTypes
<1>4. get' \in [Getters -> GetRecord] /\ get'[g] = x /\ OnlyGetter(g)
  BY <1>2, <1>3 DEF OnlyGetter
<1>5. /\ get[g].pc = "out" /\ (g = Sweeper => disp.pc = "loop") /\ (g # Sweeper => want # NoSock)
      /\ slot' = slot /\ sock' = sock /\ disp' = disp /\ opened' = opened
  BY DEF LookUp, At
<1> QED
  BY <1>2, <1>4, <1>5, GetterReads

(* The two reads before the announcement.                                  *)
LEMMA ReadStep ==
  ASSUME FdInv, NEW g \in Getters, ReadLow(g) \/ ReadData(g)
  PROVE  FdInv'
<1>1. PICK pc \in {"out", "data", "announce"} : Go(g, pc)
  BY DEF ReadLow, ReadData
<1>2. /\ get[g].pc \in {"low", "data"}
      /\ slot' = slot /\ sock' = sock /\ disp' = disp /\ opened' = opened
  BY DEF ReadLow, ReadData, At
<1>3. pc \in GetPcs
  BY <1>1 DEF GetPcs
<1>4. SlotTypes /\ get[g].fd \in Fds
  BY SlotFields DEF FdInv
<1>5. /\ get' \in [Getters -> GetRecord] /\ OnlyGetter(g)
      /\ get'[g].pc = pc /\ get'[g].fd = get[g].fd /\ get'[g].want = get[g].want
  BY <1>1, <1>3, <1>4, GoRight
<1>6. g = Sweeper => disp.pc = "loop"
  BY <1>2, SweeperFree
<1>7. g # Sweeper => get'[g].want # NoSock
  BY <1>2, <1>5 DEF FdInv, GetRight, GetAt
<1> QED
  BY <1>1, <1>2, <1>4, <1>5, <1>6, <1>7, GetterReads

(* The counts of the slot of a getter.                                     *)
LEMMA SlotPut ==
  ASSUME SlotTypes, NEW f \in Fds, NEW x \in SlotRecord, slot' = [slot EXCEPT ![f] = x]
  PROVE  slot' \in [Fds -> SlotRecord] /\ slot'[f] = x /\ OnlySlot(f)
BY DEF SlotTypes, OnlySlot

SameRest(x, y) ==
  /\ y.data = x.data /\ y.queued = x.queued /\ y.armed = x.armed /\ y.ready = x.ready /\ y.of = x.of

(* A slot with another count of references.                                *)
LEMMA SlotLow ==
  ASSUME SlotTypes, NEW f \in Fds, NEW n \in Nat, slot' = [slot EXCEPT ![f].low = n]
  PROVE  /\ slot' \in [Fds -> SlotRecord] /\ OnlySlot(f) /\ SameRest(slot[f], slot'[f])
         /\ slot'[f].low = n /\ slot'[f].high = slot[f].high
<1>1. PICK x : x = [slot[f] EXCEPT !.low = n]
  OBVIOUS
<1>2. slot[f] \in SlotRecord /\ slot \in [Fds -> SlotRecord]
  BY DEF SlotTypes
<1>3. x \in SlotRecord /\ SameRest(slot[f], x) /\ x.low = n /\ x.high = slot[f].high
  BY <1>1, <1>2 DEF SlotRecord, SameRest
<1>4. slot' = [slot EXCEPT ![f] = x]
  BY <1>1, <1>2
<1> QED
  BY <1>3, <1>4, SlotPut

(* A slot with another count of announcements.                             *)
LEMMA SlotHigh ==
  ASSUME SlotTypes, NEW f \in Fds, NEW n \in Nat, slot' = [slot EXCEPT ![f].high = n]
  PROVE  /\ slot' \in [Fds -> SlotRecord] /\ OnlySlot(f) /\ SameRest(slot[f], slot'[f])
         /\ slot'[f].high = n /\ slot'[f].low = slot[f].low
<1>1. PICK x : x = [slot[f] EXCEPT !.high = n]
  OBVIOUS
<1>2. slot[f] \in SlotRecord /\ slot \in [Fds -> SlotRecord]
  BY DEF SlotTypes
<1>3. x \in SlotRecord /\ SameRest(slot[f], x) /\ x.high = n /\ x.low = slot[f].low
  BY <1>1, <1>2 DEF SlotRecord, SameRest
<1>4. slot' = [slot EXCEPT ![f] = x]
  BY <1>1, <1>2
<1> QED
  BY <1>3, <1>4, SlotPut

(* A getter changes the counts of its slot.                                *)
LEMMA GetterCounts ==
  ASSUME FdInv, NEW g \in Getters, NEW pc \in GetPcs, Go(g, pc),
         slot' \in [Fds -> SlotRecord], OnlySlot(get[g].fd),
         SameRest(slot[get[g].fd], slot'[get[g].fd]),
         sock' = sock, disp' = disp, opened' = opened,
         \/ get[g].pc \in {"announce", "withdraw", "take"} /\ pc \in {"out", "announce", "withdraw", "take", "job"}
         \/ get[g].pc = "drop" /\ pc \in {"clear", "look"},
         \/ (g \in LowBy(get[g].fd) <=> pc \in {"job", "drop"}) /\ slot'[get[g].fd].low = slot[get[g].fd].low
         \/ g \notin LowBy(get[g].fd) /\ pc \in {"job", "drop"} /\ slot'[get[g].fd].low = slot[get[g].fd].low + 1
         \/ g \in LowBy(get[g].fd) /\ pc \notin {"job", "drop"} /\ slot'[get[g].fd].low = slot[get[g].fd].low - 1,
         \/ (g \in HighBy(get[g].fd) <=> pc \in {"withdraw", "take"}) /\ slot'[get[g].fd].high = slot[get[g].fd].high
         \/ /\ g \notin HighBy(get[g].fd) /\ pc \in {"withdraw", "take"}
            /\ slot'[get[g].fd].high = slot[get[g].fd].high + 1
         \/ /\ g \in HighBy(get[g].fd) /\ pc \notin {"withdraw", "take"}
            /\ slot'[get[g].fd].high = slot[get[g].fd].high - 1,
         \A f \in Fds : f = get[g].fd => ClearAt(f)'
  PROVE  FdInv'
<1>1. PICK f \in Fds : get[g].fd = f
  BY SlotFields DEF FdInv
<1>2. /\ get' \in [Getters -> GetRecord] /\ OnlyGetter(g)
      /\ get'[g].pc = pc /\ get'[g].fd = f /\ get'[g].want = get[g].want /\ get'[g].got = get[g].got
  BY <1>1, GoRight DEF FdInv
<1>3. SlotTypes'
  BY <1>2 DEF FdInv, SlotTypes
<1>4. \A s : SameMain(s)
  BY MainStays
<1>5. MainHolds(f)' <=> MainHolds(f)
  BY <1>4, HoldsFrame DEF SameMain
<1>6. (g \in LowBy(f)' <=> pc \in {"job", "drop"}) /\ (g \in HighBy(f)' <=> pc \in {"withdraw", "take"})
  BY <1>2 DEF LowBy, HighBy
<1>7. LowAt(f)'
  <2>1. LowAt(f) /\ slot[f].low \in Nat
    BY SlotFields DEF FdInv, SlotsCounted
  <2> QED
    BY <1>1, <1>2, <1>5, <1>6, <2>1, LowChange
<1>8. HighAt(f)'
  BY <1>1, <1>2, <1>6, HighChange DEF FdInv, SlotsCounted
<1>9. \A s : g \in GotBy(s) <=> g \in GotBy(s)'
  BY <1>2 DEF GotBy, GotPcs
<1>10. \A s : g \in HeldBy(s) <=> g \in HeldBy(s)'
  BY <1>2 DEF HeldBy
<1>11. GetAt(g)'
  <2>1. GetAt(g) /\ get[g].pc # "out" /\ pc # "hold"
    BY DEF FdInv, GetRight
  <2>2. pc \in GotPcs => get[g].pc \in GotPcs
    BY DEF GotPcs
  <2> QED
    BY <1>1, <1>2, <2>1, <2>2 DEF GetAt
<1>12. g = Sweeper => disp.pc = "loop"
  BY SweeperFree
<1> QED
  BY <1>1, <1>2, <1>3, <1>7, <1>8, <1>9, <1>10, <1>11, <1>12, GetterStep DEF SameRest

(* The fetch_and_add of 2^32 announces the getter.                         *)
LEMMA AnnounceStep ==
  ASSUME FdInv, NEW g \in Getters, Announce(g)
  PROVE  FdInv'
<1>1. PICK f \in Fds : get[g].fd = f
  BY SlotFields DEF FdInv
<1>2. PICK n : n = slot[f].high + 1
  OBVIOUS
<1>3. n \in Nat
  <2>1. slot[f].high \in Nat
    BY SlotFields DEF FdInv
  <2> QED
    BY <1>2, <2>1, SMTT(30)
<1>4. slot' = [slot EXCEPT ![f].high = n]
  BY <1>1, <1>2 DEF Announce, FdInv, SlotTypes
<1>5. /\ slot' \in [Fds -> SlotRecord] /\ OnlySlot(f) /\ SameRest(slot[f], slot'[f])
      /\ slot'[f].high = n /\ slot'[f].low = slot[f].low
  BY <1>3, <1>4, SlotHigh DEF FdInv
<1>6. PICK pc \in {"take", "withdraw"} : Go(g, pc) /\ (pc = "take" => slot[f].low # 0)
  BY <1>1 DEF Announce
<1>7. /\ get[g].pc = "announce" /\ sock' = sock /\ disp' = disp /\ opened' = opened
  BY DEF Announce, At
<1>8. pc \in GetPcs
  BY <1>6 DEF GetPcs
<1>9. OnlyGetter(g) /\ get'[g].pc = pc /\ get'[g].fd = f
  BY <1>1, <1>6, <1>8, GoRight DEF FdInv
<1>10. g \notin LowBy(f) /\ g \notin HighBy(f) /\ pc \notin {"job", "drop"}
  BY <1>6, <1>7 DEF LowBy, HighBy
<1>11. ClearAt(f)'
  <2>1. ~ Clears(g, f)' /\ \A u \in Getters : u # g => (Clears(u, f)' <=> Clears(u, f)) /\ (Takes(u, f)' <=> Takes(u, f))
    BY <1>6, <1>9 DEF OnlyGetter, Clears, Takes
  <2>2. Closing(f) => Closing(f)'
    BY <1>5, <1>6, <1>9, <2>1 DEF Closing, Takes, SameRest
  <2>3. MainClears(f)' <=> MainClears(f)
    BY <1>7 DEF MainClears
  <2> QED
    BY <2>1, <2>2, <2>3 DEF FdInv, ClearRight, ClearAt
<1> QED
  BY <1>1, <1>2, <1>5, <1>6, <1>7, <1>8, <1>10, <1>11, GetterCounts

(* It is taken back when the slot had no reference.                        *)
LEMMA WithdrawStep ==
  ASSUME FdInv, NEW g \in Getters, Withdraw(g)
  PROVE  FdInv'
<1>1. PICK f \in Fds : get[g].fd = f
  BY SlotFields DEF FdInv
<1>2. PICK n : n = slot[f].high - 1
  OBVIOUS
<1>7. /\ get[g].pc = "withdraw" /\ sock' = sock /\ disp' = disp /\ opened' = opened
  BY DEF Withdraw, At
<1>10. g \notin LowBy(f) /\ g \in HighBy(f)
  BY <1>1, <1>7 DEF LowBy, HighBy
<1>3. n \in Nat
  <2>1. slot[f].high \in Nat /\ HighAt(f)
    BY SlotFields DEF FdInv, SlotsCounted
  <2> QED
    BY <1>2, <1>10, <2>1, HighHeld
<1>4. slot' = [slot EXCEPT ![f].high = n]
  BY <1>1, <1>2 DEF Withdraw, FdInv, SlotTypes
<1>5. /\ slot' \in [Fds -> SlotRecord] /\ OnlySlot(f) /\ SameRest(slot[f], slot'[f])
      /\ slot'[f].high = n /\ slot'[f].low = slot[f].low
  BY <1>3, <1>4, SlotHigh DEF FdInv
<1>6. PICK pc \in {"announce", "out"} : Go(g, pc)
  BY <1>1 DEF Withdraw
<1>8. pc \in GetPcs
  BY <1>6 DEF GetPcs
<1>9. OnlyGetter(g) /\ get'[g].pc = pc /\ get'[g].fd = f
  BY <1>1, <1>6, <1>8, GoRight DEF FdInv
<1>11. ClearAt(f)'
  <2>1. ~ Clears(g, f)' /\ ~ Takes(g, f)'
    BY <1>6, <1>9 DEF Clears, Takes
  <2>2. \A u \in Getters : (Clears(u, f)' => Clears(u, f)) /\ (Takes(u, f)' => Takes(u, f))
    BY <2>1, <1>9 DEF OnlyGetter, Clears, Takes
  <2>3. MainClears(f)' => MainClears(f)
    BY <1>7 DEF MainClears
  <2> QED
    BY <1>5, <2>2, <2>3, ClearFrame DEF FdInv, ClearRight, SameRest
<1>12. pc \notin {"job", "drop", "withdraw", "take"}
  BY <1>6
<1> QED
  BY <1>1, <1>2, <1>5, <1>6, <1>7, <1>8, <1>10, <1>11, <1>12, GetterCounts

(* Or becomes a reference: with one there already nobody clears the slot.  *)
LEMMA TakeRefStep ==
  ASSUME FdInv, NEW g \in Getters, TakeRef(g)
  PROVE  FdInv'
<1>1. PICK f \in Fds : get[g].fd = f
  BY SlotFields DEF FdInv
<1>2. PICK m, n : m = slot[f].high - 1 /\ n = slot[f].low + 1
  OBVIOUS
<1>7. /\ get[g].pc = "take" /\ sock' = sock /\ disp' = disp /\ opened' = opened /\ Go(g, "job")
  BY DEF TakeRef, At
<1>10. g \notin LowBy(f) /\ g \in HighBy(f)
  BY <1>1, <1>7 DEF LowBy, HighBy
<1>13. slot[f].high \in Nat /\ HighAt(f) /\ slot[f].low \in Nat
  BY SlotFields DEF FdInv, SlotsCounted
<1>3. m \in Nat /\ n \in Nat
  <2>1. m \in Nat
    BY <1>2, <1>10, <1>13, HighHeld
  <2>2. n \in Nat
    BY <1>2, <1>13, SMT
  <2> QED
    BY <2>1, <2>2
<1>4. PICK x : x = [slot[f] EXCEPT !.high = m, !.low = n]
  OBVIOUS
<1>14. slot[f] \in SlotRecord
  BY SlotFields DEF FdInv
<1>15. x \in SlotRecord /\ SameRest(slot[f], x) /\ x.high = m /\ x.low = n
  BY <1>3, <1>4, <1>14 DEF SlotRecord, SameRest
<1>16. slot' = [slot EXCEPT ![f] = x]
  BY <1>1, <1>2, <1>4 DEF TakeRef
<1>5. /\ slot' \in [Fds -> SlotRecord] /\ OnlySlot(f) /\ slot'[f] = x
  BY <1>15, <1>16, SlotPut DEF FdInv
<1>8. "job" \in GetPcs
  BY DEF GetPcs
<1>9. OnlyGetter(g) /\ get'[g].pc = "job" /\ get'[g].fd = f
  BY <1>1, <1>7, <1>8, GoRight DEF FdInv
<1>11. ClearAt(f)'
  <2>1. ~ Closing(f)
    BY <1>1, <1>7 DEF Closing, Takes
  <2>2. ~ MainClears(f) /\ \A u \in Getters : ~ Clears(u, f)
    BY <2>1 DEF FdInv, ClearRight, ClearAt
  <2>3. ~ MainClears(f)' /\ \A u \in Getters : ~ Clears(u, f)'
    BY <1>7, <1>9, <2>2 DEF MainClears, Clears, OnlyGetter
  <2> QED
    BY <2>3 DEF ClearAt
<1> QED
  BY <1>1, <1>2, <1>5, <1>7, <1>8, <1>10, <1>11, <1>15, GetterCounts

(* Whoever drops the last reference of a slot clears it alone.             *)
LEMMA NobodyClears ==
  ASSUME FdInv, NEW f \in Fds, slot[f].low # 0
  PROVE  ~ MainClears(f) /\ \A u \in Getters : ~ Clears(u, f)
BY DEF FdInv, ClearRight, ClearAt, Closing

(* No getter is about to take a reference when none is announced.          *)
LEMMA NobodyTakes ==
  ASSUME FdInv, NEW f \in Fds, slot[f].high = 0
  PROVE  \A u \in Getters : ~ Takes(u, f)
<1>1. slot[f].high \in Nat /\ HighAt(f)
  BY SlotFields DEF FdInv, SlotsCounted
<1>2. ASSUME NEW u \in Getters, Takes(u, f) PROVE FALSE
  <2>1. u \in HighBy(f)
    BY <1>2 DEF Takes, HighBy
  <2> QED
    BY <1>1, <2>1, HighHeld
<1> QED
  BY <1>2

(* A getter drops its reference to the slot and may have to clear it.      *)
LEMMA DropRefStep ==
  ASSUME FdInv, NEW g \in Getters, DropRef(g)
  PROVE  FdInv'
<1>1. PICK f \in Fds : get[g].fd = f
  BY SlotFields DEF FdInv
<1>2. PICK n : n = slot[f].low - 1
  OBVIOUS
<1>7. /\ get[g].pc = "drop" /\ sock' = sock /\ disp' = disp /\ opened' = opened
  BY DEF DropRef, At
<1>10. g \in LowBy(f) /\ g \notin HighBy(f)
  BY <1>1, <1>7 DEF LowBy, HighBy
<1>13. slot[f].low \in Nat /\ LowAt(f)
  BY SlotFields DEF FdInv, SlotsCounted
<1>3. n \in Nat /\ slot[f].low # 0
  BY <1>2, <1>10, <1>13, LowHeld
<1>4. slot' = [slot EXCEPT ![f].low = n]
  BY <1>1, <1>2 DEF DropRef, FdInv, SlotTypes
<1>5. /\ slot' \in [Fds -> SlotRecord] /\ OnlySlot(f) /\ SameRest(slot[f], slot'[f])
      /\ slot'[f].low = n /\ slot'[f].high = slot[f].high
  BY <1>3, <1>4, SlotLow DEF FdInv
<1>6. PICK pc \in {"clear", "look"} : Go(g, pc) /\ (pc = "clear" => MustClear(f))
  BY <1>1 DEF DropRef
<1>8. pc \in GetPcs
  BY <1>6 DEF GetPcs, GotPcs
<1>9. OnlyGetter(g) /\ get'[g].pc = pc /\ get'[g].fd = f
  BY <1>1, <1>6, <1>8, GoRight DEF FdInv
<1>11. ClearAt(f)'
  <2>1. ~ MainClears(f)' /\ \A u \in Getters : u # g => ~ Clears(u, f)'
    BY <1>3, <1>7, <1>9, NobodyClears DEF MainClears, Clears, OnlyGetter
  <2>2. ASSUME Clears(g, f)' PROVE Closing(f)'
    <3>1. slot[f].low = 1 /\ slot[f].high = 0 /\ slot[f].data # NoSock
      BY <1>6, <1>9, <2>2 DEF Clears, MustClear
    <3>2. n = 0
      BY <1>2, <3>1, SMT
    <3>3. \A u \in Getters : ~ Takes(u, f)'
      BY <1>6, <1>9, <3>1, NobodyTakes DEF OnlyGetter, Takes
    <3> QED
      BY <1>5, <3>1, <3>2, <3>3 DEF Closing, SameRest
  <2> QED
    BY <2>1, <2>2 DEF ClearAt
<1>12. pc \notin {"job", "drop", "withdraw", "take"}
  BY <1>6
<1> QED
  BY <1>1, <1>2, <1>5, <1>6, <1>7, <1>8, <1>10, <1>11, <1>12, GetterCounts

-----------------------------------------------------------------------------
(* Steps that change one socket.                                           *)

(* Nothing about the slots but an event that goes.                         *)
SlotsKept ==
  \A e \in Fds : /\ slot'[e].low = slot[e].low /\ slot'[e].high = slot[e].high /\ slot'[e].of = slot[e].of
                 /\ slot'[e].queued => slot[e].queued
                 /\ slot'[e].armed => slot[e].armed
GettersCountSame == \A f \in Fds : LowBy(f)' = LowBy(f) /\ HighBy(f)' = HighBy(f)
OthersCountSame(s) == \A r \in Socks : r # s => GotBy(r)' = GotBy(r) /\ HeldBy(r)' = HeldBy(r)
GettersRight == \A u \in Getters : get'[u] = get[u] \/ GetAt(u)'

(* The counts of slots that keep them.                                     *)
LEMMA CountsFrame ==
  ASSUME FdInv, SlotsKept, GettersCountSame,
         \A r \in Socks : sock'[r].fd = sock[r].fd /\ (Counted(r)' <=> Counted(r))
  PROVE  SlotsCounted'
<1>1. \A f : MainHolds(f)' <=> MainHolds(f)
  BY HoldsFrame
<1>2. ASSUME NEW f \in Fds PROVE LowAt(f)' /\ HighAt(f)'
  BY <1>1, LowFrame, HighFrame DEF FdInv, SlotsCounted, SlotsKept, GettersCountSame
<1> QED
  BY <1>2 DEF SlotsCounted

(* The socket stays as it is for the slots; its counts or flags change.    *)
LEMMA SockKeep ==
  ASSUME FdInv, NEW s \in Socks, SlotTypes', OnlySock(s), disp' = disp, opened' = opened,
         sock'[s].st = sock[s].st, sock'[s].fd = sock[s].fd, sock'[s].error = sock[s].error,
         LifeAt(s)', Failing(s) => ~ sock'[s].abort, SlotsKept,
         \A e \in Fds : slot'[e].data = slot[e].data,
         GettersCountSame, OthersCountSame(s), GettersRight,
         \A f \in Fds, u \in Getters : (Clears(u, f)' => Clears(u, f)) /\ (Takes(u, f)' => Takes(u, f)),
         disp.pc # "loop" => get'[Sweeper].pc = "out",
         RefsAt(s)', ConnAt(s)'
  PROVE  FdInv'
<1>1. \A r \in Socks : sock'[r].st = sock[r].st /\ sock'[r].fd = sock[r].fd /\ sock'[r].error = sock[r].error
  BY DEF OnlySock
<1>2. \A r \in Socks : SameMain(r)
  BY <1>1, MainStays
<1>3. OpenedRight'
  BY <1>1, OpenedFrame DEF FdInv
<1>4. LifeRight'
  BY LifeFrame DEF FdInv, OnlySock
<1>5. DispRight'
  <2>1. ASSUME disp.pc # "loop" PROVE DispRight'
    <3>1. PICK x \in Socks :
            /\ disp.s = x /\ Live(x) /\ sock[x].fd = disp.fd
            /\ disp.pc \in SetupPcs => ~ sock[x].error
            /\ disp.pc \in FailPcs => sock[x].error /\ ~ sock[x].abort
      BY <2>1 DEF FdInv, DispRight
    <3>2. disp.pc \in FailPcs => ~ sock'[x].abort
      BY <3>1 DEF Failing, OnlySock
    <3> QED
      BY <1>1, <2>1, <3>1, <3>2 DEF DispRight, Live
  <2> QED
    BY <2>1 DEF DispRight
<1>6. SlotsCounted'
  BY <1>1, <1>2, CountsFrame DEF SameMain
<1>7. DataRight'
  <2>1. ASSUME NEW e \in Fds, NEW r \in Socks PROVE DataAt(e, r)'
    <3>1. DataAt(e, r) /\ slot'[e].data = slot[e].data /\ sock'[r].fd = sock[r].fd /\ (Live(r)' <=> Live(r))
      BY <1>1 DEF FdInv, DataRight, Live
    <3>2. (Setup(r)' <=> Setup(r)) /\ (Counted(r)' <=> Counted(r))
      BY <1>2 DEF SameMain
    <3> QED
      BY <3>1, <3>2 DEF DataAt
  <2> QED
    BY <2>1 DEF DataRight
<1>8. ClearRight'
  <2>1. \A f \in Fds : MainClears(f)' => MainClears(f)
    BY DEF MainClears
  <2> QED
    BY <2>1, ClearFrame DEF FdInv, ClearRight, SlotsKept
<1>9. SocksCounted'
  <2>1. ASSUME NEW r \in Socks, r # s PROVE RefsAt(r)' /\ ConnAt(r)'
    <3>1. SameSock(r) /\ SameMain(r) /\ sock'[r] = sock[r] /\ GotBy(r)' = GotBy(r) /\ HeldBy(r)' = HeldBy(r)
      BY <1>2, <2>1 DEF SameSock, OnlySock, OthersCountSame
    <3> QED
      BY <3>1, RefsFrame, ConnFrame DEF FdInv, SocksCounted
  <2> QED
    BY <2>1 DEF SocksCounted
<1>10. GetRight'
  BY <1>1, GetFrame DEF FdInv, GetRight, GettersRight
<1>11. EventsRight'
  <2>1. ASSUME NEW f \in Fds, NEW r \in Socks
        PROVE  (Served(f, r)' <=> Served(f, r)) /\ (Failing(r)' <=> Failing(r))
    BY <1>1, <1>2 DEF Served, SameMain, Live
  <2>2. ASSUME NEW f \in Fds PROVE EventAt(f)'
    <3>1. EventAt(f)
      BY DEF FdInv, EventsRight
    <3>2. /\ slot'[f].of = slot[f].of
          /\ slot'[f].queued => slot[f].queued
          /\ slot'[f].armed => slot[f].armed
      BY DEF SlotsKept
    <3> QED
      BY <1>1, <2>1, <3>1, <3>2 DEF EventAt
  <2> QED
    BY <2>2 DEF EventsRight
<1> QED
  BY <1>3, <1>4, <1>5, <1>6, <1>7, <1>8, <1>9, <1>10, <1>11 DEF FdInv

(* A reference to a live socket is dropped: with the last one it is freed. *)
ByConn(s) == IF sock[s].closed THEN 0 ELSE 1
ByJob(s) == IF sock[s].refs = 0 THEN 0 ELSE 1
LeftRefs(s) == sock[s].refs = FromSlot(s) + ByConn(s) + FromSignal(s) + FromMain(s) + Cardinality(GotBy(s))
LeftConn(s) == sock[s].conn = ByJob(s) + Cardinality(HeldBy(s))

(* What is known when the last reference has gone.                         *)
LEMMA LastRef ==
  ASSUME NEW s \in Socks, LeftRefs(s)', sock'[s].refs = 0
  PROVE  ~ PointsTo(s)' /\ sock'[s].closed /\ ~ sock'[s].abort /\ ~ Failing(s)' /\ Cardinality(GotBy(s)') = 0
<1>1. PICK a, b, c, d, k :
        /\ a = FromSlot(s)' /\ b = ByConn(s)' /\ c = FromSignal(s)' /\ d = FromMain(s)'
        /\ k = Cardinality(GotBy(s)')
  OBVIOUS
<1>2. a \in {0, 1} /\ c \in {0, 1} /\ d \in {0, 1} /\ k \in Nat
  BY <1>1, CountPartsNext
<1>3. b \in {0, 1}
  BY <1>1 DEF ByConn
<1>4. 0 = a + b + c + d + k
  BY <1>1 DEF LeftRefs
<1>5. a = 0 /\ b = 0 /\ c = 0 /\ d = 0 /\ k = 0
  BY <1>2, <1>3, <1>4, SMTT(30)
<1>6. 1 # 0
  BY SMT
<1>7. ~ PointsTo(s)'
  BY <1>1, <1>5, <1>6 DEF FromSlot
<1>8. sock'[s].closed
  BY <1>1, <1>5, <1>6 DEF ByConn
<1>9. ~ sock'[s].abort
  BY <1>1, <1>5, <1>6 DEF FromSignal
<1>10. ~ Failing(s)'
  BY <1>1, <1>5, <1>6 DEF FromMain
<1> QED
  BY <1>1, <1>5, <1>7, <1>8, <1>9, <1>10

DispGoesOn ==
  disp'.pc # "loop" =>
    /\ get'[Sweeper].pc = "out" /\ disp.pc # "loop" /\ disp'.s = disp.s /\ disp'.fd = disp.fd
    /\ disp'.pc \in SetupPcs <=> disp.pc \in SetupPcs
    /\ disp'.pc \in FailPcs <=> disp.pc \in FailPcs

(* A socket that loses a reference, the last one or not; all else stays.   *)
LEMMA SockDrop ==
  ASSUME FdInv, NEW s \in Socks, Live(s), SlotTypes', OnlySock(s), opened' = opened,
         sock'[s].fd = sock[s].fd, sock'[s].error = sock[s].error, sock'[s].abort = sock[s].abort,
         LeftRefs(s)', LeftConn(s)',
         sock'[s].st = IF sock'[s].refs = 0 THEN "freed" ELSE "open",
         DispGoesOn, \A r \in Socks : (Setup(r)' <=> Setup(r)) /\ (r # s => (Failing(r)' <=> Failing(r))),
         \A r \in Socks : r # s => (Counted(r)' <=> Counted(r)),
         sock'[s].refs # 0 => (Counted(s)' <=> Counted(s)), sock'[s].refs = 0 => ~ Counted(s),
         Failing(s) => Failing(s)' \/ ~ slot'[sock[s].fd].armed,
         SlotsKept,
         \A e \in Fds : slot'[e].data = slot[e].data \/ (slot[e].data = s /\ slot'[e].data = NoSock /\ ~ Counted(s)),
         GettersCountSame, OthersCountSame(s), GettersRight, ClearRight'
  PROVE  FdInv'
<1>1. sock'[s].refs \in Nat /\ (sock'[s].refs # 0 <=> sock'[s].refs > 0)
  <2>1. sock'[s].refs \in Nat
    BY DEF SlotTypes, SockRecord
  <2>2. PICK n \in Nat : n = sock'[s].refs
    BY <2>1
  <2>3. n # 0 <=> n > 0
    BY SMT
  <2> QED
    BY <2>2, <2>3
<1>2. \A r \in Socks : /\ sock'[r].fd = sock[r].fd /\ sock'[r].error = sock[r].error /\ sock'[r].abort = sock[r].abort
                       /\ r # s => sock'[r].st = sock[r].st
  BY DEF OnlySock
<1>3. sock'[s].st \in {"open", "freed"} /\ sock[s].st = "open"
  BY DEF Live
<1>4. \A r \in Socks : Counted(r)' <=> Counted(r)
  BY DEF Counted, Live
<1>5. OpenedRight'
  BY <1>2, <1>3, OpenedFrame DEF FdInv
<1>6. LifeRight'
  <2>1. sock'[s].st # "new" /\ sock'[s].st # "gone" /\ (sock'[s].st = "freed" => sock'[s].closed)
    BY <1>3, LastRef
  <2>2. LifeAt(s)'
    BY <1>1, <1>3, <2>1 DEF LifeAt, Live, FdInv, LifeRight
  <2> QED
    BY <2>2, LifeFrame DEF FdInv, OnlySock
<1>7. DispRight'
  <2>1. ASSUME disp'.pc # "loop" PROVE DispRight'
    <3>1. PICK x \in Socks :
            /\ disp.s = x /\ Live(x) /\ sock[x].fd = disp.fd
            /\ disp.pc \in SetupPcs => ~ sock[x].error
            /\ disp.pc \in FailPcs => sock[x].error /\ ~ sock[x].abort
      BY <2>1 DEF FdInv, DispRight, DispGoesOn
    <3>2. disp'.pc \in SetupPcs \/ disp'.pc \in FailPcs
      <4>1. disp'.pc \in DispPcs
        BY DEF SlotTypes, DispRecord
      <4> QED
        BY <2>1, <4>1 DEF DispPcs
    <3>3. Live(x)'
      <4>1. CASE x = s
        <5>1. Setup(s)' \/ Failing(s)'
          BY <2>1, <3>1, <3>2, <4>1 DEF Setup, Failing, DispGoesOn
        <5>2. sock'[s].refs # 0
          BY <5>1, LastRef DEF PointsTo
        <5> QED
          BY <4>1, <5>2 DEF Live
      <4>2. CASE x # s
        BY <1>2, <3>1, <4>2 DEF Live
      <4> QED
        BY <4>1, <4>2
    <3> QED
      BY <1>2, <2>1, <3>1, <3>3 DEF DispRight, DispGoesOn
  <2> QED
    BY <2>1 DEF DispRight
<1>8. SlotsCounted'
  BY <1>2, <1>4, CountsFrame
<1>9. DataRight'
  <2>1. ASSUME NEW e \in Fds, NEW r \in Socks PROVE DataAt(e, r)'
    <3>1. DataAt(e, r)
      BY DEF FdInv, DataRight
    <3>2. NoSock # r
      BY SlotConstants
    <3>3. ASSUME slot'[e].data = r PROVE slot[e].data = r /\ Live(r)'
      <4>1. slot[e].data = r
        BY <3>2, <3>3
      <4>2. CASE r = s
        <5>1. PointsTo(s)'
          BY <3>3, <4>2 DEF PointsTo
        <5> QED
          BY <4>1, <4>2, <5>1, LastRef DEF Live
      <4>3. CASE r # s
        BY <1>2, <3>1, <4>1, <4>3 DEF DataAt, Live
      <4> QED
        BY <4>1, <4>2, <4>3
    <3>4. slot'[e].data = r => Live(r)' /\ sock'[r].fd = e /\ ~ Setup(r)'
      BY <1>2, <3>1, <3>3 DEF DataAt
    <3>5. Counted(r)' /\ ~ Setup(r)' /\ sock'[r].fd = e => slot'[e].data = r
      BY <1>2, <1>4, <3>1 DEF DataAt
    <3> QED
      BY <3>4, <3>5 DEF DataAt
  <2> QED
    BY <2>1 DEF DataRight
<1>10. RefsAt(s)' /\ ConnAt(s)'
  <2>1. CASE sock'[s].refs # 0
    <3>1. FromConn(s)' = ByConn(s)' /\ FromSock(s)' = ByJob(s)'
      BY <2>1 DEF FromConn, ByConn, FromSock, ByJob, Live
    <3> QED
      BY <3>1 DEF RefsAt, ConnAt, LeftRefs, LeftConn
  <2>2. CASE sock'[s].refs = 0
    <3>1. sock'[s].closed
      BY <2>2, LastRef
    <3>2. FromConn(s)' = ByConn(s)' /\ FromSock(s)' = ByJob(s)'
      BY <2>2, <3>1 DEF FromConn, ByConn, FromSock, ByJob, Live
    <3> QED
      BY <3>2 DEF RefsAt, ConnAt, LeftRefs, LeftConn
  <2> QED
    BY <2>1, <2>2
<1>11. SocksCounted'
  <2>1. ASSUME NEW r \in Socks, r # s PROVE RefsAt(r)' /\ ConnAt(r)'
    <3>1. sock'[r] = sock[r] /\ GotBy(r)' = GotBy(r) /\ HeldBy(r)' = HeldBy(r)
      BY <2>1 DEF OnlySock, OthersCountSame
    <3>2. SameSock(r) /\ SameMain(r)
      BY <1>4, <2>1, <3>1 DEF SameSock, SameMain
    <3>3. \A e \in Fds : slot'[e].data = r <=> slot[e].data = r
      BY <2>1, SlotConstants
    <3> QED
      BY <3>1, <3>2, <3>3, RefsFrame, ConnFrame DEF FdInv, SocksCounted
  <2> QED
    BY <1>10, <2>1 DEF SocksCounted
<1>12. GetRight'
  <2>1. \A r \in Socks : sock[r].st # "new" => sock'[r].st # "new"
    BY <1>2, <1>3
  <2> QED
    BY <1>2, <2>1, GetFrame DEF FdInv, GetRight, GettersRight
<1>13. EventsRight'
  <2>1. ASSUME NEW f \in Fds, NEW r \in Socks, Served(f, r), r # s \/ sock'[s].refs # 0 PROVE Served(f, r)'
    BY <1>2, <2>1 DEF Served, Live
  <2>2. ASSUME sock'[s].refs = 0, ~ Setup(s) PROVE sock[s].error
    BY <2>2 DEF Counted, Live, Setup
  <2>3. ASSUME NEW f \in Fds PROVE EventAt(f)'
    <3>1. EventAt(f)
      BY DEF FdInv, EventsRight
    <3>2. ASSUME slot'[f].queued
          PROVE  \E r \in Socks : Served(f, r)' /\ ~ sock'[r].error /\ slot'[f].of = r
      <4>1. PICK r \in Socks : Served(f, r) /\ ~ sock[r].error /\ slot[f].of = r
        BY <3>1, <3>2 DEF EventAt, SlotsKept
      <4>2. r # s \/ sock'[s].refs # 0
        BY <2>2, <4>1 DEF Served
      <4> QED
        BY <1>2, <2>1, <4>1, <4>2 DEF SlotsKept
    <3>3. ASSUME slot'[f].armed
          PROVE  \E r \in Socks : Served(f, r)' /\ (sock'[r].error => Failing(r)')
      <4>1. PICK r \in Socks : Served(f, r) /\ (sock[r].error => Failing(r))
        BY <3>1, <3>3 DEF EventAt, SlotsKept
      <4>2. CASE r # s
        BY <1>2, <2>1, <4>1, <4>2
      <4>3. CASE r = s
        <5>1. sock[s].fd = f
          <6>1. opened[f] = s
            BY <4>1, <4>3 DEF Served
          <6>2. OpenedRight
            BY DEF FdInv
          <6> QED
            BY <6>1, <6>2 DEF OpenedRight
        <5>2. sock[s].error => Failing(s)'
          BY <3>3, <4>1, <4>3, <5>1
        <5>3. sock'[s].refs # 0
          BY <2>2, <4>1, <4>3, <5>2, LastRef DEF Served
        <5> QED
          BY <1>2, <2>1, <4>1, <4>3, <5>2, <5>3
      <4> QED
        BY <4>2, <4>3
    <3> QED
      BY <3>2, <3>3 DEF EventAt
  <2> QED
    BY <2>3 DEF EventsRight
<1> QED
  BY <1>5, <1>6, <1>7, <1>8, <1>9, <1>11, <1>12, <1>13 DEF FdInv

(* The counts of a live socket as one part of them changes.                *)
LEMMA LiveCounts ==
  ASSUME FdInv, NEW s \in Socks, Live(s)
  PROVE  LeftRefs(s) /\ LeftConn(s) /\ sock[s].refs # 0 /\ sock[s].conn - 1 \in Nat
<1>1. RefsAt(s) /\ ConnAt(s) /\ LifeAt(s) /\ sock[s].refs \in Nat /\ sock[s].conn \in Nat
  BY SlotFields DEF FdInv, SocksCounted, LifeRight
<1>2. sock[s].refs # 0
  <2>1. sock[s].refs > 0
    BY <1>1 DEF LifeAt
  <2>2. PICK n \in Nat : n = sock[s].refs
    BY <1>1
  <2>3. n > 0 => n # 0
    BY SMT
  <2> QED
    BY <2>1, <2>2, <2>3
<1>3. FromConn(s) = ByConn(s)
  BY DEF FromConn, ByConn
<1>4. FromSock(s) = 1 /\ ByJob(s) = 1
  BY <1>2 DEF FromSock, ByJob
<1>5. PICK n, k : n = sock[s].conn /\ k = Cardinality(HeldBy(s))
  OBVIOUS
<1>6. n = 1 + k /\ n \in Nat /\ k \in Nat
  BY <1>1, <1>4, <1>5, CountParts DEF ConnAt
<1>7. n - 1 \in Nat
  BY <1>6, SMT
<1> QED
  BY <1>1, <1>2, <1>3, <1>4, <1>5, <1>7 DEF RefsAt, LeftRefs, ConnAt, LeftConn

SlotPart(s) == FromSlot(s)' = FromSlot(s)
ConnPart(s) == ByConn(s)' = ByConn(s)
SignalPart(s) == FromSignal(s)' = FromSignal(s)
MainPart(s) == FromMain(s)' = FromMain(s)
GotPart(s) == Cardinality(GotBy(s)') = Cardinality(GotBy(s))

(* A reference less in one part of the sum.                                *)
LEMMA OneLess ==
  ASSUME NEW s \in Socks, LeftRefs(s), sock'[s].refs = sock[s].refs - 1,
         \/ /\ FromSlot(s) = 1 /\ FromSlot(s)' = 0
            /\ ConnPart(s) /\ SignalPart(s) /\ MainPart(s) /\ GotPart(s)
         \/ /\ ByConn(s) = 1 /\ ByConn(s)' = 0
            /\ SlotPart(s) /\ SignalPart(s) /\ MainPart(s) /\ GotPart(s)
         \/ /\ FromMain(s) = 1 /\ FromMain(s)' = 0
            /\ SlotPart(s) /\ ConnPart(s) /\ SignalPart(s) /\ GotPart(s)
         \/ /\ Cardinality(GotBy(s)') = Cardinality(GotBy(s)) - 1
            /\ SlotPart(s) /\ ConnPart(s) /\ SignalPart(s) /\ MainPart(s)
  PROVE  LeftRefs(s)'
<1>1. PICK n, a, b, c, d, k :
        /\ n = sock[s].refs /\ a = FromSlot(s) /\ b = ByConn(s) /\ c = FromSignal(s) /\ d = FromMain(s)
        /\ k = Cardinality(GotBy(s))
  OBVIOUS
<1>2. PICK nn, aa, bb, cc, dd, kk :
        /\ nn = sock'[s].refs /\ aa = FromSlot(s)' /\ bb = ByConn(s)' /\ cc = FromSignal(s)' /\ dd = FromMain(s)'
        /\ kk = Cardinality(GotBy(s)')
  OBVIOUS
<1>3. a \in {0, 1} /\ c \in {0, 1} /\ d \in {0, 1} /\ k \in Nat
  BY <1>1, CountParts
<1>4. b \in {0, 1}
  BY <1>1 DEF ByConn
<1>5. n = a + b + c + d + k
  BY <1>1 DEF LeftRefs
<1>6. nn = n - 1
  BY <1>1, <1>2
<1>7. \/ a = 1 /\ aa = 0 /\ bb = b /\ cc = c /\ dd = d /\ kk = k
      \/ b = 1 /\ bb = 0 /\ aa = a /\ cc = c /\ dd = d /\ kk = k
      \/ d = 1 /\ dd = 0 /\ aa = a /\ bb = b /\ cc = c /\ kk = k
      \/ kk = k - 1 /\ aa = a /\ bb = b /\ cc = c /\ dd = d
  BY <1>1, <1>2 DEF SlotPart, ConnPart, SignalPart, MainPart, GotPart
<1>8. nn = aa + bb + cc + dd + kk
  BY <1>3, <1>4, <1>5, <1>6, <1>7, SMTT(30)
<1> QED
  BY <1>2, <1>8 DEF LeftRefs

(* A reference more in one part, or moved from one part to another.        *)
LEMMA OneMoreOrMoved ==
  ASSUME NEW s \in Socks, LeftRefs(s), SlotPart(s),
         \/ /\ Cardinality(GotBy(s)') = Cardinality(GotBy(s)) + 1 /\ sock'[s].refs = sock[s].refs + 1
            /\ ConnPart(s) /\ SignalPart(s) /\ MainPart(s)
         \/ /\ FromSignal(s) = 0 /\ FromSignal(s)' = 1 /\ sock'[s].refs = sock[s].refs + 1
            /\ ConnPart(s) /\ MainPart(s) /\ GotPart(s)
         \/ /\ ByConn(s) = 1 /\ ByConn(s)' = 0 /\ FromSignal(s) = 0 /\ FromSignal(s)' = 1
            /\ sock'[s].refs = sock[s].refs /\ MainPart(s) /\ GotPart(s)
         \/ /\ FromSignal(s) = 1 /\ FromSignal(s)' = 0 /\ FromMain(s) = 0 /\ FromMain(s)' = 1
            /\ sock'[s].refs = sock[s].refs /\ ConnPart(s) /\ GotPart(s)
         \/ /\ sock'[s].refs = sock[s].refs /\ ConnPart(s) /\ SignalPart(s) /\ MainPart(s) /\ GotPart(s)
  PROVE  LeftRefs(s)'
<1>1. PICK n, a, b, c, d, k :
        /\ n = sock[s].refs /\ a = FromSlot(s) /\ b = ByConn(s) /\ c = FromSignal(s) /\ d = FromMain(s)
        /\ k = Cardinality(GotBy(s))
  OBVIOUS
<1>2. PICK nn, aa, bb, cc, dd, kk :
        /\ nn = sock'[s].refs /\ aa = FromSlot(s)' /\ bb = ByConn(s)' /\ cc = FromSignal(s)' /\ dd = FromMain(s)'
        /\ kk = Cardinality(GotBy(s)')
  OBVIOUS
<1>3. a \in {0, 1} /\ c \in {0, 1} /\ d \in {0, 1} /\ k \in Nat
  BY <1>1, CountParts
<1>4. b \in {0, 1}
  BY <1>1 DEF ByConn
<1>5. n = a + b + c + d + k
  BY <1>1 DEF LeftRefs
<1>6. aa = a
  BY <1>1, <1>2 DEF SlotPart
<1>7. \/ kk = k + 1 /\ nn = n + 1 /\ bb = b /\ cc = c /\ dd = d
      \/ c = 0 /\ cc = 1 /\ nn = n + 1 /\ bb = b /\ dd = d /\ kk = k
      \/ b = 1 /\ bb = 0 /\ c = 0 /\ cc = 1 /\ nn = n /\ dd = d /\ kk = k
      \/ c = 1 /\ cc = 0 /\ d = 0 /\ dd = 1 /\ nn = n /\ bb = b /\ kk = k
      \/ nn = n /\ bb = b /\ cc = c /\ dd = d /\ kk = k
  BY <1>1, <1>2 DEF ConnPart, SignalPart, MainPart, GotPart
<1>8. nn = aa + bb + cc + dd + kk
  BY <1>3, <1>4, <1>5, <1>6, <1>7, SMTT(30)
<1> QED
  BY <1>2, <1>8 DEF LeftRefs

(* The same for the references to the connection.                          *)
LEMMA ConnLeft ==
  ASSUME NEW s \in Socks, LeftConn(s), sock[s].refs # 0, sock[s].conn \in Nat,
         \/ Cardinality(HeldBy(s)') = Cardinality(HeldBy(s)) /\ sock'[s].refs # 0 /\ sock'[s].conn = sock[s].conn
         \/ Cardinality(HeldBy(s)') = Cardinality(HeldBy(s)) /\ sock'[s].refs = 0 /\ sock'[s].conn = sock[s].conn - 1
         \/ Cardinality(HeldBy(s)') = Cardinality(HeldBy(s)) + 1 /\ sock'[s].refs # 0 /\ sock'[s].conn = sock[s].conn + 1
         \/ Cardinality(HeldBy(s)') = Cardinality(HeldBy(s)) + 1 /\ sock'[s].refs = 0 /\ sock'[s].conn = sock[s].conn
  PROVE  LeftConn(s)'
<1>1. PICK n, k, nn, kk, j :
        /\ n = sock[s].conn /\ k = Cardinality(HeldBy(s)) /\ nn = sock'[s].conn /\ kk = Cardinality(HeldBy(s)')
        /\ j = ByJob(s)'
  OBVIOUS
<1>2. n = 1 + k /\ k \in Nat /\ n \in Nat
  BY <1>1, CountParts DEF LeftConn, ByJob
<1>3. \/ j = 1 /\ kk = k /\ nn = n
      \/ j = 0 /\ kk = k /\ nn = n - 1
      \/ j = 1 /\ kk = k + 1 /\ nn = n + 1
      \/ j = 0 /\ kk = k + 1 /\ nn = n
  BY <1>1 DEF ByJob
<1>4. nn = j + kk
  BY <1>2, <1>3, SMTT(30)
<1> QED
  BY <1>1, <1>4 DEF LeftConn

(* What a drop does to the socket.                                         *)
Dropped(t, s, y) ==
  /\ y \in [Socks -> SockRecord] /\ \A r \in Socks : r # s => y[r] = t[r]
  /\ y[s].fd = t[s].fd /\ y[s].error = t[s].error /\ y[s].abort = t[s].abort /\ y[s].closed = t[s].closed
  /\ y[s].refs = t[s].refs - 1
  /\ y[s].st = IF y[s].refs = 0 THEN "freed" ELSE t[s].st
  /\ y[s].conn = IF y[s].refs = 0 THEN t[s].conn - 1 ELSE t[s].conn

(* What DropSock does to the socket, and to no other.                      *)
LEMMA DropEffect ==
  ASSUME NEW t \in [Socks -> SockRecord], NEW s \in Socks, t[s].refs # 0, t[s].conn - 1 \in Nat
  PROVE  Dropped(t, s, DropSock(t, s))
<1>7. PICK y : y = DropSock(t, s)
  OBVIOUS
<1>1. t[s] \in SockRecord
  OBVIOUS
<1>2. PICK n : n = t[s].refs
  OBVIOUS
<1>3. n \in Nat /\ n # 0
  BY <1>1, <1>2 DEF SockRecord
<1>4. (n > 1 => n - 1 \in Nat /\ n - 1 # 0) /\ (~ (n > 1) => 0 = n - 1)
  BY <1>3, SMT
<1>5. CASE n > 1
  <2>1. PICK x : x = [t[s] EXCEPT !.refs = n - 1]
    OBVIOUS
  <2>2. /\ x \in SockRecord /\ x.refs = n - 1 /\ x.st = t[s].st /\ x.conn = t[s].conn
        /\ x.fd = t[s].fd /\ x.error = t[s].error /\ x.abort = t[s].abort /\ x.closed = t[s].closed
    BY <1>1, <1>4, <1>5, <2>1 DEF SockRecord
  <2>3. y = [t EXCEPT ![s] = x]
    BY <1>2, <1>5, <1>7, <2>1 DEF DropSock
  <2> QED
    BY <1>2, <1>4, <1>5, <1>7, <2>2, <2>3 DEF Dropped
<1>6. CASE ~ (n > 1)
  <2>1. PICK x : x = [t[s] EXCEPT !.refs = 0, !.st = "freed", !.conn = @ - 1, !.failed = TRUE]
    OBVIOUS
  <2>2. /\ x \in SockRecord /\ x.refs = 0 /\ x.st = "freed" /\ x.conn = t[s].conn - 1
        /\ x.fd = t[s].fd /\ x.error = t[s].error /\ x.abort = t[s].abort /\ x.closed = t[s].closed
    BY <1>1, <2>1 DEF SockRecord
  <2>3. y = [t EXCEPT ![s] = x]
    BY <1>2, <1>6, <1>7, <2>1 DEF DropSock
  <2> QED
    BY <1>2, <1>4, <1>6, <1>7, <2>2, <2>3 DEF Dropped
<1> QED
  BY <1>5, <1>6

(* A socket is replaced, the others stay.                                  *)
LEMMA SockPut ==
  ASSUME SlotTypes, NEW s \in Socks, NEW x \in SockRecord, sock' = [sock EXCEPT ![s] = x]
  PROVE  sock' \in [Socks -> SockRecord] /\ sock'[s] = x /\ OnlySock(s)
BY DEF SlotTypes, OnlySock

-----------------------------------------------------------------------------
(* Steps of a getter with a socket.                                        *)

(* The step of the getter changes no count of a slot.                      *)
LEMMA SlotCountsStay ==
  ASSUME NEW g \in Getters, OnlyGetter(g), get'[g].fd = get[g].fd,
         get[g].pc \in {"job", "drop"} <=> get'[g].pc \in {"job", "drop"},
         get[g].pc \in {"withdraw", "take"} <=> get'[g].pc \in {"withdraw", "take"}
  PROVE  GettersCountSame
<1>1. \A f : (g \in LowBy(f) <=> g \in LowBy(f)') /\ (g \in HighBy(f) <=> g \in HighBy(f)')
  BY DEF LowBy, HighBy
<1> QED
  BY <1>1, GetterSets DEF Apart, GettersCountSame

(* What the slot of a getter points to.                                    *)
LEMMA DataLive ==
  ASSUME FdInv, NEW f \in Fds, NEW s \in Socks, slot[f].data = s
  PROVE  Live(s) /\ sock[s].fd = f /\ ~ Setup(s)
BY DEF FdInv, DataRight, DataAt

(* The getter takes the job out of a slot that has one.                    *)
LEMMA TakeJobStep ==
  ASSUME FdInv, NEW g \in Getters, TakeJob(g), slot[get[g].fd].data # NoSock
  PROVE  FdInv'
<1>1. PICK f \in Fds : get[g].fd = f
  BY SlotFields DEF FdInv
<1>2. PICK s \in Socks : slot[f].data = s
  BY <1>1, SlotFields DEF FdInv, AnySock
<1>3. Live(s) /\ sock[s].fd = f /\ ~ Setup(s)
  BY <1>2, DataLive
<1>4. SlotTypes /\ sock[s] \in SockRecord /\ get[g] \in GetRecord /\ sock[s].refs \in Nat
  BY SlotFields DEF FdInv
<1>5. /\ get[g].pc = "job" /\ slot' = slot /\ disp' = disp /\ opened' = opened
      /\ get' = [get EXCEPT ![g] = [@ EXCEPT !.pc = "drop", !.got = s]]
      /\ sock' = [sock EXCEPT ![s].refs = @ + 1]
  BY <1>1, <1>2 DEF TakeJob, At
<1>6. PICK x : x = [get[g] EXCEPT !.pc = "drop", !.got = s]
  OBVIOUS
<1>7. x \in GetRecord /\ x.pc = "drop" /\ x.got = s /\ x.fd = f /\ x.want = get[g].want
  BY <1>1, <1>4, <1>6 DEF GetRecord, GetPcs, GotPcs, AnySock
<1>8. get' = [get EXCEPT ![g] = x] /\ get \in [Getters -> GetRecord]
  BY <1>4, <1>5, <1>6 DEF SlotTypes
<1>9. get' \in [Getters -> GetRecord] /\ get'[g] = x /\ OnlyGetter(g)
  BY <1>7, <1>8 DEF OnlyGetter
<1>10. PICK n : n = sock[s].refs + 1
  OBVIOUS
<1>11. n \in Nat
  BY <1>4, <1>10, SMTT(30)
<1>12. PICK y : y = [sock[s] EXCEPT !.refs = n]
  OBVIOUS
<1>13. /\ y \in SockRecord /\ y.refs = n /\ y.st = sock[s].st /\ y.fd = sock[s].fd /\ y.conn = sock[s].conn
       /\ y.error = sock[s].error /\ y.failed = sock[s].failed /\ y.closed = sock[s].closed
       /\ y.abort = sock[s].abort
  BY <1>4, <1>11, <1>12 DEF SockRecord
<1>14. sock' = [sock EXCEPT ![s] = y]
  BY <1>4, <1>5, <1>10, <1>12 DEF SlotTypes
<1>15. sock' \in [Socks -> SockRecord] /\ sock'[s] = y /\ OnlySock(s)
  BY <1>4, <1>13, <1>14, SockPut
<1>16. SlotTypes'
  BY <1>4, <1>5, <1>9, <1>15 DEF SlotTypes
<1>17. GettersCountSame
  BY <1>1, <1>5, <1>7, <1>9, SlotCountsStay
<1>18. g \notin GotBy(s) /\ g \in GotBy(s)' /\ \A r : r # s => g \notin GotBy(r) /\ g \notin GotBy(r)'
  BY <1>5, <1>7, <1>9 DEF GotBy, GotPcs
<1>19. \A r : g \notin HeldBy(r) /\ g \notin HeldBy(r)'
  BY <1>5, <1>7, <1>9 DEF HeldBy
<1>20. OthersCountSame(s) /\ Cardinality(GotBy(s)') = Cardinality(GotBy(s)) + 1 /\ HeldBy(s)' = HeldBy(s)
  BY <1>9, <1>18, <1>19, GetterSets DEF Apart, OthersCountSame
<1>21. GettersRight
  <2>1. GetAt(g)'
    <3>1. \E r \in Socks : get'[g].got = r /\ sock'[r].fd = get'[g].fd /\ sock'[r].st # "new"
      BY <1>3, <1>7, <1>9, <1>13, <1>15 DEF Live
    <3>2. g # Sweeper => get'[g].want # NoSock
      BY <1>5, <1>7, <1>9 DEF FdInv, GetRight, GetAt
    <3> QED
      BY <1>7, <1>9, <3>1, <3>2 DEF GetAt
  <2> QED
    BY <1>9, <2>1 DEF GettersRight, OnlyGetter
<1>22. \A e \in Fds, u \in Getters : (Clears(u, e)' => Clears(u, e)) /\ (Takes(u, e)' => Takes(u, e))
  BY <1>7, <1>9 DEF OnlyGetter, Clears, Takes
<1>23. disp.pc # "loop" => get'[Sweeper].pc = "out"
  BY <1>5, <1>9, SweeperFree, SlotConstants DEF OnlyGetter, FdInv, DispRight
<1>24. SameMain(s)
  BY <1>5, <1>13, <1>15, MainStays
<1>25. RefsAt(s)' /\ ConnAt(s)'
  <2>1. SlotPart(s) /\ ConnPart(s) /\ SignalPart(s) /\ MainPart(s)
    <3>1. SlotPart(s)
      BY <1>5, <1>24 DEF SlotPart, FromSlot, PointsTo, SameMain
    <3>2. ConnPart(s) /\ SignalPart(s)
      BY <1>13, <1>15 DEF ConnPart, ByConn, SignalPart, FromSignal
    <3>3. MainPart(s)
      BY <1>24 DEF MainPart, FromMain, SameMain
    <3> QED
      BY <3>1, <3>2, <3>3
  <2>2. LeftRefs(s)'
    BY <1>3, <1>10, <1>13, <1>15, <1>20, <2>1, LiveCounts, OneMoreOrMoved
  <2>3. Live(s)'
    BY <1>3, <1>13, <1>15 DEF Live
  <2>4. FromConn(s)' = ByConn(s)'
    BY <2>3 DEF FromConn, ByConn
  <2>5. ConnAt(s)'
    BY <1>13, <1>15, <1>20, ConnFrame DEF FdInv, SocksCounted
  <2> QED
    BY <2>2, <2>4, <2>5 DEF RefsAt, LeftRefs
<1>26. LifeAt(s)'
  <2>1. n > 0
    BY <1>4, <1>10, SMTT(30)
  <2> QED
    BY <1>3, <1>13, <1>15, <2>1 DEF LifeAt, Live, FdInv, LifeRight
<1>27. Failing(s) => ~ sock'[s].abort
  BY <1>13, <1>15 DEF FdInv, DispRight, Failing, FailPcs
<1>28. SlotsKept /\ \A e \in Fds : slot'[e].data = slot[e].data
  BY <1>5 DEF SlotsKept
<1> QED
  BY <1>5, <1>13, <1>15, <1>16, <1>17, <1>20, <1>21, <1>22, <1>23, <1>25, <1>26, <1>27, <1>28, SockKeep

(* The caller gives the connection back.                                   *)
LEMMA ReleaseStep ==
  ASSUME FdInv, NEW g \in Getters, Release(g)
  PROVE  FdInv'
<1>1. PICK f \in Fds : get[g].fd = f
  BY SlotFields DEF FdInv
<1>2. get[g].pc = "hold" /\ slot' = slot /\ disp' = disp /\ opened' = opened /\ Go(g, "out")
  BY DEF Release, At
<1>3. PICK s \in Socks : get[g].got = s
  BY <1>2 DEF FdInv, GetRight, GetAt
<1>4. SlotTypes /\ sock[s] \in SockRecord /\ sock[s].conn \in Nat /\ sock[s].st \in {"new", "open", "freed", "gone"}
  BY SlotFields DEF FdInv
<1>5. "out" \in GetPcs
  BY DEF GetPcs
<1>6. /\ get' \in [Getters -> GetRecord] /\ OnlyGetter(g)
      /\ get'[g].pc = "out" /\ get'[g].fd = f /\ get'[g].got = s
  BY <1>1, <1>2, <1>3, <1>4, <1>5, GoRight
<1>7. g \in HeldBy(s) /\ \A r : g \notin HeldBy(r)' /\ (r # s => g \notin HeldBy(r))
  BY <1>2, <1>3, <1>6 DEF HeldBy
<1>8. \A r : g \notin GotBy(r) /\ g \notin GotBy(r)'
  BY <1>2, <1>6 DEF GotBy, GotPcs
<1>9. /\ OthersCountSame(s) /\ Cardinality(HeldBy(s)') = Cardinality(HeldBy(s)) - 1 /\ GotBy(s)' = GotBy(s)
  BY <1>6, <1>7, <1>8, GetterSets DEF Apart, OthersCountSame
<1>10. PICK n : n = sock[s].conn - 1
  OBVIOUS
<1>11. PICK k, m : k = Cardinality(HeldBy(s)) /\ m = FromSock(s)
  OBVIOUS
<1>12. k \in Nat /\ k >= 1 /\ m \in {0, 1} /\ n = (m + k) - 1
  <2>1. HeldBy(s) \in SUBSET Getters
    BY DEF HeldBy
  <2>2. sock[s].conn = m + k
    BY <1>11 DEF FdInv, SocksCounted, ConnAt
  <2> QED
    BY <1>7, <1>10, <1>11, <2>1, <2>2, MemberCounts, CountParts
<1>13. n \in Nat /\ n = m + (k - 1)
  BY <1>12, SMT
<1>14. PICK y \in SockRecord :
         /\ sock' = [sock EXCEPT ![s] = y]
         /\ y.conn = n /\ y.st = sock[s].st /\ y.fd = sock[s].fd /\ y.refs = sock[s].refs
         /\ y.error = sock[s].error /\ y.closed = sock[s].closed /\ y.abort = sock[s].abort
         /\ y.failed \in {sock[s].failed, TRUE}
  <2>1. CASE sock' = [sock EXCEPT ![s].conn = @ - 1]
    <3>1. PICK y : y = [sock[s] EXCEPT !.conn = n]
      OBVIOUS
    <3>2. /\ y \in SockRecord
          /\ y.conn = n /\ y.st = sock[s].st /\ y.fd = sock[s].fd /\ y.refs = sock[s].refs
          /\ y.error = sock[s].error /\ y.closed = sock[s].closed /\ y.abort = sock[s].abort
          /\ y.failed = sock[s].failed
      BY <1>4, <1>13, <3>1 DEF SockRecord
    <3>3. sock' = [sock EXCEPT ![s] = y]
      BY <1>4, <1>10, <2>1, <3>1 DEF SlotTypes
    <3> QED
      BY <3>2, <3>3
  <2>2. CASE sock' = [sock EXCEPT ![s] = [sock[s] EXCEPT !.conn = @ - 1, !.failed = TRUE]]
    <3>1. PICK y : y = [sock[s] EXCEPT !.conn = n, !.failed = TRUE]
      OBVIOUS
    <3>2. /\ y \in SockRecord
          /\ y.conn = n /\ y.st = sock[s].st /\ y.fd = sock[s].fd /\ y.refs = sock[s].refs
          /\ y.error = sock[s].error /\ y.closed = sock[s].closed /\ y.abort = sock[s].abort
          /\ y.failed = TRUE
      BY <1>4, <1>13, <3>1 DEF SockRecord
    <3>3. sock' = [sock EXCEPT ![s] = y]
      BY <1>10, <2>2, <3>1
    <3> QED
      BY <3>2, <3>3
  <2> QED
    BY <1>3, <2>1, <2>2 DEF Release
<1>15. sock' \in [Socks -> SockRecord] /\ sock'[s] = y /\ OnlySock(s)
  BY <1>4, <1>14, SockPut
<1>16. SlotTypes'
  BY <1>2, <1>4, <1>6, <1>15 DEF SlotTypes
<1>17. GettersCountSame
  BY <1>1, <1>2, <1>6, SlotCountsStay
<1>18. GettersRight
  <2>1. GetAt(g)'
    BY <1>6 DEF GetAt, GotPcs
  <2> QED
    BY <1>6, <2>1 DEF GettersRight, OnlyGetter
<1>19. \A e \in Fds, u \in Getters : (Clears(u, e)' => Clears(u, e)) /\ (Takes(u, e)' => Takes(u, e))
  BY <1>6 DEF OnlyGetter, Clears, Takes
<1>20. disp.pc # "loop" => get'[Sweeper].pc = "out"
  BY <1>2, <1>6, SweeperFree, SlotConstants DEF OnlyGetter, FdInv, DispRight
<1>21. SameMain(s) /\ SameSock(s)
  BY <1>2, <1>14, <1>15, MainStays DEF SameSock
<1>22. RefsAt(s)'
  BY <1>2, <1>9, <1>14, <1>15, <1>21, RefsFrame DEF FdInv, SocksCounted
<1>23. ConnAt(s)'
  <2>1. FromSock(s)' = m
    BY <1>11, <1>14, <1>15 DEF FromSock, Live
  <2>2. Cardinality(HeldBy(s)') = k - 1
    BY <1>9, <1>11
  <2> QED
    BY <1>13, <1>14, <1>15, <2>1, <2>2 DEF ConnAt
<1>24. LifeAt(s)'
  <2>1. LifeAt(s) /\ sock[s].st # "new"
    BY <1>2, <1>3 DEF FdInv, LifeRight, GetRight, GetAt
  <2>2. sock[s].st # "gone"
    <3>1. ASSUME sock[s].st = "gone" PROVE FALSE
      <4>1. sock[s].conn = 0 /\ sock[s].conn = m + k
        BY <1>11, <2>1, <3>1 DEF LifeAt, FdInv, SocksCounted, ConnAt
      <4>2. 0 = m + k
        BY <4>1
      <4> QED
        BY <1>12, <4>2, SMTT(30)
    <3> QED
      BY <3>1
  <2> QED
    BY <1>14, <1>15, <2>1, <2>2 DEF LifeAt, Live
<1>25. Failing(s) => ~ sock'[s].abort
  BY <1>14, <1>15 DEF FdInv, DispRight, Failing, FailPcs
<1>26. SlotsKept /\ \A e \in Fds : slot'[e].data = slot[e].data
  BY <1>2 DEF SlotsKept
<1> QED
  BY <1>2, <1>9, <1>14, <1>15, <1>16, <1>17, <1>18, <1>19, <1>20, <1>22, <1>23, <1>24, <1>25, <1>26, SockKeep

(* A reference that goes with the data of a slot.                          *)
LEMMA NotCounted ==
  ASSUME FdInv, NEW f \in Fds, NEW s \in Socks, slot[f].low = 0, sock[s].fd = f
  PROVE  ~ Counted(s)
<1>1. ASSUME Counted(s) PROVE FALSE
  <2>1. MainHolds(f)
    BY <1>1 DEF MainHolds
  <2>2. PICK k : k = Cardinality(LowBy(f))
    OBVIOUS
  <2>3. 0 = 1 + k /\ k \in Nat
    BY <2>1, <2>2, CountParts DEF FdInv, SlotsCounted, LowAt, LowMain
  <2> QED
    BY <2>3, SMT
<1> QED
  BY <1>1

(* A living socket without a slot is not counted.                          *)
LEMMA NotPointedTo ==
  ASSUME FdInv, NEW s \in Socks, Live(s), ~ PointsTo(s)
  PROVE  ~ Counted(s)
<1>1. PICK f \in Fds : sock[s].fd = f
  BY DEF FdInv, LifeRight, LifeAt
<1> QED
  BY <1>1 DEF FdInv, DataRight, DataAt, PointsTo

CountedWith(r) == sock'[r].st = sock[r].st /\ sock'[r].error = sock[r].error => (Counted(r)' <=> Counted(r))

(* Whoever clears the data drops the slot's reference to the socket;       *)
(* nobody can refer to the slot meanwhile.                                 *)
LEMMA DataCleared ==
  ASSUME FdInv, NEW f \in Fds, NEW s \in Socks, slot[f].data = s, Closing(f),
         slot' = [slot EXCEPT ![f].data = NoSock], sock' = DropSock(sock, s), opened' = opened,
         get' \in [Getters -> GetRecord], disp' \in DispRecord,
         \A r \in Socks : GotBy(r)' = GotBy(r) /\ HeldBy(r)' = HeldBy(r),
         GettersCountSame, GettersRight, DispGoesOn,
         \A r \in Socks : (Setup(r)' <=> Setup(r)) /\ (Failing(r)' <=> Failing(r)) /\ CountedWith(r),
         MainClears(f)' => FALSE, \A u \in Getters : ~ Clears(u, f)',
         \A e \in Fds : e # f =>
           /\ MainClears(e)' => MainClears(e)
           /\ \A u \in Getters : (Clears(u, e)' => Clears(u, e)) /\ (Takes(u, e)' => Takes(u, e))
  PROVE  FdInv'
<1>1. Live(s) /\ sock[s].fd = f /\ ~ Setup(s)
  BY DataLive
<1>2. ~ Counted(s)
  BY <1>1, NotCounted DEF Closing
<1>3. LeftRefs(s) /\ LeftConn(s) /\ sock[s].refs # 0 /\ sock[s].conn - 1 \in Nat /\ sock[s].conn \in Nat
  BY <1>1, LiveCounts, SlotFields DEF FdInv
<1>4. /\ sock' \in [Socks -> SockRecord] /\ OnlySock(s)
      /\ sock'[s].fd = sock[s].fd /\ sock'[s].error = sock[s].error /\ sock'[s].abort = sock[s].abort
      /\ sock'[s].closed = sock[s].closed /\ sock'[s].refs = sock[s].refs - 1
      /\ sock'[s].st = IF sock'[s].refs = 0 THEN "freed" ELSE "open"
      /\ sock'[s].conn = IF sock'[s].refs = 0 THEN sock[s].conn - 1 ELSE sock[s].conn
  <2>1. PICK t, y : t = sock /\ y = sock'
    OBVIOUS
  <2>2. t \in [Socks -> SockRecord] /\ y = DropSock(t, s) /\ t[s].refs # 0 /\ t[s].conn - 1 \in Nat /\ t[s].st = "open"
    BY <1>1, <1>3, <2>1 DEF FdInv, SlotTypes, Live
  <2>3. Dropped(t, s, y)
    BY <2>2, DropEffect
  <2> QED
    BY <2>1, <2>2, <2>3 DEF OnlySock, Dropped
<1>5. PICK x : x = [slot[f] EXCEPT !.data = NoSock]
  OBVIOUS
<1>6. slot[f] \in SlotRecord /\ slot \in [Fds -> SlotRecord]
  BY DEF FdInv, SlotTypes
<1>7. /\ x \in SlotRecord /\ x.data = NoSock /\ x.low = slot[f].low /\ x.high = slot[f].high /\ x.of = slot[f].of
      /\ x.queued = slot[f].queued /\ x.armed = slot[f].armed
  BY <1>5, <1>6 DEF SlotRecord, AnySock
<1>8. slot' = [slot EXCEPT ![f] = x]
  BY <1>5, <1>6
<1>9. slot' \in [Fds -> SlotRecord] /\ slot'[f] = x /\ OnlySlot(f)
  BY <1>7, <1>8, SlotPut DEF FdInv
<1>10. SlotTypes'
  BY <1>4, <1>9 DEF FdInv, SlotTypes
<1>11. SlotsKept
  BY <1>7, <1>9 DEF SlotsKept, OnlySlot
<1>12. \A e \in Fds : slot'[e].data = slot[e].data \/ (slot[e].data = s /\ slot'[e].data = NoSock /\ ~ Counted(s))
  BY <1>2, <1>7, <1>9 DEF OnlySlot
<1>13. LeftRefs(s)'
  <2>1. FromSlot(s) = 1
    BY DEF FromSlot, PointsTo
  <2>2. FromSlot(s)' = 0
    <3>1. ASSUME NEW e \in Fds, slot'[e].data = s PROVE FALSE
      <4>1. e # f
        BY <1>7, <1>9, <3>1, SlotConstants
      <4>2. slot[e].data = s
        BY <1>9, <3>1, <4>1 DEF OnlySlot
      <4> QED
        BY <1>1, <4>1, <4>2, DataLive
    <3> QED
      BY <1>1, <3>1 DEF FromSlot, PointsTo
  <2>3. ConnPart(s) /\ SignalPart(s) /\ MainPart(s) /\ GotPart(s)
    BY <1>4 DEF ConnPart, SignalPart, MainPart, GotPart, ByConn, FromSignal, FromMain
  <2> QED
    BY <1>3, <1>4, <2>1, <2>2, <2>3, OneLess
<1>14. LeftConn(s)'
  BY <1>3, <1>4, ConnLeft
<1>15. ClearRight'
  <2>1. ClearAt(f)'
    BY DEF ClearAt
  <2>2. ASSUME NEW e \in Fds, e # f PROVE ClearAt(e)'
    BY <1>9, <2>2, ClearFrame DEF FdInv, ClearRight, OnlySlot
  <2> QED
    BY <2>1, <2>2 DEF ClearRight
<1>16. /\ \A r \in Socks : r # s => (Counted(r)' <=> Counted(r))
       /\ sock'[s].refs # 0 => (Counted(s)' <=> Counted(s))
  <2>1. ASSUME NEW r \in Socks, r # s PROVE Counted(r)' <=> Counted(r)
    BY <1>4, <2>1 DEF CountedWith, OnlySock
  <2>2. ASSUME sock'[s].refs # 0 PROVE Counted(s)' <=> Counted(s)
    BY <1>1, <1>4, <2>2 DEF CountedWith, Live
  <2> QED
    BY <2>1, <2>2
<1>17. OthersCountSame(s)
  BY DEF OthersCountSame
<1> QED
  BY <1>1, <1>2, <1>4, <1>10, <1>11, <1>12, <1>13, <1>14, <1>15, <1>16, <1>17, SockDrop

(* A getter with the last reference clears the slot.                       *)
LEMMA GetterClearsStep ==
  ASSUME FdInv, NEW g \in Getters, GetterClears(g)
  PROVE  FdInv'
<1>1. PICK f \in Fds : get[g].fd = f
  BY SlotFields DEF FdInv
<1>2. /\ get[g].pc = "clear" /\ disp' = disp /\ opened' = opened /\ Go(g, "look")
      /\ slot' = [slot EXCEPT ![f].data = NoSock] /\ sock' = DropSock(sock, slot[f].data)
  BY <1>1 DEF GetterClears, At
<1>3. Clears(g, f)
  BY <1>1, <1>2 DEF Clears
<1>4. Closing(f) /\ ~ MainClears(f) /\ \A u \in Getters : Clears(u, f) => u = g
  BY <1>3 DEF FdInv, ClearRight, ClearAt
<1>5. PICK s \in Socks : slot[f].data = s
  BY <1>4, SlotFields DEF FdInv, Closing, AnySock
<1>6. "look" \in GetPcs
  BY DEF GetPcs, GotPcs
<1>7. /\ get' \in [Getters -> GetRecord] /\ OnlyGetter(g)
      /\ get'[g].pc = "look" /\ get'[g].fd = f /\ get'[g].want = get[g].want /\ get'[g].got = get[g].got
  BY <1>1, <1>2, <1>6, GoRight DEF FdInv
<1>8. GettersCountSame
  BY <1>1, <1>2, <1>7, SlotCountsStay
<1>9. \A r \in Socks : GotBy(r)' = GotBy(r) /\ HeldBy(r)' = HeldBy(r)
  <2>1. \A r : (g \in GotBy(r) <=> g \in GotBy(r)') /\ g \notin HeldBy(r) /\ g \notin HeldBy(r)'
    BY <1>2, <1>7 DEF GotBy, HeldBy, GotPcs
  <2> QED
    BY <1>7, <2>1, GetterSets DEF Apart
<1>10. PICK t, y : t = sock /\ y = sock'
  OBVIOUS
<1>11. \A r \in Socks : sock'[r].fd = sock[r].fd /\ (sock[r].st # "new" => sock'[r].st # "new")
  <2>1. Live(s) /\ sock[s].refs # 0 /\ sock[s].conn - 1 \in Nat
    BY <1>5, DataLive, LiveCounts
  <2>2. t \in [Socks -> SockRecord] /\ y = DropSock(t, s) /\ t[s].refs # 0 /\ t[s].conn - 1 \in Nat /\ t[s].st = "open"
    BY <1>2, <1>5, <1>10, <2>1 DEF FdInv, SlotTypes, Live
  <2>3. Dropped(t, s, y)
    BY <2>2, DropEffect
  <2> QED
    BY <1>10, <2>2, <2>3 DEF Dropped
<1>12. GettersRight
  <2>1. GetAt(g)'
    <3>1. /\ \E r \in Socks : get[g].got = r /\ sock[r].fd = get[g].fd /\ sock[r].st # "new"
          /\ g # Sweeper => get[g].want # NoSock
      BY <1>2 DEF FdInv, GetRight, GetAt, GotPcs
    <3> QED
      BY <1>1, <1>7, <1>11, <3>1 DEF GetAt
  <2> QED
    BY <1>7, <2>1 DEF GettersRight, OnlyGetter
<1>13. DispGoesOn
  BY <1>2, <1>7, SweeperFree, SlotConstants DEF DispGoesOn, OnlyGetter, FdInv, DispRight
<1>14. \A r \in Socks : (Setup(r)' <=> Setup(r)) /\ (Failing(r)' <=> Failing(r)) /\ CountedWith(r)
  BY <1>2, MainStays DEF SameMain, CountedWith, Setup, Failing
<1>15. ~ MainClears(f)' /\ \A u \in Getters : ~ Clears(u, f)'
  BY <1>2, <1>4, <1>7 DEF MainClears, Clears, OnlyGetter
<1>16. \A e \in Fds : e # f =>
         /\ MainClears(e)' => MainClears(e)
         /\ \A u \in Getters : (Clears(u, e)' => Clears(u, e)) /\ (Takes(u, e)' => Takes(u, e))
  BY <1>2, <1>7 DEF MainClears, Clears, Takes, OnlyGetter
<1>17. disp' \in DispRecord
  BY <1>2 DEF FdInv, SlotTypes
<1> QED
  BY <1>2, <1>4, <1>5, <1>7, <1>8, <1>9, <1>12, <1>13, <1>14, <1>15, <1>16, <1>17, DataCleared

(* The main thread with the last reference clears the slot.                *)
LEMMA ClearDataStep ==
  ASSUME FdInv, ClearData
  PROVE  FdInv'
<1>1. PICK f \in Fds : disp.fd = f
  BY SlotFields DEF FdInv
<1>2. /\ disp.pc = "clear" /\ get' = get /\ opened' = opened /\ disp' = [disp EXCEPT !.pc = "leave"]
      /\ slot' = [slot EXCEPT ![f].data = NoSock] /\ sock' = DropSock(sock, slot[f].data)
  BY <1>1 DEF ClearData
<1>3. MainClears(f)
  BY <1>1, <1>2 DEF MainClears
<1>4. Closing(f) /\ \A u \in Getters : ~ Clears(u, f)
  BY <1>3 DEF FdInv, ClearRight, ClearAt
<1>5. PICK s \in Socks : slot[f].data = s
  BY <1>4, SlotFields DEF FdInv, Closing, AnySock
<1>6. disp' \in DispRecord /\ disp'.pc = "leave" /\ disp'.s = disp.s /\ disp'.fd = disp.fd
  BY <1>2 DEF FdInv, SlotTypes, DispRecord, DispPcs, FailPcs
<1>7. GettersCountSame /\ \A r \in Socks : GotBy(r)' = GotBy(r) /\ HeldBy(r)' = HeldBy(r)
  BY <1>2, GettersStay DEF GettersCountSame
<1>8. GettersRight
  BY <1>2 DEF GettersRight
<1>9. DispGoesOn
  BY <1>2, <1>6 DEF DispGoesOn, FdInv, DispRight, SetupPcs, FailPcs
<1>10. ASSUME NEW r \in Socks PROVE (Setup(r)' <=> Setup(r)) /\ (Failing(r)' <=> Failing(r)) /\ CountedWith(r)
  <2>1. Setup(r)' <=> Setup(r)
    BY <1>2, <1>6 DEF Setup, SetupPcs
  <2>2. Failing(r)' <=> Failing(r)
    BY <1>2, <1>6 DEF Failing, FailPcs
  <2>3. CountedWith(r)
    BY <1>2, <1>6 DEF CountedWith, Counted, Live, SetupPcs
  <2> QED
    BY <2>1, <2>2, <2>3
<1>11. ~ MainClears(f)' /\ \A u \in Getters : ~ Clears(u, f)'
  BY <1>2, <1>4, <1>6 DEF MainClears, Clears
<1>12. \A e \in Fds : e # f =>
         /\ MainClears(e)' => MainClears(e)
         /\ \A u \in Getters : (Clears(u, e)' => Clears(u, e)) /\ (Takes(u, e)' => Takes(u, e))
  BY <1>2, <1>6 DEF MainClears, Clears, Takes
<1>13. get' \in [Getters -> GetRecord]
  BY <1>2 DEF FdInv, SlotTypes
<1> QED
  BY <1>2, <1>4, <1>5, <1>6, <1>7, <1>8, <1>9, <1>10, <1>11, <1>12, <1>13, DataCleared

(* A socket somebody has got is alive.                                     *)
LEMMA GotLive ==
  ASSUME FdInv, NEW g \in Getters, NEW s \in Socks, g \in GotBy(s)
  PROVE  Live(s)
<1>1. GotBy(s) \in SUBSET Getters
  BY DEF GotBy
<1>2. RefsAt(s) /\ LifeAt(s)
  BY DEF FdInv, SocksCounted, LifeRight
<1>3. PICK n, a, b, c, d, k :
        /\ n = sock[s].refs /\ a = FromSlot(s) /\ b = FromConn(s) /\ c = FromSignal(s) /\ d = FromMain(s)
        /\ k = Cardinality(GotBy(s))
  OBVIOUS
<1>4. a \in {0, 1} /\ b \in {0, 1} /\ c \in {0, 1} /\ d \in {0, 1} /\ k \in Nat /\ k >= 1
  BY <1>1, <1>3, CountParts, MemberCounts
<1>5. n = a + b + c + d + k
  BY <1>2, <1>3 DEF RefsAt
<1>6. n > 0
  BY <1>4, <1>5, SMTT(30)
<1> QED
  BY <1>2, <1>3, <1>6 DEF LifeAt

(* The getter looks at what it has got and keeps the connection or         *)
(* nothing.                                                                *)
LEMMA LookStep ==
  ASSUME FdInv, NEW g \in Getters, Look(g)
  PROVE  FdInv'
<1>1. PICK f \in Fds : get[g].fd = f
  BY SlotFields DEF FdInv
<1>2. get[g].pc = "look" /\ slot' = slot /\ disp' = disp /\ opened' = opened
  BY DEF Look, At
<1>3. PICK s \in Socks : get[g].got = s /\ sock[s].fd = f /\ sock[s].st # "new"
  BY <1>1, <1>2 DEF FdInv, GetRight, GetAt, GotPcs
<1>4. g \in GotBy(s)
  BY <1>2, <1>3 DEF GotBy, GotPcs
<1>5. Live(s)
  BY <1>4, GotLive
<1>6. LeftRefs(s) /\ LeftConn(s) /\ sock[s].refs # 0 /\ sock[s].conn - 1 \in Nat /\ sock[s].conn \in Nat
  BY <1>5, LiveCounts, SlotFields DEF FdInv
<1>7. PICK pc, t, n :
        /\ Go(g, pc) /\ sock' = DropSock(t, s)
        /\ \/ pc = "hold" /\ t = [sock EXCEPT ![s].conn = @ + 1] /\ n = sock[s].conn + 1 /\ RightGeneration(g)
           \/ pc = "out" /\ t = sock /\ n = sock[s].conn
  BY <1>3 DEF Look
<1>8. n \in Nat /\ n - 1 \in Nat /\ (n = sock[s].conn + 1 => n - 1 = sock[s].conn)
  <2>1. PICK c : c = sock[s].conn
    OBVIOUS
  <2>2. c \in Nat /\ c - 1 \in Nat /\ (n = c + 1 \/ n = c)
    BY <1>6, <1>7, <2>1
  <2>3. n \in Nat /\ n - 1 \in Nat /\ (n = c + 1 => n - 1 = c)
    BY <2>2, SMTT(30)
  <2> QED
    BY <2>1, <2>3
<1>9. sock \in [Socks -> SockRecord] /\ sock[s] \in SockRecord
  BY DEF FdInv, SlotTypes
<1>10. /\ t \in [Socks -> SockRecord] /\ \A r \in Socks : r # s => t[r] = sock[r]
       /\ t[s].fd = sock[s].fd /\ t[s].error = sock[s].error /\ t[s].abort = sock[s].abort
       /\ t[s].closed = sock[s].closed /\ t[s].refs = sock[s].refs /\ t[s].conn = n /\ t[s].st = "open"
  <2>1. CASE t = sock /\ n = sock[s].conn
    BY <1>5, <1>9, <2>1 DEF Live
  <2>2. CASE t = [sock EXCEPT ![s].conn = @ + 1] /\ n = sock[s].conn + 1
    <3>1. PICK x : x = [sock[s] EXCEPT !.conn = n]
      OBVIOUS
    <3>2. /\ x \in SockRecord /\ x.fd = sock[s].fd /\ x.error = sock[s].error /\ x.abort = sock[s].abort
          /\ x.closed = sock[s].closed /\ x.refs = sock[s].refs /\ x.conn = n /\ x.st = "open"
      BY <1>5, <1>8, <1>9, <3>1 DEF SockRecord, Live
    <3>3. t = [sock EXCEPT ![s] = x]
      BY <1>9, <2>2, <3>1
    <3> QED
      BY <1>9, <3>2, <3>3
  <2> QED
    BY <1>7, <2>1, <2>2
<1>11. PICK y : y = sock'
  OBVIOUS
<1>12. Dropped(t, s, y)
  BY <1>6, <1>7, <1>8, <1>10, <1>11, DropEffect
<1>13. /\ sock' \in [Socks -> SockRecord] /\ OnlySock(s)
       /\ sock'[s].fd = sock[s].fd /\ sock'[s].error = sock[s].error /\ sock'[s].abort = sock[s].abort
       /\ sock'[s].closed = sock[s].closed /\ sock'[s].refs = sock[s].refs - 1
       /\ sock'[s].st = IF sock'[s].refs = 0 THEN "freed" ELSE "open"
       /\ sock'[s].conn = IF sock'[s].refs = 0 THEN n - 1 ELSE n
  BY <1>10, <1>11, <1>12 DEF Dropped, OnlySock
<1>14. pc \in GetPcs
  BY <1>7 DEF GetPcs
<1>15. /\ get' \in [Getters -> GetRecord] /\ OnlyGetter(g)
       /\ get'[g].pc = pc /\ get'[g].fd = f /\ get'[g].want = get[g].want /\ get'[g].got = s
  BY <1>1, <1>3, <1>7, <1>14, GoRight DEF FdInv
<1>16. SlotTypes'
  BY <1>2, <1>13, <1>15 DEF FdInv, SlotTypes
<1>17. GettersCountSame
  BY <1>1, <1>2, <1>7, <1>15, SlotCountsStay
<1>18. (\A r : g \notin GotBy(r)') /\ \A r : r # s => g \notin GotBy(r) /\ g \notin HeldBy(r) /\ g \notin HeldBy(r)'
  BY <1>2, <1>3, <1>7, <1>15 DEF GotBy, HeldBy, GotPcs
<1>19. g \notin HeldBy(s) /\ (g \in HeldBy(s)' <=> pc = "hold")
  BY <1>2, <1>15 DEF HeldBy
<1>20. /\ OthersCountSame(s) /\ Cardinality(GotBy(s)') = Cardinality(GotBy(s)) - 1
       /\ pc = "hold" => Cardinality(HeldBy(s)') = Cardinality(HeldBy(s)) + 1
       /\ pc # "hold" => HeldBy(s)' = HeldBy(s)
  BY <1>4, <1>15, <1>18, <1>19, GetterSets DEF Apart, OthersCountSame
<1>21. LeftRefs(s)'
  <2>1. SlotPart(s)
    BY <1>2 DEF SlotPart, FromSlot, PointsTo, Setup
  <2>2. ConnPart(s) /\ SignalPart(s)
    BY <1>13 DEF ConnPart, SignalPart, ByConn, FromSignal
  <2>3. MainPart(s)
    BY <1>2 DEF MainPart, FromMain, Failing
  <2> QED
    BY <1>6, <1>13, <1>20, <2>1, <2>2, <2>3, OneLess
<1>22. LeftConn(s)'
  <2>1. CASE pc = "hold"
    <3>1. n = sock[s].conn + 1 /\ n - 1 = sock[s].conn
      BY <1>7, <1>8, <2>1
    <3> QED
      BY <1>6, <1>13, <1>20, <2>1, <3>1, ConnLeft
  <2>2. CASE pc # "hold"
    <3>1. n = sock[s].conn
      BY <1>7, <2>2
    <3> QED
      BY <1>6, <1>13, <1>20, <2>2, <3>1, ConnLeft
  <2> QED
    BY <2>1, <2>2
<1>23. GettersRight
  <2>1. GetAt(g)'
    <3>1. sock'[s].fd = f /\ sock'[s].st # "new"
      BY <1>3, <1>13
    <3>2. g # Sweeper => get[g].want # NoSock
      BY <1>2 DEF FdInv, GetRight, GetAt
    <3>3. pc = "hold" => g = Sweeper \/ get[g].want = s
      BY <1>3, <1>7, <3>2 DEF RightGeneration
    <3> QED
      BY <1>15, <3>1, <3>2, <3>3 DEF GetAt
  <2> QED
    BY <1>15, <2>1 DEF GettersRight, OnlyGetter
<1>24. DispGoesOn
  BY <1>2, <1>15, SweeperFree, SlotConstants DEF DispGoesOn, OnlyGetter, FdInv, DispRight
<1>25. \A r \in Socks : (Setup(r)' <=> Setup(r)) /\ (Failing(r)' <=> Failing(r))
  BY <1>2 DEF Setup, Failing
<1>26. /\ \A r \in Socks : r # s => (Counted(r)' <=> Counted(r))
       /\ sock'[s].refs # 0 => (Counted(s)' <=> Counted(s))
  BY <1>2, <1>5, <1>13 DEF Counted, Live, OnlySock
<1>27. sock'[s].refs = 0 => ~ Counted(s)
  <2>1. ASSUME sock'[s].refs = 0 PROVE ~ PointsTo(s)
    <3>1. ~ PointsTo(s)'
      BY <1>21, <2>1, LastRef
    <3> QED
      BY <1>2, <3>1 DEF PointsTo, Setup
  <2> QED
    BY <1>5, <2>1, NotPointedTo
<1>28. ClearRight'
  <2>1. \A e \in Fds, u \in Getters : (Clears(u, e)' => Clears(u, e)) /\ (Takes(u, e)' => Takes(u, e))
    BY <1>7, <1>15 DEF OnlyGetter, Clears, Takes
  <2>2. \A e \in Fds : MainClears(e)' => MainClears(e)
    BY <1>2 DEF MainClears
  <2> QED
    BY <1>2, <2>1, <2>2, ClearFrame DEF FdInv, ClearRight
<1>29. SlotsKept /\ \A e \in Fds : slot'[e].data = slot[e].data
  BY <1>2 DEF SlotsKept
<1> QED
  BY <1>2, <1>5, <1>13, <1>16, <1>17, <1>20, <1>21, <1>22, <1>23, <1>24, <1>25, <1>26, <1>27, <1>28, <1>29, SockDrop

-----------------------------------------------------------------------------
(* The connection is closed.                                               *)
LEMMA CloseStep ==
  ASSUME FdInv, NEW s \in Socks, CloseConnection(s)
  PROVE  FdInv'
<1>1. /\ sock[s].failed /\ ~ sock[s].closed /\ slot' = slot /\ disp' = disp /\ get' = get /\ opened' = opened
      /\ sock' = PassAbort([sock EXCEPT ![s].closed = TRUE], s)
  BY DEF CloseConnection
<1>2. Live(s)
  <2>1. LifeAt(s) /\ sock[s].st \in {"new", "open", "freed", "gone"}
    BY SlotFields DEF FdInv, LifeRight
  <2> QED
    BY <1>1, <2>1 DEF LifeAt, Live
<1>3. LeftRefs(s) /\ LeftConn(s) /\ sock[s].refs # 0 /\ sock[s].conn - 1 \in Nat /\ sock[s].conn \in Nat
  BY <1>2, LiveCounts, SlotFields DEF FdInv
<1>4. sock \in [Socks -> SockRecord] /\ sock[s] \in SockRecord
  BY DEF FdInv, SlotTypes
<1>5. PICK t : t = [sock EXCEPT ![s].closed = TRUE]
  OBVIOUS
<1>6. /\ t \in [Socks -> SockRecord] /\ \A r \in Socks : r # s => t[r] = sock[r]
      /\ t[s].fd = sock[s].fd /\ t[s].error = sock[s].error /\ t[s].abort = sock[s].abort
      /\ t[s].closed /\ t[s].refs = sock[s].refs /\ t[s].conn = sock[s].conn /\ t[s].st = "open"
  <2>1. PICK x : x = [sock[s] EXCEPT !.closed = TRUE]
    OBVIOUS
  <2>2. /\ x \in SockRecord /\ x.fd = sock[s].fd /\ x.error = sock[s].error /\ x.abort = sock[s].abort
        /\ x.closed /\ x.refs = sock[s].refs /\ x.conn = sock[s].conn /\ x.st = "open"
    BY <1>2, <1>4, <2>1 DEF SockRecord, Live
  <2>3. t = [sock EXCEPT ![s] = x]
    BY <1>4, <1>5, <2>1
  <2> QED
    BY <1>4, <2>2, <2>3
<1>7. GettersCountSame /\ OthersCountSame(s) /\ GotBy(s)' = GotBy(s) /\ HeldBy(s)' = HeldBy(s) /\ GettersRight
  BY <1>1, GettersStay DEF GettersCountSame, OthersCountSame, GettersRight
<1>8. SlotsKept /\ \A e \in Fds : slot'[e].data = slot[e].data
  BY <1>1 DEF SlotsKept
<1>9. \A r \in Socks : (Setup(r)' <=> Setup(r)) /\ (Failing(r)' <=> Failing(r))
  BY <1>1 DEF Setup, Failing
<1>10. SlotPart(s) /\ MainPart(s) /\ GotPart(s)
  BY <1>1, <1>7, <1>9 DEF SlotPart, FromSlot, PointsTo, MainPart, FromMain, GotPart
<1>11. disp.pc # "loop" => get'[Sweeper].pc = "out"
  BY <1>1 DEF FdInv, DispRight
<1>12. CASE sock[s].error \/ sock[s].abort
  <2>1. PICK y : y = sock'
    OBVIOUS
  <2>2. Dropped(t, s, y)
    <3>1. y = DropSock(t, s)
      BY <1>1, <1>5, <1>6, <1>12, <2>1 DEF PassAbort
    <3>2. t[s].refs # 0 /\ t[s].conn - 1 \in Nat
      BY <1>3, <1>6
    <3> QED
      BY <1>6, <3>1, <3>2, DropEffect
  <2>3. /\ sock' \in [Socks -> SockRecord] /\ OnlySock(s)
        /\ sock'[s].fd = sock[s].fd /\ sock'[s].error = sock[s].error /\ sock'[s].abort = sock[s].abort
        /\ sock'[s].closed /\ sock'[s].refs = sock[s].refs - 1
        /\ sock'[s].st = IF sock'[s].refs = 0 THEN "freed" ELSE "open"
        /\ sock'[s].conn = IF sock'[s].refs = 0 THEN sock[s].conn - 1 ELSE sock[s].conn
    BY <1>6, <2>1, <2>2 DEF Dropped, OnlySock
  <2>4. SlotTypes'
    BY <1>1, <2>3 DEF FdInv, SlotTypes
  <2>5. LeftRefs(s)'
    <3>1. ByConn(s) = 1 /\ ByConn(s)' = 0
      BY <1>1, <2>3 DEF ByConn
    <3>2. SignalPart(s)
      BY <2>3 DEF SignalPart, FromSignal
    <3> QED
      BY <1>3, <1>10, <2>3, <3>1, <3>2, OneLess
  <2>6. LeftConn(s)'
    BY <1>3, <1>7, <2>3, ConnLeft
  <2>7. DispGoesOn
    BY <1>1, <1>11 DEF DispGoesOn
  <2>8. /\ \A r \in Socks : r # s => (Counted(r)' <=> Counted(r))
        /\ sock'[s].refs # 0 => (Counted(s)' <=> Counted(s))
    BY <1>1, <1>2, <2>3 DEF Counted, Live, OnlySock
  <2>9. sock'[s].refs = 0 => ~ Counted(s)
    <3>1. ASSUME sock'[s].refs = 0 PROVE ~ PointsTo(s)
      <4>1. ~ PointsTo(s)'
        BY <2>5, <3>1, LastRef
      <4> QED
        BY <1>1, <4>1 DEF PointsTo, Setup
    <3> QED
      BY <1>2, <3>1, NotPointedTo
  <2>10. ClearRight'
    BY <1>1 DEF FdInv, ClearRight, ClearAt, MainClears, Clears, Closing, Takes
  <2> QED
    BY <1>1, <1>2, <1>7, <1>8, <1>9, <2>3, <2>4, <2>5, <2>6, <2>7, <2>8, <2>9, <2>10, SockDrop
<1>13. CASE ~ (sock[s].error \/ sock[s].abort)
  <2>1. sock' = [t EXCEPT ![s].abort = TRUE]
    BY <1>1, <1>5, <1>6, <1>13 DEF PassAbort
  <2>2. PICK x : x = [t[s] EXCEPT !.abort = TRUE]
    OBVIOUS
  <2>3. /\ x \in SockRecord /\ x.fd = sock[s].fd /\ x.error = sock[s].error /\ x.abort
        /\ x.closed /\ x.refs = sock[s].refs /\ x.conn = sock[s].conn /\ x.st = "open"
    <3>1. t[s] \in SockRecord
      BY <1>6
    <3> QED
      BY <1>6, <2>2, <3>1 DEF SockRecord
  <2>4. sock' = [t EXCEPT ![s] = x]
    BY <1>6, <2>1, <2>2
  <2>5. sock' \in [Socks -> SockRecord] /\ sock'[s] = x /\ OnlySock(s)
    BY <1>6, <2>3, <2>4 DEF OnlySock
  <2>6. SlotTypes'
    BY <1>1, <2>5 DEF FdInv, SlotTypes
  <2>7. RefsAt(s)'
    <3>1. ByConn(s) = 1 /\ ByConn(s)' = 0
      BY <1>1, <2>3, <2>5 DEF ByConn
    <3>2. FromSignal(s) = 0 /\ FromSignal(s)' = 1
      BY <1>13, <2>3, <2>5 DEF FromSignal
    <3>3. LeftRefs(s)'
      BY <1>3, <1>10, <2>3, <2>5, <3>1, <3>2, OneMoreOrMoved
    <3>4. FromConn(s)' = ByConn(s)'
      BY <2>3, <2>5 DEF FromConn, ByConn
    <3> QED
      BY <3>3, <3>4 DEF RefsAt, LeftRefs
  <2>8. sock[s].st = "open"
    BY <1>2 DEF Live
  <2>9. ConnAt(s)'
    BY <1>7, <2>3, <2>5, <2>8, ConnFrame DEF FdInv, SocksCounted
  <2>10. LifeAt(s)'
    <3>1. LifeAt(s)
      BY DEF FdInv, LifeRight
    <3> QED
      BY <1>13, <2>3, <2>5, <2>8, <3>1 DEF LifeAt, Live
  <2>11. ~ Failing(s)
    BY <1>13 DEF FdInv, DispRight, Failing, FailPcs
  <2>12. \A f \in Fds, u \in Getters : (Clears(u, f)' => Clears(u, f)) /\ (Takes(u, f)' => Takes(u, f))
    BY <1>1 DEF Clears, Takes
  <2> QED
    BY <1>1, <1>7, <1>8, <1>11, <2>3, <2>5, <2>6, <2>7, <2>8, <2>9, <2>10, <2>11, <2>12, SockKeep
<1> QED
  BY <1>12, <1>13

(* The main thread is done with a failed socket.                           *)
LEMMA RestRight == Rest \in DispRecord /\ Rest.pc = "loop"
<1>1. (CHOOSE f \in Fds : TRUE) \in Fds
  BY SlotConstants
<1> QED
  BY <1>1 DEF Rest, DispRecord, DispPcs, AnySock

(* The failing socket leaves epoll and loses the signal's reference.       *)
LEMMA LeaveStep ==
  ASSUME FdInv, LeaveEpoll
  PROVE  FdInv'
<1>1. PICK f \in Fds : disp.fd = f
  BY SlotFields DEF FdInv
<1>2. disp.pc = "leave" /\ disp' = Rest /\ get' = get /\ opened' = opened
  BY DEF LeaveEpoll
<1>3. PICK s \in Socks : disp.s = s /\ Live(s) /\ sock[s].fd = f /\ sock[s].error /\ ~ sock[s].abort
  BY <1>1, <1>2 DEF FdInv, DispRight, FailPcs
<1>4. LeftRefs(s) /\ LeftConn(s) /\ sock[s].refs # 0 /\ sock[s].conn - 1 \in Nat /\ sock[s].conn \in Nat
  BY <1>3, LiveCounts, SlotFields DEF FdInv
<1>5. sock \in [Socks -> SockRecord] /\ sock[s] \in SockRecord /\ slot \in [Fds -> SlotRecord] /\ slot[f] \in SlotRecord
  BY DEF FdInv, SlotTypes
<1>6. PICK t, y : t = [sock EXCEPT ![s].failed = TRUE] /\ y = sock'
  OBVIOUS
<1>7. /\ t \in [Socks -> SockRecord] /\ \A r \in Socks : r # s => t[r] = sock[r]
      /\ t[s].fd = sock[s].fd /\ t[s].error = sock[s].error /\ t[s].abort = sock[s].abort
      /\ t[s].closed = sock[s].closed /\ t[s].refs = sock[s].refs /\ t[s].conn = sock[s].conn /\ t[s].st = "open"
  <2>1. PICK x : x = [sock[s] EXCEPT !.failed = TRUE]
    OBVIOUS
  <2>2. /\ x \in SockRecord /\ x.fd = sock[s].fd /\ x.error = sock[s].error /\ x.abort = sock[s].abort
        /\ x.closed = sock[s].closed /\ x.refs = sock[s].refs /\ x.conn = sock[s].conn /\ x.st = "open"
    BY <1>3, <1>5, <2>1 DEF SockRecord, Live
  <2>3. t = [sock EXCEPT ![s] = x]
    BY <1>5, <1>6, <2>1
  <2> QED
    BY <1>5, <2>2, <2>3
<1>8. Dropped(t, s, y)
  <2>1. y = DropSock(t, s)
    BY <1>3, <1>6 DEF LeaveEpoll
  <2>2. t[s].refs # 0 /\ t[s].conn - 1 \in Nat
    BY <1>4, <1>7
  <2> QED
    BY <1>7, <2>1, <2>2, DropEffect
<1>9. /\ sock' \in [Socks -> SockRecord] /\ OnlySock(s)
      /\ sock'[s].fd = sock[s].fd /\ sock'[s].error = sock[s].error /\ sock'[s].abort = sock[s].abort
      /\ sock'[s].closed = sock[s].closed /\ sock'[s].refs = sock[s].refs - 1
      /\ sock'[s].st = IF sock'[s].refs = 0 THEN "freed" ELSE "open"
      /\ sock'[s].conn = IF sock'[s].refs = 0 THEN sock[s].conn - 1 ELSE sock[s].conn
  BY <1>6, <1>7, <1>8 DEF Dropped, OnlySock
<1>10. PICK x : x = [slot[f] EXCEPT !.armed = FALSE]
  OBVIOUS
<1>11. /\ x \in SlotRecord /\ x.data = slot[f].data /\ x.low = slot[f].low /\ x.high = slot[f].high
       /\ x.of = slot[f].of /\ x.queued = slot[f].queued /\ ~ x.armed
  BY <1>5, <1>10 DEF SlotRecord
<1>12. slot' = [slot EXCEPT ![f] = x]
  BY <1>1, <1>5, <1>10 DEF LeaveEpoll
<1>13. slot' \in [Fds -> SlotRecord] /\ slot'[f] = x /\ OnlySlot(f)
  BY <1>11, <1>12, SlotPut DEF FdInv
<1>14. SlotTypes'
  BY <1>2, <1>9, <1>13, RestRight DEF FdInv, SlotTypes
<1>15. SlotsKept /\ \A e \in Fds : slot'[e].data = slot[e].data
  BY <1>11, <1>13 DEF SlotsKept, OnlySlot
<1>16. GettersCountSame /\ OthersCountSame(s) /\ GotBy(s)' = GotBy(s) /\ HeldBy(s)' = HeldBy(s) /\ GettersRight
  BY <1>2, GettersStay DEF GettersCountSame, OthersCountSame, GettersRight
<1>17. \A r \in Socks : ~ Setup(r) /\ ~ Setup(r)' /\ ~ Failing(r)' /\ (r # s => ~ Failing(r))
  BY <1>2, <1>3, RestRight DEF Setup, Failing, SetupPcs, FailPcs
<1>18. LeftRefs(s)'
  <2>1. SlotPart(s)
    BY <1>15, <1>17 DEF SlotPart, FromSlot, PointsTo
  <2>2. ConnPart(s) /\ SignalPart(s) /\ GotPart(s)
    BY <1>9, <1>16 DEF ConnPart, ByConn, SignalPart, FromSignal, GotPart
  <2>3. FromMain(s) = 1 /\ FromMain(s)' = 0
    BY <1>2, <1>3, <1>17 DEF FromMain, Failing, FailPcs
  <2> QED
    BY <1>4, <1>9, <2>1, <2>2, <2>3, OneLess
<1>19. LeftConn(s)'
  BY <1>4, <1>9, <1>16, ConnLeft
<1>20. DispGoesOn
  BY <1>2, RestRight DEF DispGoesOn
<1>21. ~ Counted(s) /\ ~ Counted(s)'
  BY <1>2, <1>3, <1>9, RestRight DEF Counted
<1>22. \A r \in Socks : r # s => (Counted(r)' <=> Counted(r))
  BY <1>2, <1>9, RestRight DEF Counted, Live, OnlySock, SetupPcs
<1>23. ClearRight'
  <2>1. ASSUME NEW e \in Fds PROVE ClearAt(e)'
    <3>1. ~ MainClears(e)'
      BY <1>2, RestRight DEF MainClears
    <3>2. \A u \in Getters : (Clears(u, e)' => Clears(u, e)) /\ (Takes(u, e)' => Takes(u, e))
      BY <1>2 DEF Clears, Takes
    <3> QED
      BY <1>15, <3>1, <3>2, ClearFrame DEF FdInv, ClearRight, SlotsKept
  <2> QED
    BY <2>1 DEF ClearRight
<1>24. ~ slot'[sock[s].fd].armed
  BY <1>3, <1>11, <1>13
<1> QED
  BY <1>2, <1>3, <1>9, <1>14, <1>15, <1>16, <1>17, <1>18, <1>19, <1>20, <1>21, <1>22, <1>23, <1>24, SockDrop

(* fail_connection only marks the connection.                              *)
LEMMA FailConnectionStep ==
  ASSUME FdInv, NEW s \in Socks, FailConnection(s)
  PROVE  FdInv'
<1>1. /\ sock[s].st = "open" /\ slot' = slot /\ disp' = disp /\ get' = get /\ opened' = opened
      /\ sock' = [sock EXCEPT ![s].failed = TRUE]
  BY DEF FailConnection
<1>2. SlotTypes /\ sock[s] \in SockRecord
  BY SlotFields DEF FdInv
<1>3. PICK x : x = [sock[s] EXCEPT !.failed = TRUE]
  OBVIOUS
<1>4. /\ x \in SockRecord /\ x.fd = sock[s].fd /\ x.error = sock[s].error /\ x.abort = sock[s].abort
      /\ x.closed = sock[s].closed /\ x.refs = sock[s].refs /\ x.conn = sock[s].conn /\ x.st = sock[s].st
  BY <1>2, <1>3 DEF SockRecord
<1>5. sock' = [sock EXCEPT ![s] = x]
  BY <1>1, <1>2, <1>3 DEF SlotTypes
<1>6. sock' \in [Socks -> SockRecord] /\ sock'[s] = x /\ OnlySock(s)
  BY <1>2, <1>4, <1>5, SockPut
<1>7. SlotTypes'
  BY <1>1, <1>2, <1>6 DEF SlotTypes
<1>8. GettersCountSame /\ OthersCountSame(s) /\ GotBy(s)' = GotBy(s) /\ HeldBy(s)' = HeldBy(s) /\ GettersRight
  BY <1>1, GettersStay DEF GettersCountSame, OthersCountSame, GettersRight
<1>9. SlotsKept /\ \A e \in Fds : slot'[e].data = slot[e].data
  BY <1>1 DEF SlotsKept
<1>10. SameMain(s) /\ SameSock(s)
  BY <1>1, <1>4, <1>6, MainStays DEF SameSock
<1>11. RefsAt(s)' /\ ConnAt(s)'
  BY <1>1, <1>4, <1>6, <1>8, <1>10, RefsFrame, ConnFrame DEF FdInv, SocksCounted
<1>12. LifeAt(s)'
  <2>1. LifeAt(s)
    BY DEF FdInv, LifeRight
  <2> QED
    BY <1>1, <1>4, <1>6, <2>1 DEF LifeAt, Live
<1>13. Failing(s) => ~ sock'[s].abort
  BY <1>4, <1>6 DEF FdInv, DispRight, Failing, FailPcs
<1>14. disp.pc # "loop" => get'[Sweeper].pc = "out"
  BY <1>1 DEF FdInv, DispRight
<1>15. \A f \in Fds, u \in Getters : (Clears(u, f)' => Clears(u, f)) /\ (Takes(u, f)' => Takes(u, f))
  BY <1>1 DEF Clears, Takes
<1> QED
  BY <1>1, <1>4, <1>6, <1>7, <1>8, <1>9, <1>11, <1>12, <1>13, <1>14, <1>15, SockKeep

(* The last step of a connection closes the descriptor.                    *)
LEMMA FreeConnectionStep ==
  ASSUME FdInv, NEW s \in Socks, FreeConnection(s)
  PROVE  FdInv'
<1>1. /\ sock[s].st = "freed" /\ sock[s].closed /\ sock[s].conn = 0 /\ slot' = slot /\ disp' = disp /\ get' = get
      /\ opened' = [opened EXCEPT ![sock[s].fd] = NoSock] /\ sock' = [sock EXCEPT ![s].st = "gone"]
  BY DEF FreeConnection
<1>2. SlotTypes /\ sock[s] \in SockRecord /\ opened \in [Fds -> AnySock]
  BY SlotFields DEF FdInv, SlotTypes
<1>3. PICK x : x = [sock[s] EXCEPT !.st = "gone"]
  OBVIOUS
<1>4. /\ x \in SockRecord /\ x.fd = sock[s].fd /\ x.error = sock[s].error /\ x.abort = sock[s].abort
      /\ x.closed = sock[s].closed /\ x.refs = sock[s].refs /\ x.conn = sock[s].conn /\ x.st = "gone"
  BY <1>2, <1>3 DEF SockRecord
<1>5. sock' = [sock EXCEPT ![s] = x]
  BY <1>1, <1>2, <1>3 DEF SlotTypes
<1>6. sock' \in [Socks -> SockRecord] /\ sock'[s] = x /\ OnlySock(s)
  BY <1>2, <1>4, <1>5, SockPut
<1>7. opened' \in [Fds -> AnySock] /\ \A e \in Fds : opened'[e] = IF e = sock[s].fd THEN NoSock ELSE opened[e]
  BY <1>1, <1>2 DEF AnySock
<1>8. SlotTypes'
  BY <1>1, <1>2, <1>6, <1>7 DEF SlotTypes
<1>9. OpenedRight'
  <2>1. ASSUME NEW e \in Fds, NEW r \in Socks
        PROVE  (opened[e] = r <=> sock[r].st \in {"open", "freed"} /\ sock[r].fd = e) /\ r # NoSock
    BY SlotConstants DEF FdInv, OpenedRight
  <2>3. \A e \in Fds : e = sock[s].fd => opened[e] = s
    BY <1>1 DEF FdInv, OpenedRight
  <2>4. \A r \in Socks : r # s => sock'[r] = sock[r]
    BY <1>6 DEF OnlySock
  <2>2. ASSUME NEW e \in Fds, NEW r \in Socks
        PROVE  opened'[e] = r <=> sock'[r].st \in {"open", "freed"} /\ sock'[r].fd = e
    <3>0. (opened[e] = r <=> sock[r].st \in {"open", "freed"} /\ sock[r].fd = e) /\ r # NoSock
      BY <2>1
    <3>1. CASE r = s
      <4>1. sock'[r].st = "gone"
        BY <1>4, <1>6, <3>1
      <4>2. opened'[e] # r
        <5>1. CASE e = sock[s].fd
          BY <1>7, <3>0, <5>1
        <5>2. CASE e # sock[s].fd
          BY <1>7, <3>0, <3>1, <5>2
        <5> QED
          BY <5>1, <5>2
      <4> QED
        BY <4>1, <4>2
    <3>2. CASE r # s
      <4>1. sock'[r] = sock[r]
        BY <2>4, <3>2
      <4>2. CASE e = sock[s].fd
        <5>1. opened[e] = s /\ opened'[e] = NoSock
          BY <1>7, <2>3, <4>2
        <5> QED
          BY <3>0, <3>2, <4>1, <5>1
      <4>3. CASE e # sock[s].fd
        <5>1. opened'[e] = opened[e]
          BY <1>7, <4>3
        <5> QED
          BY <3>0, <4>1, <5>1
      <4> QED
        BY <4>2, <4>3
    <3> QED
      BY <3>1, <3>2
  <2> QED
    BY <2>2 DEF OpenedRight
<1>10. \A r \in Socks : /\ sock'[r].fd = sock[r].fd /\ sock'[r].error = sock[r].error /\ sock'[r].abort = sock[r].abort
                        /\ sock'[r].closed = sock[r].closed /\ sock'[r].refs = sock[r].refs
                        /\ sock'[r].conn = sock[r].conn /\ (Live(r)' <=> Live(r))
                        /\ sock[r].st # "new" => sock'[r].st # "new"
  BY <1>1, <1>4, <1>6 DEF OnlySock, Live
<1>11. LifeRight'
  <2>1. LifeAt(s)
    BY DEF FdInv, LifeRight
  <2>2. LifeAt(s)'
    BY <1>1, <1>4, <1>6, <2>1 DEF LifeAt, Live
  <2> QED
    BY <1>6, <2>2, LifeFrame DEF FdInv, OnlySock
<1>12. DispRight'
  <2>1. ASSUME disp.pc # "loop" PROVE DispRight'
    <3>1. PICK r \in Socks :
            /\ get[Sweeper].pc = "out" /\ disp.s = r /\ Live(r) /\ sock[r].fd = disp.fd
            /\ disp.pc \in SetupPcs => ~ sock[r].error
            /\ disp.pc \in FailPcs => sock[r].error /\ ~ sock[r].abort
      BY <2>1 DEF FdInv, DispRight
    <3>2. Live(r)' /\ sock'[r].fd = sock[r].fd /\ sock'[r].error = sock[r].error /\ sock'[r].abort = sock[r].abort
      BY <1>10, <3>1
    <3> QED
      BY <1>1, <3>1, <3>2 DEF DispRight
  <2> QED
    BY <1>1, <2>1 DEF DispRight
<1>13. \A r \in Socks : (Setup(r)' <=> Setup(r)) /\ (Failing(r)' <=> Failing(r)) /\ (Counted(r)' <=> Counted(r))
  BY <1>1, <1>10 DEF Setup, Failing, Counted
<1>14. SlotsCounted'
  <2>1. SlotsKept
    BY <1>1 DEF SlotsKept
  <2>2. GettersCountSame
    BY <1>1, GettersStay DEF GettersCountSame
  <2> QED
    BY <1>10, <1>13, <2>1, <2>2, CountsFrame
<1>15. DataRight'
  <2>1. ASSUME NEW e \in Fds, NEW r \in Socks PROVE DataAt(e, r)'
    <3>1. DataAt(e, r) /\ sock'[r].fd = sock[r].fd /\ (Live(r)' <=> Live(r))
      BY <1>10 DEF FdInv, DataRight
    <3> QED
      BY <1>1, <1>13, <3>1 DEF DataAt
  <2> QED
    BY <2>1 DEF DataRight
<1>16. ClearRight'
  BY <1>1 DEF FdInv, ClearRight, ClearAt, MainClears, Clears, Closing, Takes
<1>17. SocksCounted'
  <2>1. ASSUME NEW r \in Socks PROVE RefsAt(r)' /\ ConnAt(r)'
    <3>1. GotBy(r)' = GotBy(r) /\ HeldBy(r)' = HeldBy(r)
      BY <1>1, GettersStay
    <3>2. FromSlot(r)' = FromSlot(r)
      BY <1>1, <1>13 DEF FromSlot, PointsTo
    <3>3. FromConn(r)' = FromConn(r) /\ FromSignal(r)' = FromSignal(r) /\ FromSock(r)' = FromSock(r)
      BY <1>10 DEF FromConn, FromSignal, FromSock
    <3>4. FromMain(r)' = FromMain(r)
      BY <1>13 DEF FromMain
    <3> QED
      BY <1>10, <3>1, <3>2, <3>3, <3>4 DEF FdInv, SocksCounted, RefsAt, ConnAt
  <2> QED
    BY <2>1 DEF SocksCounted
<1>18. GetRight'
  BY <1>1, <1>10, GetFrame DEF FdInv, GetRight
<1>19. EventsRight'
  <2>1. ASSUME NEW f \in Fds, NEW r \in Socks, Served(f, r) PROVE Served(f, r)'
    <3>1. opened[f] = r /\ Live(r) /\ ~ Setup(r)
      BY <2>1 DEF Served
    <3>2. r # s
      BY <1>1, <3>1 DEF Live
    <3>3. opened'[f] = r
      <4>1. f # sock[s].fd
        BY <1>1, <3>1, <3>2 DEF FdInv, OpenedRight
      <4> QED
        BY <1>7, <3>1, <4>1
    <3> QED
      BY <1>10, <1>13, <3>1, <3>3 DEF Served
  <2> QED
    BY <1>1, <1>10, <1>13, <2>1, EventFrame DEF FdInv, EventsRight
<1> QED
  BY <1>8, <1>9, <1>11, <1>12, <1>14, <1>15, <1>16, <1>17, <1>18, <1>19 DEF FdInv

-----------------------------------------------------------------------------
(* Steps of the main thread that leave the sockets alone.                  *)

(* A descriptor has one living socket.                                     *)
LEMMA OneOwner ==
  ASSUME FdInv, NEW f \in Fds, NEW s \in Socks, NEW r \in Socks,
         Live(s), sock[s].fd = f, Live(r), sock[r].fd = f
  PROVE  r = s
<1>1. opened[f] = s /\ opened[f] = r
  BY DEF FdInv, OpenedRight, Live
<1> QED
  BY <1>1

(* Sockets and getters stay: what is left to show is about the slots.      *)
LEMMA MainStep ==
  ASSUME FdInv, SlotTypes', sock' = sock, get' = get, opened' = opened, DispRight',
         \A f \in Fds : slot'[f].high = slot[f].high, \A f \in Fds : LowAt(f)',
         DataRight', ClearRight', EventsRight',
         \A s \in Socks : (PointsTo(s)' <=> PointsTo(s)) /\ (Failing(s)' <=> Failing(s))
  PROVE  FdInv'
<1>1. OpenedRight'
  BY DEF FdInv, OpenedRight
<1>2. LifeRight'
  BY DEF FdInv, LifeRight, LifeAt, Live
<1>3. SlotsCounted'
  BY GettersStay, HighFrame DEF FdInv, SlotsCounted
<1>4. SocksCounted'
  <2>1. ASSUME NEW s \in Socks PROVE RefsAt(s)' /\ ConnAt(s)'
    <3>1. GotBy(s)' = GotBy(s) /\ HeldBy(s)' = HeldBy(s)
      BY GettersStay
    <3>2. FromSlot(s)' = FromSlot(s) /\ FromMain(s)' = FromMain(s)
      BY DEF FromSlot, FromMain
    <3>3. FromConn(s)' = FromConn(s) /\ FromSignal(s)' = FromSignal(s) /\ FromSock(s)' = FromSock(s)
      BY DEF FromConn, FromSignal, FromSock, Live
    <3> QED
      BY <3>1, <3>2, <3>3 DEF FdInv, SocksCounted, RefsAt, ConnAt
  <2> QED
    BY <2>1 DEF SocksCounted
<1>5. GetRight'
  BY GetFrame DEF FdInv, GetRight
<1> QED
  BY <1>1, <1>2, <1>3, <1>4, <1>5 DEF FdInv

(* The same with the main thread where it was, or further in the setup.    *)
LEMMA EventStep ==
  ASSUME FdInv, SlotTypes', sock' = sock, get' = get, opened' = opened, DispRight',
         \A f \in Fds : /\ slot'[f].high = slot[f].high /\ slot'[f].low = slot[f].low
                        /\ slot'[f].data = slot[f].data,
         \A s \in Socks : SameMain(s), disp'.pc = "clear" => disp' = disp, EventsRight'
  PROVE  FdInv'
<1>1. ASSUME NEW f \in Fds PROVE LowAt(f)'
  <2>1. MainHolds(f)' <=> MainHolds(f)
    BY HoldsFrame DEF SameMain
  <2> QED
    BY <2>1, LowFrame, GettersStay DEF FdInv, SlotsCounted
<1>2. DataRight'
  <2>1. \A s \in Socks : SameSock(s)
    BY DEF SameSock
  <2> QED
    BY <2>1, DataFrame DEF FdInv, DataRight
<1>3. ClearRight'
  <2>1. ASSUME NEW f \in Fds PROVE ClearAt(f)'
    <3>1. MainClears(f)' => MainClears(f)
      BY DEF MainClears
    <3>2. \A u \in Getters : (Clears(u, f)' => Clears(u, f)) /\ (Takes(u, f)' => Takes(u, f))
      BY DEF Clears, Takes
    <3> QED
      BY <3>1, <3>2, ClearFrame DEF FdInv, ClearRight
  <2> QED
    BY <2>1 DEF ClearRight
<1>4. \A s \in Socks : (PointsTo(s)' <=> PointsTo(s)) /\ (Failing(s)' <=> Failing(s))
  BY DEF PointsTo, SameMain
<1> QED
  BY <1>1, <1>2, <1>3, <1>4, MainStep

(* The assertions before the handler is set.                               *)
LEMMA AssertStep ==
  ASSUME FdInv, AssertNoData \/ AssertNoRefs \/ AssertUnset, disp'.pc # "stop"
  PROVE  FdInv'
<1>1. PICK pc \in {"refs", "handler", "count"} :
        /\ disp.pc \in {"data", "refs", "handler"} /\ disp' = [disp EXCEPT !.pc = pc]
        /\ slot' = slot /\ sock' = sock /\ get' = get /\ opened' = opened
  <2>1. disp \in DispRecord
    BY DEF FdInv, SlotTypes
  <2>2. \A step, next : \A held \in BOOLEAN : Asserted(step, held, next) => held
    BY <2>1 DEF Asserted, DispRecord
  <2>3. CASE AssertNoData
    BY <2>2, <2>3 DEF AssertNoData, Asserted
  <2>4. CASE AssertNoRefs
    BY <2>2, <2>4 DEF AssertNoRefs, Asserted, Unreferenced
  <2>5. CASE AssertUnset
    BY <2>2, <2>5 DEF AssertUnset, Asserted, Unreferenced
  <2> QED
    BY <2>3, <2>4, <2>5
<1>2. disp' \in DispRecord /\ disp'.pc = pc /\ disp'.s = disp.s /\ disp'.fd = disp.fd
  BY <1>1 DEF FdInv, SlotTypes, DispRecord, DispPcs, SetupPcs
<1>3. SlotTypes'
  BY <1>1, <1>2 DEF FdInv, SlotTypes
<1>4. DispRight'
  BY <1>1, <1>2 DEF FdInv, DispRight, Live, SetupPcs, FailPcs
<1>5. ASSUME NEW s \in Socks PROVE SameMain(s)
  <2>1. Setup(s)' <=> Setup(s)
    BY <1>1, <1>2 DEF Setup, SetupPcs
  <2>2. Failing(s)' <=> Failing(s)
    BY <1>1, <1>2 DEF Failing, FailPcs
  <2>3. Counted(s)' <=> Counted(s)
    BY <1>1, <1>2 DEF Counted, Live, SetupPcs
  <2> QED
    BY <2>1, <2>2, <2>3 DEF SameMain
<1>6. EventsRight'
  <2>1. ASSUME NEW f \in Fds, NEW s \in Socks
        PROVE  (Served(f, s)' <=> Served(f, s)) /\ (Failing(s)' <=> Failing(s))
    BY <1>1, <1>5 DEF Served, Live, SameMain
  <2> QED
    BY <1>1, <2>1, EventFrame DEF FdInv, EventsRight
<1> QED
  BY <1>1, <1>2, <1>3, <1>4, <1>5, <1>6, EventStep

(* The slot of a socket that is being set up.                              *)
LEMMA SetupSlot ==
  ASSUME FdInv, disp.pc \in SetupPcs
  PROVE  \E s \in Socks :
           /\ disp.s = s /\ Live(s) /\ sock[s].fd = disp.fd /\ ~ sock[s].error /\ Setup(s)
           /\ opened[disp.fd] = s /\ slot[disp.fd].data = NoSock /\ ~ slot[disp.fd].queued
           /\ \A u \in Getters : ~ Clears(u, disp.fd)
<1>1. PICK s \in Socks : disp.s = s /\ Live(s) /\ sock[s].fd = disp.fd /\ ~ sock[s].error
  BY DEF FdInv, DispRight, SetupPcs
<1>2. Setup(s)
  BY <1>1 DEF Setup
<1>3. PICK f \in Fds : disp.fd = f
  BY SlotFields DEF FdInv
<1>4. opened[f] = s
  BY <1>1, <1>3 DEF FdInv, OpenedRight, Live
<1>5. slot[f].data = NoSock
  <2>1. slot[f].data \in AnySock
    BY SlotFields DEF FdInv
  <2>2. ASSUME NEW r \in Socks, slot[f].data = r PROVE FALSE
    <3>1. Live(r) /\ sock[r].fd = f /\ ~ Setup(r)
      BY <2>2, DataLive
    <3> QED
      BY <1>1, <1>2, <1>3, <3>1, OneOwner
  <2> QED
    BY <2>1, <2>2 DEF AnySock
<1>6. ~ slot[f].queued
  BY <1>2, <1>4 DEF FdInv, EventsRight, EventAt, Served
<1>7. \A u \in Getters : ~ Clears(u, f)
  BY <1>5 DEF FdInv, ClearRight, ClearAt, Closing
<1> QED
  BY <1>1, <1>2, <1>3, <1>4, <1>5, <1>6, <1>7

(* The new socket is counted in its slot.                                  *)
LEMMA SetHandlerStep ==
  ASSUME FdInv, epoll_sethandler
  PROVE  FdInv'
<1>1. PICK f \in Fds : disp.fd = f
  BY SlotFields DEF FdInv
<1>2. /\ disp.pc = "count" /\ disp' = [disp EXCEPT !.pc = "set"] /\ sock' = sock /\ get' = get /\ opened' = opened
      /\ slot' = [slot EXCEPT ![f].low = @ + 1]
  BY <1>1 DEF epoll_sethandler
<1>3. PICK s \in Socks :
        /\ disp.s = s /\ Live(s) /\ sock[s].fd = f /\ ~ sock[s].error /\ Setup(s)
        /\ opened[f] = s /\ slot[f].data = NoSock /\ ~ slot[f].queued /\ \A u \in Getters : ~ Clears(u, f)
  BY <1>1, <1>2, SetupSlot DEF SetupPcs
<1>4. disp' \in DispRecord /\ disp'.pc = "set" /\ disp'.s = s /\ disp'.fd = f
  BY <1>1, <1>2, <1>3 DEF FdInv, SlotTypes, DispRecord, DispPcs, SetupPcs
<1>5. PICK n : n = slot[f].low + 1
  OBVIOUS
<1>6. n \in Nat /\ slot[f].low \in Nat
  <2>1. slot[f].low \in Nat
    BY SlotFields DEF FdInv
  <2> QED
    BY <1>5, <2>1, SMTT(30)
<1>7. slot' = [slot EXCEPT ![f].low = n]
  BY <1>2, <1>5 DEF FdInv, SlotTypes
<1>8. /\ slot' \in [Fds -> SlotRecord] /\ OnlySlot(f) /\ SameRest(slot[f], slot'[f])
      /\ slot'[f].low = n /\ slot'[f].high = slot[f].high
  BY <1>6, <1>7, SlotLow DEF FdInv
<1>9. SlotTypes'
  BY <1>2, <1>4, <1>8 DEF FdInv, SlotTypes
<1>10. DispRight'
  BY <1>2, <1>3, <1>4 DEF FdInv, DispRight, Live, FailPcs
<1>11. \A r \in Socks : (Setup(r)' <=> Setup(r)) /\ (Failing(r)' <=> Failing(r))
  BY <1>2, <1>3, <1>4 DEF Setup, Failing, SetupPcs, FailPcs
<1>12. ~ Counted(s) /\ Counted(s)' /\ \A r \in Socks : r # s => (Counted(r)' <=> Counted(r))
  <2>1. ~ Counted(s)
    BY <1>2, <1>3 DEF Counted, SetupPcs
  <2>2. Counted(s)'
    BY <1>2, <1>3, <1>4 DEF Counted, Live
  <2>3. ASSUME NEW r \in Socks, r # s PROVE Counted(r)' <=> Counted(r)
    BY <1>2, <1>3, <1>4, <2>3 DEF Counted, Live
  <2> QED
    BY <2>1, <2>2, <2>3
<1>13. ASSUME NEW e \in Fds PROVE LowAt(e)'
  <2>1. LowBy(e)' = LowBy(e) /\ LowAt(e)
    BY <1>2, GettersStay DEF FdInv, SlotsCounted
  <2>2. CASE e # f
    <3>1. MainHolds(e)' <=> MainHolds(e)
      BY <1>2, <1>3, <1>12, <2>2 DEF MainHolds
    <3> QED
      BY <1>8, <2>1, <2>2, <3>1, LowFrame DEF OnlySlot
  <2>3. CASE e = f
    <3>1. ~ MainHolds(f)
      BY <1>3, <1>12, OneOwner DEF MainHolds, Counted
    <3>2. MainHolds(f)'
      BY <1>2, <1>3, <1>12 DEF MainHolds
    <3>3. LowMain(f) = 0 /\ LowMain(f)' = 1
      BY <3>1, <3>2 DEF LowMain
    <3>4. PICK k : k = Cardinality(LowBy(f))
      OBVIOUS
    <3>5. slot[f].low = 0 + k /\ k \in Nat /\ n = slot[f].low + 1
      BY <1>5, <2>1, <2>3, <3>3, <3>4, CountParts DEF LowAt
    <3>6. n = 1 + k
      BY <1>6, <3>5, SMTT(30)
    <3> QED
      BY <1>8, <2>1, <2>3, <3>3, <3>4, <3>6 DEF LowAt
  <2> QED
    BY <2>2, <2>3
<1>14. \A e \in Fds : /\ slot'[e].data = slot[e].data /\ slot'[e].high = slot[e].high
                      /\ slot'[e].queued = slot[e].queued /\ slot'[e].armed = slot[e].armed /\ slot'[e].of = slot[e].of
  BY <1>8 DEF OnlySlot, SameRest
<1>15. DataRight'
  <2>1. ASSUME NEW e \in Fds, NEW r \in Socks PROVE DataAt(e, r)'
    <3>1. DataAt(e, r) /\ (Live(r)' <=> Live(r)) /\ sock'[r].fd = sock[r].fd /\ slot'[e].data = slot[e].data
      BY <1>2, <1>14 DEF FdInv, DataRight, Live
    <3>2. (Setup(r)' <=> Setup(r)) /\ (Counted(r)' /\ ~ Setup(r) => Counted(r))
      BY <1>3, <1>11, <1>12
    <3> QED
      BY <3>1, <3>2 DEF DataAt
  <2> QED
    BY <2>1 DEF DataRight
<1>16. ClearRight'
  <2>1. ASSUME NEW e \in Fds PROVE ClearAt(e)'
    <3>1. ~ MainClears(e)' /\ \A u \in Getters : (Clears(u, e)' => Clears(u, e)) /\ (Takes(u, e)' => Takes(u, e))
      BY <1>2, <1>4 DEF MainClears, Clears, Takes
    <3>2. CASE e = f
      BY <1>3, <3>1, <3>2 DEF ClearAt
    <3>3. CASE e # f
      BY <1>8, <3>1, <3>3, ClearFrame DEF FdInv, ClearRight, OnlySlot
    <3> QED
      BY <3>2, <3>3
  <2> QED
    BY <2>1 DEF ClearRight
<1>17. EventsRight'
  <2>1. ASSUME NEW e \in Fds, NEW r \in Socks
        PROVE  (Served(e, r)' <=> Served(e, r)) /\ (Failing(r)' <=> Failing(r))
    BY <1>2, <1>11 DEF Served, Live
  <2> QED
    BY <1>2, <1>14, <2>1, EventFrame DEF FdInv, EventsRight
<1>18. \A r \in Socks : PointsTo(r)' <=> PointsTo(r)
  BY <1>11, <1>14 DEF PointsTo
<1> QED
  BY <1>2, <1>9, <1>10, <1>11, <1>13, <1>14, <1>15, <1>16, <1>17, <1>18, MainStep

(* The slot points to the new socket, whose setup ends.                    *)
LEMMA SetDataStep ==
  ASSUME FdInv, SetData
  PROVE  FdInv'
<1>1. PICK f \in Fds : disp.fd = f
  BY SlotFields DEF FdInv
<1>2. disp.pc = "set" /\ disp' = Rest /\ sock' = sock /\ get' = get /\ opened' = opened
  BY DEF SetData
<1>3. PICK s \in Socks :
        /\ disp.s = s /\ Live(s) /\ sock[s].fd = f /\ ~ sock[s].error /\ Setup(s)
        /\ opened[f] = s /\ slot[f].data = NoSock /\ ~ slot[f].queued /\ \A u \in Getters : ~ Clears(u, f)
  BY <1>1, <1>2, SetupSlot DEF SetupPcs
<1>4. PICK x : x = [slot[f] EXCEPT !.data = s, !.ready = FALSE, !.armed = TRUE]
  OBVIOUS
<1>5. slot[f] \in SlotRecord
  BY DEF FdInv, SlotTypes
<1>6. /\ x \in SlotRecord /\ x.data = s /\ x.armed /\ x.low = slot[f].low /\ x.high = slot[f].high
      /\ x.queued = slot[f].queued /\ x.of = slot[f].of
  BY <1>4, <1>5 DEF SlotRecord, AnySock
<1>7. slot' = [slot EXCEPT ![f] = x]
  BY <1>1, <1>3, <1>4 DEF SetData
<1>8. slot' \in [Fds -> SlotRecord] /\ slot'[f] = x /\ OnlySlot(f)
  BY <1>6, <1>7, SlotPut DEF FdInv
<1>9. SlotTypes'
  BY <1>2, <1>8, RestRight DEF FdInv, SlotTypes
<1>10. DispRight'
  BY <1>2, RestRight DEF DispRight
<1>11. \A r \in Socks : ~ Setup(r)' /\ (r # s => ~ Setup(r)) /\ ~ Failing(r) /\ ~ Failing(r)'
  BY <1>2, <1>3, RestRight DEF Setup, Failing, SetupPcs, FailPcs
<1>12. \A r \in Socks : Counted(r)' <=> Counted(r)
  BY <1>2, <1>3, RestRight DEF Counted, Live, SetupPcs
<1>13. \A e \in Fds : slot'[e].low = slot[e].low /\ slot'[e].high = slot[e].high
  BY <1>6, <1>8 DEF OnlySlot
<1>14. ASSUME NEW e \in Fds PROVE LowAt(e)'
  <2>1. MainHolds(e)' <=> MainHolds(e)
    BY <1>2, <1>12, HoldsFrame
  <2> QED
    BY <1>2, <1>13, <2>1, LowFrame, GettersStay DEF FdInv, SlotsCounted
<1>15. DataRight'
  <2>1. ASSUME NEW e \in Fds, NEW r \in Socks PROVE DataAt(e, r)'
    <3>1. DataAt(e, r) /\ (Live(r)' <=> Live(r)) /\ sock'[r].fd = sock[r].fd
      BY <1>2 DEF FdInv, DataRight, Live
    <3>2. CASE r = s
      <4>1. slot'[e].data = s => e = f
        BY <1>3, <1>8, <3>1, <3>2 DEF DataAt, OnlySlot
      <4> QED
        BY <1>3, <1>6, <1>8, <1>11, <3>1, <3>2, <4>1 DEF DataAt
    <3>3. CASE r # s
      <4>1. slot'[e].data = r => slot[e].data = r
        BY <1>6, <1>8, <3>3 DEF OnlySlot
      <4>2. Counted(r) /\ sock[r].fd = e => e # f
        BY <1>3, <3>3, OneOwner DEF Counted
      <4>3. e # f => slot'[e].data = slot[e].data
        BY <1>8 DEF OnlySlot
      <4> QED
        BY <1>11, <1>12, <3>1, <3>3, <4>1, <4>2, <4>3 DEF DataAt
    <3> QED
      BY <3>2, <3>3
  <2> QED
    BY <2>1 DEF DataRight
<1>16. ClearRight'
  <2>1. ASSUME NEW e \in Fds PROVE ClearAt(e)'
    <3>1. ~ MainClears(e)' /\ \A u \in Getters : (Clears(u, e)' => Clears(u, e)) /\ (Takes(u, e)' => Takes(u, e))
      BY <1>2, RestRight DEF MainClears, Clears, Takes
    <3>2. CASE e = f
      BY <1>3, <3>1, <3>2 DEF ClearAt
    <3>3. CASE e # f
      BY <1>8, <3>1, <3>3, ClearFrame DEF FdInv, ClearRight, OnlySlot
    <3> QED
      BY <3>2, <3>3
  <2> QED
    BY <2>1 DEF ClearRight
<1>17. EventsRight'
  <2>1. ASSUME NEW e \in Fds, NEW r \in Socks, Served(e, r) PROVE Served(e, r)'
    BY <1>2, <1>11, <2>1 DEF Served, Live
  <2>2. Served(f, s)'
    BY <1>2, <1>3, <1>11 DEF Served, Live
  <2>3. ASSUME NEW e \in Fds PROVE EventAt(e)'
    <3>1. CASE e = f
      <4>1. ~ slot'[f].queued
        BY <1>3, <1>6, <1>8
      <4> QED
        BY <1>2, <1>3, <2>2, <3>1, <4>1 DEF EventAt
    <3>2. CASE e # f
      <4>1. slot'[e] = slot[e] /\ EventAt(e)
        BY <1>8, <3>2 DEF OnlySlot, FdInv, EventsRight
      <4> QED
        BY <1>2, <1>11, <2>1, <4>1, EventFrame
    <3> QED
      BY <3>1, <3>2
  <2> QED
    BY <2>3 DEF EventsRight
<1>18. ASSUME NEW r \in Socks PROVE (PointsTo(r)' <=> PointsTo(r)) /\ (Failing(r)' <=> Failing(r))
  <2>1. CASE r = s
    BY <1>3, <1>6, <1>8, <1>11, <2>1 DEF PointsTo
  <2>2. CASE r # s
    <3>1. \A e \in Fds : slot'[e].data = r <=> slot[e].data = r
      BY <1>3, <1>6, <1>8, <2>2, SlotConstants DEF OnlySlot
    <3> QED
      BY <1>11, <2>2, <3>1 DEF PointsTo
  <2> QED
    BY <1>11, <2>1, <2>2
<1> QED
  BY <1>2, <1>9, <1>10, <1>13, <1>14, <1>15, <1>16, <1>17, <1>18, MainStep

(* Events come and go while the main thread is in its loop.                *)
LEMMA LoopStep ==
  ASSUME FdInv, disp.pc = "loop", disp' = disp, sock' = sock, get' = get, opened' = opened,
         NEW f \in Fds, NEW x \in SlotRecord, slot' = [slot EXCEPT ![f] = x],
         x.low = slot[f].low, x.high = slot[f].high, x.data = slot[f].data,
         x.queued => \E s \in Socks : Served(f, s) /\ ~ sock[s].error /\ x.of = s,
         x.armed => \E s \in Socks : Served(f, s) /\ ~ sock[s].error
  PROVE  FdInv'
<1>1. slot' \in [Fds -> SlotRecord] /\ slot'[f] = x /\ OnlySlot(f)
  BY SlotPut DEF FdInv
<1>2. SlotTypes' /\ DispRight'
  BY <1>1 DEF FdInv, SlotTypes, DispRight
<1>3. \A s \in Socks : SameMain(s)
  BY MainStays
<1>4. \A e \in Fds : slot'[e].low = slot[e].low /\ slot'[e].high = slot[e].high /\ slot'[e].data = slot[e].data
  BY <1>1 DEF OnlySlot
<1>5. ASSUME NEW e \in Fds, NEW s \in Socks PROVE Served(e, s)' <=> Served(e, s)
  BY DEF Served, Live, Setup
<1>6. EventsRight'
  <2>1. EventAt(f)'
    BY <1>1, <1>5 DEF EventAt
  <2>2. ASSUME NEW e \in Fds, e # f PROVE EventAt(e)'
    <3>1. slot'[e] = slot[e] /\ EventAt(e)
      BY <1>1, <2>2 DEF OnlySlot, FdInv, EventsRight
    <3>2. \A s \in Socks : Failing(s)' <=> Failing(s)
      BY DEF Failing
    <3> QED
      BY <1>5, <3>1, <3>2, EventFrame
  <2> QED
    BY <2>1, <2>2 DEF EventsRight
<1> QED
  BY <1>2, <1>3, <1>4, <1>6, EventStep

(* In the loop no socket is failing.                                       *)
LEMMA ArmedInLoop ==
  ASSUME FdInv, disp.pc = "loop", NEW f \in Fds
  PROVE  /\ slot[f].queued => \E s \in Socks : Served(f, s) /\ ~ sock[s].error /\ slot[f].of = s
         /\ slot[f].armed => \E s \in Socks : Served(f, s) /\ ~ sock[s].error
BY DEF FdInv, EventsRight, EventAt, Failing, FailPcs

(* epoll_wait reports a descriptor.                                        *)
LEMMA FetchStep ==
  ASSUME FdInv, NEW f \in Fds, FetchEvent(f)
  PROVE  FdInv'
<1>1. /\ disp.pc = "loop" /\ slot[f].armed /\ sock' = sock /\ disp' = disp /\ get' = get /\ opened' = opened
  BY DEF FetchEvent, MainFree
<1>2. PICK x : x = [slot[f] EXCEPT !.queued = TRUE, !.ready = TRUE, !.of = opened[f]]
  OBVIOUS
<1>3. slot[f] \in SlotRecord /\ opened[f] \in AnySock
  BY SlotFields DEF FdInv
<1>4. /\ x \in SlotRecord /\ x.low = slot[f].low /\ x.high = slot[f].high /\ x.data = slot[f].data
      /\ x.of = opened[f] /\ x.armed = slot[f].armed
  BY <1>2, <1>3 DEF SlotRecord
<1>5. slot' = [slot EXCEPT ![f] = x]
  BY <1>2 DEF FetchEvent
<1>6. PICK s \in Socks : Served(f, s) /\ ~ sock[s].error
  BY <1>1, ArmedInLoop
<1>7. x.of = s
  BY <1>4, <1>6 DEF Served
<1> QED
  BY <1>1, <1>4, <1>5, <1>6, <1>7, LoopStep

(* A socket changes the events it waits for.                               *)
LEMMA AuxStep ==
  ASSUME FdInv, NEW s \in Socks, SocketAux(s)
  PROVE  FdInv'
<1>1. /\ disp.pc = "loop" /\ Live(s) /\ ~ sock[s].error
      /\ sock' = sock /\ disp' = disp /\ get' = get /\ opened' = opened
  BY DEF SocketAux, MainFree, Live
<1>2. PICK f \in Fds : sock[s].fd = f
  BY <1>1 DEF FdInv, LifeRight, LifeAt
<1>3. PICK x : x = [slot[f] EXCEPT !.ready = FALSE, !.armed = TRUE]
  OBVIOUS
<1>4. slot[f] \in SlotRecord
  BY SlotFields DEF FdInv
<1>5. /\ x \in SlotRecord /\ x.low = slot[f].low /\ x.high = slot[f].high /\ x.data = slot[f].data
      /\ x.of = slot[f].of /\ x.queued = slot[f].queued
  BY <1>3, <1>4 DEF SlotRecord
<1>6. slot' = [slot EXCEPT ![f] = x]
  BY <1>2, <1>3 DEF SocketAux
<1>7. Served(f, s)
  BY <1>1, <1>2 DEF Served, Setup, SetupPcs, FdInv, OpenedRight, Live
<1>8. x.queued => \E r \in Socks : Served(f, r) /\ ~ sock[r].error /\ x.of = r
  BY <1>1, <1>5, ArmedInLoop
<1> QED
  BY <1>1, <1>5, <1>6, <1>7, <1>8, LoopStep

(* An event is run, and may abort its socket.                              *)
LEMMA RunStep ==
  ASSUME FdInv, NEW f \in Fds, RunEvent(f)
  PROVE  FdInv'
<1>1. disp.pc = "loop" /\ slot[f].data # NoSock /\ disp' = disp /\ get' = get /\ opened' = opened
  BY DEF RunEvent, MainFree
<1>2. slot[f] \in SlotRecord /\ slot[f].data \in AnySock /\ SlotTypes
  BY SlotFields DEF FdInv
<1>3. PICK s \in Socks : slot[f].data = s
  BY <1>1, <1>2 DEF AnySock
<1>4. Live(s) /\ sock[s].fd = f
  BY <1>3, DataLive
<1>5. PICK x :
        /\ slot' = [slot EXCEPT ![f] = x] /\ sock' \in {sock, SignalAbort(sock, s)}
        /\ x \in {[slot[f] EXCEPT !.queued = FALSE, !.armed = FALSE], [slot[f] EXCEPT !.queued = FALSE, !.ready = FALSE]}
  BY <1>3 DEF RunEvent
<1>6. /\ x \in SlotRecord /\ x.low = slot[f].low /\ x.high = slot[f].high /\ x.data = slot[f].data
      /\ x.of = slot[f].of /\ ~ x.queued /\ x.armed \in {slot[f].armed, FALSE}
  <2>1. CASE x = [slot[f] EXCEPT !.queued = FALSE, !.armed = FALSE]
    BY <1>2, <2>1 DEF SlotRecord
  <2>2. CASE x = [slot[f] EXCEPT !.queued = FALSE, !.ready = FALSE]
    BY <1>2, <2>2 DEF SlotRecord
  <2> QED
    BY <1>5, <2>1, <2>2
<1>7. slot' \in [Fds -> SlotRecord] /\ slot'[f] = x /\ OnlySlot(f)
  BY <1>2, <1>5, <1>6, SlotPut
<1>8. CASE sock' = sock
  <2>1. x.armed => \E r \in Socks : Served(f, r) /\ ~ sock[r].error
    BY <1>1, <1>6, ArmedInLoop
  <2> QED
    BY <1>1, <1>5, <1>6, <1>8, <2>1, LoopStep
<1>9. CASE sock' # sock
  <2>1. ~ sock[s].error /\ ~ sock[s].abort
    BY <1>5, <1>9 DEF SignalAbort
  <2>2. PICK n : n = sock[s].refs + 1
    OBVIOUS
  <2>3. sock[s] \in SockRecord /\ sock[s].refs \in Nat
    BY <1>2, SlotFields
  <2>4. n \in Nat /\ n > 0
    BY <2>2, <2>3, SMTT(30)
  <2>5. PICK y : y = [sock[s] EXCEPT !.abort = TRUE, !.refs = n]
    OBVIOUS
  <2>6. /\ y \in SockRecord /\ y.fd = sock[s].fd /\ y.error = sock[s].error /\ y.abort
        /\ y.closed = sock[s].closed /\ y.refs = n /\ y.conn = sock[s].conn /\ y.st = sock[s].st
        /\ y.failed = sock[s].failed
    BY <2>3, <2>4, <2>5 DEF SockRecord
  <2>7. sock' = [sock EXCEPT ![s] = y]
    BY <1>5, <1>9, <2>1, <2>2, <2>5 DEF SignalAbort
  <2>8. sock' \in [Socks -> SockRecord] /\ sock'[s] = y /\ OnlySock(s)
    BY <1>2, <2>6, <2>7, SockPut
  <2>9. SlotTypes'
    BY <1>1, <1>2, <1>7, <2>8 DEF SlotTypes
  <2>10. SlotsKept /\ \A e \in Fds : slot'[e].data = slot[e].data
    BY <1>6, <1>7 DEF SlotsKept, OnlySlot
  <2>11. GettersCountSame /\ OthersCountSame(s) /\ GotBy(s)' = GotBy(s) /\ HeldBy(s)' = HeldBy(s) /\ GettersRight
    BY <1>1, GettersStay DEF GettersCountSame, OthersCountSame, GettersRight
  <2>12. LifeAt(s)'
    BY <1>4, <2>1, <2>4, <2>6, <2>8 DEF LifeAt, Live, FdInv, LifeRight
  <2>13. ~ Failing(s) /\ SameMain(s)
    BY <1>1, <2>6, <2>8, MainStays DEF Failing, FailPcs
  <2>14. RefsAt(s)'
    <3>1. SlotPart(s)
      BY <2>10, <2>13 DEF SlotPart, FromSlot, PointsTo, SameMain
    <3>2. ConnPart(s) /\ GotPart(s)
      BY <2>6, <2>8, <2>11 DEF ConnPart, ByConn, GotPart
    <3>3. MainPart(s)
      BY <2>13 DEF MainPart, FromMain, SameMain
    <3>4. FromSignal(s) = 0 /\ FromSignal(s)' = 1
      BY <2>1, <2>6, <2>8 DEF FromSignal
    <3>5. LeftRefs(s)'
      BY <1>4, <2>2, <2>6, <2>8, <3>1, <3>2, <3>3, <3>4, LiveCounts, OneMoreOrMoved
    <3>6. FromConn(s)' = ByConn(s)'
      BY <1>4, <2>6, <2>8 DEF FromConn, ByConn, Live
    <3> QED
      BY <3>5, <3>6 DEF RefsAt, LeftRefs
  <2>15. ConnAt(s)'
    BY <2>6, <2>8, <2>11, ConnFrame DEF FdInv, SocksCounted
  <2>16. \A e \in Fds, u \in Getters : (Clears(u, e)' => Clears(u, e)) /\ (Takes(u, e)' => Takes(u, e))
    BY <1>1 DEF Clears, Takes
  <2> QED
    BY <1>1, <2>6, <2>8, <2>9, <2>10, <2>11, <2>12, <2>13, <2>14, <2>15, <2>16, SockKeep
<1> QED
  BY <1>8, <1>9

(* A pending signal is a reference.                                        *)
LEMMA SignalledLive ==
  ASSUME FdInv, NEW s \in Socks, sock[s].abort
  PROVE  Live(s)
<1>1. RefsAt(s) /\ LifeAt(s)
  BY DEF FdInv, SocksCounted, LifeRight
<1>2. PICK n, a, b, d, k :
        /\ n = sock[s].refs /\ a = FromSlot(s) /\ b = FromConn(s) /\ d = FromMain(s) /\ k = Cardinality(GotBy(s))
  OBVIOUS
<1>3. a \in {0, 1} /\ b \in {0, 1} /\ d \in {0, 1} /\ k \in Nat
  BY <1>2, CountParts
<1>4. n = a + b + 1 + d + k
  BY <1>1, <1>2 DEF RefsAt, FromSignal
<1>5. n > 0
  BY <1>3, <1>4, SMTT(30)
<1> QED
  BY <1>1, <1>2, <1>5 DEF LifeAt

(* The signal's reference becomes the failing main thread's, and the event *)
(* leaves the heap.                                                        *)
LEMMA FailSocketStep ==
  ASSUME FdInv, NEW s \in Socks, fail_socket_connection(s)
  PROVE  FdInv'
<1>1. /\ disp.pc = "loop" /\ get[Sweeper].pc = "out" /\ sock[s].abort /\ get' = get /\ opened' = opened
      /\ sock' = [sock EXCEPT ![s] = [@ EXCEPT !.abort = FALSE, !.error = TRUE]]
  BY DEF fail_socket_connection, MainFree
<1>2. Live(s) /\ ~ sock[s].error
  BY <1>1, SignalledLive DEF FdInv, LifeRight, LifeAt
<1>3. PICK f \in Fds : sock[s].fd = f
  BY <1>2 DEF FdInv, LifeRight, LifeAt
<1>4. SlotTypes /\ slot[f] \in SlotRecord /\ sock[s] \in SockRecord
  BY SlotFields DEF FdInv
<1>5. PICK d : d = [pc |-> "drop", fd |-> f, s |-> s]
  OBVIOUS
<1>6. disp' = d /\ d \in DispRecord /\ d.pc = "drop" /\ d.fd = f /\ d.s = s
  <2>1. d \in DispRecord /\ d.pc = "drop" /\ d.fd = f /\ d.s = s
    BY <1>5 DEF DispRecord, DispPcs, FailPcs, AnySock
  <2> QED
    BY <1>3, <1>5, <2>1 DEF fail_socket_connection
<1>7. PICK y : y = [sock[s] EXCEPT !.abort = FALSE, !.error = TRUE]
  OBVIOUS
<1>8. /\ y \in SockRecord /\ y.fd = sock[s].fd /\ y.error /\ ~ y.abort
      /\ y.closed = sock[s].closed /\ y.refs = sock[s].refs /\ y.conn = sock[s].conn /\ y.st = sock[s].st
      /\ y.failed = sock[s].failed
  BY <1>4, <1>7 DEF SockRecord
<1>9. sock' = [sock EXCEPT ![s] = y]
  BY <1>1, <1>7
<1>10. sock' \in [Socks -> SockRecord] /\ sock'[s] = y /\ OnlySock(s)
  BY <1>4, <1>8, <1>9, SockPut
<1>11. PICK x : x = [slot[f] EXCEPT !.queued = FALSE]
  OBVIOUS
<1>12. /\ x \in SlotRecord /\ x.low = slot[f].low /\ x.high = slot[f].high /\ x.data = slot[f].data
       /\ x.of = slot[f].of /\ ~ x.queued /\ x.armed = slot[f].armed
  BY <1>4, <1>11 DEF SlotRecord
<1>13. slot' = [slot EXCEPT ![f] = x]
  BY <1>3, <1>4, <1>11 DEF fail_socket_connection, SlotTypes
<1>14. slot' \in [Fds -> SlotRecord] /\ slot'[f] = x /\ OnlySlot(f)
  BY <1>4, <1>12, <1>13, SlotPut
<1>15. SlotTypes'
  BY <1>1, <1>4, <1>6, <1>10, <1>14 DEF SlotTypes
<1>16. \A r \in Socks : /\ sock'[r].st = sock[r].st /\ sock'[r].fd = sock[r].fd /\ sock'[r].closed = sock[r].closed
                        /\ sock'[r].refs = sock[r].refs /\ sock'[r].conn = sock[r].conn
                        /\ Live(r)' <=> Live(r)
  BY <1>8, <1>10 DEF OnlySock, Live
<1>17. \A e \in Fds : /\ slot'[e].low = slot[e].low /\ slot'[e].high = slot[e].high /\ slot'[e].data = slot[e].data
                      /\ slot'[e].of = slot[e].of /\ slot'[e].armed = slot[e].armed
                      /\ slot'[e].queued => slot[e].queued /\ e # f
  BY <1>12, <1>14 DEF OnlySlot
<1>18. OpenedRight'
  BY <1>1, <1>16, OpenedFrame DEF FdInv
<1>19. LifeRight'
  <2>1. LifeAt(s)'
    BY <1>8, <1>10, <1>2 DEF LifeAt, Live, FdInv, LifeRight
  <2> QED
    BY <1>10, <2>1, LifeFrame DEF FdInv, OnlySock
<1>20. DispRight'
  <2>1. get'[Sweeper].pc = "out" /\ disp'.pc \notin SetupPcs
    BY <1>1, <1>6 DEF SetupPcs
  <2>2. disp'.s = s /\ Live(s)' /\ sock'[s].fd = disp'.fd /\ sock'[s].error /\ ~ sock'[s].abort
    BY <1>2, <1>3, <1>6, <1>8, <1>10, <1>16
  <2> QED
    BY <2>1, <2>2 DEF DispRight
<1>21. \A r \in Socks : ~ Setup(r) /\ ~ Setup(r)' /\ ~ Failing(r) /\ (r # s => ~ Failing(r)') /\ Failing(s)'
  BY <1>1, <1>6 DEF Setup, Failing, SetupPcs, FailPcs
<1>22. \A r \in Socks : Counted(r)' <=> Counted(r)
  <2>1. Counted(s) /\ Counted(s)'
    BY <1>1, <1>2, <1>6, <1>16 DEF Counted, SetupPcs
  <2>2. ASSUME NEW r \in Socks, r # s PROVE Counted(r)' <=> Counted(r)
    BY <1>1, <1>6, <1>10, <2>2 DEF Counted, OnlySock, SetupPcs, Live
  <2> QED
    BY <2>1, <2>2
<1>23. SlotsCounted'
  <2>1. SlotsKept /\ GettersCountSame
    BY <1>1, <1>17, GettersStay DEF SlotsKept, GettersCountSame
  <2> QED
    BY <1>16, <1>22, <2>1, CountsFrame
<1>24. DataRight'
  <2>1. ASSUME NEW e \in Fds, NEW r \in Socks PROVE DataAt(e, r)'
    <3>1. DataAt(e, r) /\ (Live(r)' <=> Live(r)) /\ sock'[r].fd = sock[r].fd /\ slot'[e].data = slot[e].data
      BY <1>16, <1>17 DEF FdInv, DataRight
    <3> QED
      BY <1>21, <1>22, <3>1 DEF DataAt
  <2> QED
    BY <2>1 DEF DataRight
<1>25. ClearRight'
  <2>1. ASSUME NEW e \in Fds PROVE ClearAt(e)'
    <3>1. ~ MainClears(e)'
      BY <1>6 DEF MainClears
    <3>2. \A u \in Getters : (Clears(u, e)' => Clears(u, e)) /\ (Takes(u, e)' => Takes(u, e))
      BY <1>1 DEF Clears, Takes
    <3> QED
      BY <1>17, <3>1, <3>2, ClearFrame DEF FdInv, ClearRight
  <2> QED
    BY <2>1 DEF ClearRight
<1>26. SocksCounted'
  <2>1. ASSUME NEW r \in Socks PROVE RefsAt(r)' /\ ConnAt(r)'
    <3>1. GotBy(r)' = GotBy(r) /\ HeldBy(r)' = HeldBy(r)
      BY <1>1, GettersStay
    <3>2. FromSlot(r)' = FromSlot(r)
      BY <1>17, <1>21 DEF FromSlot, PointsTo
    <3>3. FromConn(r)' = FromConn(r) /\ FromSock(r)' = FromSock(r)
      BY <1>16 DEF FromConn, FromSock
    <3>4. CASE r = s
      <4>1. SlotPart(s) /\ GotPart(s) /\ ConnPart(s)
        BY <1>8, <1>10, <3>1, <3>2, <3>4 DEF SlotPart, GotPart, ConnPart, ByConn
      <4>2. FromSignal(s) = 1 /\ FromSignal(s)' = 0
        BY <1>1, <1>8, <1>10 DEF FromSignal
      <4>3. FromMain(s) = 0 /\ FromMain(s)' = 1
        BY <1>21 DEF FromMain
      <4>4. LeftRefs(s)'
        BY <1>2, <1>8, <1>10, <4>1, <4>2, <4>3, LiveCounts, OneMoreOrMoved
      <4>5. FromConn(s)' = ByConn(s)'
        BY <1>2, <1>16 DEF FromConn, ByConn
      <4>6. RefsAt(s)'
        BY <4>4, <4>5 DEF RefsAt, LeftRefs
      <4>7. ConnAt(s)'
        BY <1>16, <3>1, <3>3, <3>4 DEF FdInv, SocksCounted, ConnAt
      <4> QED
        BY <3>4, <4>6, <4>7
    <3>5. CASE r # s
      <4>1. FromSignal(r)' = FromSignal(r) /\ FromMain(r)' = FromMain(r)
        BY <1>10, <1>21, <3>5 DEF FromSignal, FromMain, OnlySock
      <4> QED
        BY <1>16, <3>1, <3>2, <3>3, <4>1 DEF FdInv, SocksCounted, RefsAt, ConnAt
    <3> QED
      BY <3>4, <3>5
  <2> QED
    BY <2>1 DEF SocksCounted
<1>27. GetRight'
  BY <1>1, <1>16, GetFrame DEF FdInv, GetRight
<1>28. EventsRight'
  <2>1. ASSUME NEW e \in Fds, NEW r \in Socks PROVE Served(e, r)' <=> Served(e, r)
    BY <1>1, <1>16, <1>21 DEF Served
  <2>2. ASSUME NEW e \in Fds, NEW r \in Socks, Served(e, r), e # f PROVE r # s
    BY <1>3, <2>2 DEF Served, FdInv, OpenedRight
  <2>3. ASSUME NEW e \in Fds PROVE EventAt(e)'
    <3>1. EventAt(e)
      BY DEF FdInv, EventsRight
    <3>2. slot'[e].queued => \E r \in Socks : Served(e, r)' /\ ~ sock'[r].error /\ slot'[e].of = r
      <4>1. ASSUME slot'[e].queued PROVE \E r \in Socks : Served(e, r)' /\ ~ sock'[r].error /\ slot'[e].of = r
        <5>1. PICK r \in Socks : Served(e, r) /\ ~ sock[r].error /\ slot[e].of = r
          BY <1>17, <3>1, <4>1 DEF EventAt
        <5>2. r # s
          BY <1>17, <2>2, <4>1, <5>1
        <5> QED
          BY <1>10, <1>17, <2>1, <5>1, <5>2 DEF OnlySock
      <4> QED
        BY <4>1
    <3>3. slot'[e].armed => \E r \in Socks : Served(e, r)' /\ (sock'[r].error => Failing(r)')
      <4>1. ASSUME slot'[e].armed PROVE \E r \in Socks : Served(e, r)' /\ (sock'[r].error => Failing(r)')
        <5>1. PICK r \in Socks : Served(e, r) /\ (sock[r].error => Failing(r))
          BY <1>17, <3>1, <4>1 DEF EventAt
        <5>2. sock'[r].error => Failing(r)'
          BY <1>10, <1>21, <5>1 DEF OnlySock
        <5> QED
          BY <2>1, <5>1, <5>2
      <4> QED
        BY <4>1
    <3> QED
      BY <3>2, <3>3 DEF EventAt
  <2> QED
    BY <2>3 DEF EventsRight
<1> QED
  BY <1>15, <1>18, <1>19, <1>20, <1>23, <1>24, <1>25, <1>26, <1>27, <1>28 DEF FdInv

(* The main thread drops the socket's count in the slot and may have to    *)
(* clear it.                                                               *)
LEMMA IncrefStep ==
  ASSUME FdInv, connection_event_incref
  PROVE  FdInv'
<1>1. PICK f \in Fds : disp.fd = f
  BY SlotFields DEF FdInv
<1>2. /\ disp.pc = "drop" /\ sock' = sock /\ get' = get /\ opened' = opened
      /\ slot' = [slot EXCEPT ![f].low = @ - 1]
  BY <1>1 DEF connection_event_incref
<1>3. PICK s \in Socks : disp.s = s /\ Live(s) /\ sock[s].fd = f /\ sock[s].error /\ ~ sock[s].abort
  BY <1>1, <1>2 DEF FdInv, DispRight, FailPcs
<1>4. get[Sweeper].pc = "out"
  BY <1>2 DEF FdInv, DispRight
<1>5. PICK pc \in {"clear", "leave"} : disp' = [disp EXCEPT !.pc = pc] /\ (pc = "clear" => MustClear(f))
  BY <1>1 DEF connection_event_incref
<1>6. disp' \in DispRecord /\ disp'.pc = pc /\ disp'.s = s /\ disp'.fd = f
  BY <1>1, <1>3, <1>5 DEF FdInv, SlotTypes, DispRecord, DispPcs, FailPcs
<1>7. Counted(s) /\ ~ Counted(s)' /\ \A r \in Socks : r # s => (Counted(r)' <=> Counted(r))
  <2>1. Counted(s)
    BY <1>2, <1>3 DEF Counted, SetupPcs
  <2>2. ~ Counted(s)'
    BY <1>2, <1>3, <1>6 DEF Counted
  <2>3. ASSUME NEW r \in Socks, r # s PROVE Counted(r)' <=> Counted(r)
    BY <1>2, <1>3, <1>6, <2>3 DEF Counted, Live
  <2> QED
    BY <2>1, <2>2, <2>3
<1>8. PICK k, n : k = Cardinality(LowBy(f)) /\ n = slot[f].low - 1
  OBVIOUS
<1>9. MainHolds(f) /\ LowMain(f) = 1
  BY <1>3, <1>7 DEF MainHolds, LowMain
<1>10. ~ MainHolds(f)' /\ LowMain(f)' = 0
  <2>1. ASSUME NEW r \in Socks, Counted(r)', sock'[r].fd = f PROVE FALSE
    <3>1. r # s
      BY <1>7, <2>1
    <3>2. Live(r) /\ sock[r].fd = f
      BY <1>2, <1>7, <2>1, <3>1 DEF Counted
    <3> QED
      BY <1>3, <3>1, <3>2, OneOwner
  <2> QED
    BY <2>1 DEF MainHolds, LowMain
<1>11. slot[f].low = 1 + k /\ k \in Nat
  BY <1>8, <1>9, CountParts DEF FdInv, SlotsCounted, LowAt
<1>12. n = 0 + k /\ n \in Nat /\ slot[f].low # 0
  BY <1>8, <1>11, SMTT(30)
<1>13. slot' = [slot EXCEPT ![f].low = n]
  BY <1>2, <1>8 DEF FdInv, SlotTypes
<1>14. /\ slot' \in [Fds -> SlotRecord] /\ OnlySlot(f) /\ SameRest(slot[f], slot'[f])
       /\ slot'[f].low = n /\ slot'[f].high = slot[f].high
  BY <1>12, <1>13, SlotLow DEF FdInv
<1>15. SlotTypes'
  BY <1>2, <1>6, <1>14 DEF FdInv, SlotTypes
<1>16. DispRight'
  <2>1. disp'.pc \notin SetupPcs
    BY <1>6 DEF SetupPcs
  <2> QED
    BY <1>2, <1>3, <1>4, <1>6, <2>1 DEF DispRight, Live
<1>17. \A r \in Socks : (Setup(r)' <=> Setup(r)) /\ (Failing(r)' <=> Failing(r))
  BY <1>2, <1>3, <1>6 DEF Setup, Failing, SetupPcs, FailPcs
<1>18. ASSUME NEW e \in Fds PROVE LowAt(e)'
  <2>1. LowBy(e)' = LowBy(e) /\ LowAt(e)
    BY <1>2, GettersStay DEF FdInv, SlotsCounted
  <2>2. CASE e # f
    <3>1. MainHolds(e)' <=> MainHolds(e)
      BY <1>2, <1>3, <1>7, <2>2 DEF MainHolds
    <3> QED
      BY <1>14, <2>1, <2>2, <3>1, LowFrame DEF OnlySlot
  <2>3. CASE e = f
    BY <1>8, <1>10, <1>12, <1>14, <2>1, <2>3 DEF LowAt
  <2> QED
    BY <2>2, <2>3
<1>19. \A e \in Fds : /\ slot'[e].data = slot[e].data /\ slot'[e].high = slot[e].high
                      /\ slot'[e].queued = slot[e].queued /\ slot'[e].armed = slot[e].armed /\ slot'[e].of = slot[e].of
  BY <1>14 DEF OnlySlot, SameRest
<1>20. DataRight'
  <2>1. ASSUME NEW e \in Fds, NEW r \in Socks PROVE DataAt(e, r)'
    <3>1. DataAt(e, r) /\ (Live(r)' <=> Live(r)) /\ sock'[r].fd = sock[r].fd /\ slot'[e].data = slot[e].data
      BY <1>2, <1>19 DEF FdInv, DataRight, Live
    <3>2. (Setup(r)' <=> Setup(r)) /\ (Counted(r)' => Counted(r))
      BY <1>7, <1>17
    <3> QED
      BY <3>1, <3>2 DEF DataAt
  <2> QED
    BY <2>1 DEF DataRight
<1>21. ClearRight'
  <2>1. ASSUME NEW e \in Fds PROVE ClearAt(e)'
    <3>1. \A u \in Getters : (Clears(u, e)' => Clears(u, e)) /\ (Takes(u, e)' => Takes(u, e))
      BY <1>2 DEF Clears, Takes
    <3>2. CASE e = f
      <4>1. \A u \in Getters : ~ Clears(u, f)'
        BY <1>12, <3>1, <3>2, NobodyClears
      <4>2. ASSUME MainClears(f)' PROVE Closing(f)'
        <5>1. slot[f].low = 1 /\ slot[f].high = 0 /\ slot[f].data # NoSock
          BY <1>5, <1>6, <4>2 DEF MainClears, MustClear
        <5>2. n = 0
          BY <1>8, <5>1, SMTT(30)
        <5>3. \A u \in Getters : ~ Takes(u, f)'
          BY <3>1, <3>2, <5>1, NobodyTakes
        <5> QED
          BY <1>14, <5>1, <5>2, <5>3 DEF Closing, SameRest
      <4> QED
        BY <3>2, <4>1, <4>2 DEF ClearAt
    <3>3. CASE e # f
      <4>1. ~ MainClears(e)'
        BY <1>6, <3>3 DEF MainClears
      <4> QED
        BY <1>14, <3>1, <3>3, <4>1, ClearFrame DEF FdInv, ClearRight, OnlySlot
    <3> QED
      BY <3>2, <3>3
  <2> QED
    BY <2>1 DEF ClearRight
<1>22. EventsRight'
  <2>1. ASSUME NEW e \in Fds, NEW r \in Socks
        PROVE  (Served(e, r)' <=> Served(e, r)) /\ (Failing(r)' <=> Failing(r))
    BY <1>2, <1>17 DEF Served, Live
  <2> QED
    BY <1>2, <1>19, <2>1, EventFrame DEF FdInv, EventsRight
<1>23. \A r \in Socks : PointsTo(r)' <=> PointsTo(r)
  BY <1>17, <1>19 DEF PointsTo
<1> QED
  BY <1>2, <1>15, <1>16, <1>17, <1>18, <1>19, <1>20, <1>21, <1>22, <1>23, MainStep

(* A connection that has not been used yet has no references.              *)
LEMMA NewUnused ==
  ASSUME FdInv, NEW s \in Socks, sock[s].st = "new"
  PROVE  /\ ~ Live(s) /\ ~ sock[s].abort /\ ~ sock[s].error /\ ~ sock[s].closed /\ ~ sock[s].failed
         /\ Cardinality(GotBy(s)) = 0 /\ Cardinality(HeldBy(s)) = 0 /\ \A f \in Fds : slot[f].data # s
<1>1. ~ Live(s)
  BY DEF Live
<1>2. GotBy(s) = {} /\ HeldBy(s) = {}
  <2>1. ASSUME NEW g \in Getters, get[g].got = s, get[g].pc \in GotPcs \cup {"hold"} PROVE FALSE
    BY <2>1 DEF FdInv, GetRight, GetAt
  <2> QED
    BY <2>1 DEF GotBy, HeldBy
<1>3. \A f \in Fds : slot[f].data # s
  BY <1>1, DataLive
<1>4. ~ sock[s].abort /\ ~ sock[s].error /\ ~ sock[s].closed /\ ~ sock[s].failed
  BY <1>1, SignalledLive DEF FdInv, LifeRight, LifeAt
<1> QED
  BY <1>1, <1>2, <1>3, <1>4, FS_EmptySet

(* A new connection takes a free descriptor.                               *)
LEMMA AllocStep ==
  ASSUME FdInv, NEW s \in Socks, NEW f \in Fds, alloc_new_socket_connection(s, f)
  PROVE  FdInv'
<1>1. /\ disp.pc = "loop" /\ get[Sweeper].pc = "out" /\ sock[s].st = "new" /\ opened[f] = NoSock
      /\ opened' = [opened EXCEPT ![f] = s] /\ slot' = slot /\ get' = get
      /\ sock' = [sock EXCEPT ![s] = [@ EXCEPT !.st = "open", !.fd = f, !.refs = 2, !.conn = 1]]
      /\ disp' = [pc |-> "data", fd |-> f, s |-> s]
  BY DEF alloc_new_socket_connection, MainFree
<1>2. /\ ~ Live(s) /\ ~ sock[s].abort /\ ~ sock[s].error /\ ~ sock[s].closed /\ ~ sock[s].failed
      /\ Cardinality(GotBy(s)) = 0 /\ Cardinality(HeldBy(s)) = 0 /\ \A e \in Fds : slot[e].data # s
  BY <1>1, NewUnused
<1>3. SlotTypes /\ sock[s] \in SockRecord
  BY SlotFields DEF FdInv
<1>4. disp' \in DispRecord /\ disp'.pc = "data" /\ disp'.fd = f /\ disp'.s = s
  BY <1>1 DEF DispRecord, DispPcs, SetupPcs, AnySock
<1>5. PICK y : y = [sock[s] EXCEPT !.st = "open", !.fd = f, !.refs = 2, !.conn = 1]
  OBVIOUS
<1>6. 2 \in Nat /\ 1 \in Nat /\ 2 > 0
  BY SMT
<1>7. /\ y \in SockRecord /\ y.st = "open" /\ y.fd = f /\ y.refs = 2 /\ y.conn = 1 /\ y.error = sock[s].error
      /\ y.failed = sock[s].failed /\ y.closed = sock[s].closed /\ y.abort = sock[s].abort
  BY <1>3, <1>5, <1>6 DEF SockRecord
<1>8. sock' = [sock EXCEPT ![s] = y]
  BY <1>1, <1>5
<1>9. sock' \in [Socks -> SockRecord] /\ sock'[s] = y /\ OnlySock(s)
  BY <1>3, <1>7, <1>8, SockPut
<1>10. /\ opened' \in [Fds -> AnySock] /\ opened'[f] = s /\ \A e \in Fds : e # f => opened'[e] = opened[e]
  BY <1>1, <1>3 DEF SlotTypes, AnySock
<1>11. SlotTypes'
  BY <1>1, <1>3, <1>4, <1>9, <1>10 DEF SlotTypes
<1>12. Live(s)' /\ \A r \in Socks : r # s => (Live(r)' <=> Live(r)) /\ sock'[r] = sock[r]
  BY <1>7, <1>9 DEF Live, OnlySock
<1>13. OpenedRight'
  <2>1. ASSUME NEW e \in Fds, NEW r \in Socks
        PROVE  opened'[e] = r <=> sock'[r].st \in {"open", "freed"} /\ sock'[r].fd = e
    <3>1. opened[e] = r <=> sock[r].st \in {"open", "freed"} /\ sock[r].fd = e
      BY DEF FdInv, OpenedRight
    <3>2. CASE r = s
      <4>1. opened[e] # s
        BY <1>1, <3>1, <3>2
      <4> QED
        BY <1>7, <1>9, <1>10, <3>2, <4>1
    <3>3. CASE r # s
      <4>1. opened[f] # r
        BY <1>1, SlotConstants
      <4>2. opened'[e] = r <=> opened[e] = r
        BY <1>10, <3>3, <4>1
      <4> QED
        BY <1>12, <3>1, <3>3, <4>2
    <3> QED
      BY <3>2, <3>3
  <2> QED
    BY <2>1 DEF OpenedRight
<1>14. LifeRight'
  <2>1. LifeAt(s)'
    BY <1>2, <1>6, <1>7, <1>9 DEF LifeAt, Live
  <2> QED
    BY <1>12, <2>1, LifeFrame DEF FdInv
<1>15. DispRight'
  <2>1. disp'.pc \notin FailPcs
    BY <1>4 DEF FailPcs
  <2> QED
    BY <1>1, <1>2, <1>4, <1>7, <1>9, <1>12, <2>1 DEF DispRight
<1>16. /\ \A r \in Socks : ~ Setup(r) /\ ~ Failing(r) /\ ~ Failing(r)' /\ (r # s => ~ Setup(r)')
       /\ Setup(s)'
  BY <1>1, <1>4 DEF Setup, Failing, SetupPcs, FailPcs
<1>17. ~ Counted(s) /\ ~ Counted(s)' /\ \A r \in Socks : r # s => (Counted(r)' <=> Counted(r))
  <2>1. ~ Counted(s) /\ ~ Counted(s)'
    BY <1>2, <1>4 DEF Counted, SetupPcs
  <2>2. ASSUME NEW r \in Socks, r # s PROVE Counted(r)' <=> Counted(r)
    BY <1>1, <1>4, <1>12, <2>2 DEF Counted, SetupPcs
  <2> QED
    BY <2>1, <2>2
<1>18. SlotsCounted'
  <2>1. ASSUME NEW e \in Fds PROVE LowAt(e)' /\ HighAt(e)'
    <3>1. MainHolds(e)' <=> MainHolds(e)
      BY <1>12, <1>17 DEF MainHolds
    <3> QED
      BY <1>1, <3>1, LowFrame, HighFrame, GettersStay DEF FdInv, SlotsCounted
  <2> QED
    BY <2>1 DEF SlotsCounted
<1>19. DataRight'
  <2>1. ASSUME NEW e \in Fds, NEW r \in Socks PROVE DataAt(e, r)'
    <3>1. DataAt(e, r)
      BY DEF FdInv, DataRight
    <3>2. CASE r = s
      BY <1>1, <1>2, <1>17, <3>2 DEF DataAt
    <3>3. CASE r # s
      BY <1>1, <1>12, <1>16, <1>17, <3>1, <3>3 DEF DataAt
    <3> QED
      BY <3>2, <3>3
  <2> QED
    BY <2>1 DEF DataRight
<1>20. ClearRight'
  <2>1. ASSUME NEW e \in Fds PROVE ClearAt(e)'
    <3>1. ~ MainClears(e)' /\ \A u \in Getters : (Clears(u, e)' => Clears(u, e)) /\ (Takes(u, e)' => Takes(u, e))
      BY <1>1, <1>4 DEF MainClears, Clears, Takes
    <3> QED
      BY <1>1, <3>1, ClearFrame DEF FdInv, ClearRight
  <2> QED
    BY <2>1 DEF ClearRight
<1>21. SocksCounted'
  <2>1. RefsAt(s)' /\ ConnAt(s)'
    <3>1. FromSlot(s)' = 1 /\ FromMain(s)' = 0
      BY <1>16 DEF FromSlot, PointsTo, FromMain
    <3>2. FromConn(s)' = 1 /\ FromSignal(s)' = 0 /\ FromSock(s)' = 1
      BY <1>2, <1>7, <1>9, <1>12 DEF FromConn, FromSignal, FromSock
    <3>3. Cardinality(GotBy(s)') = 0 /\ Cardinality(HeldBy(s)') = 0
      BY <1>1, <1>2, GettersStay
    <3>4. 2 = 1 + 1 + 0 + 0 + 0 /\ 1 = 1 + 0
      BY SMTT(30)
    <3> QED
      BY <1>7, <1>9, <3>1, <3>2, <3>3, <3>4 DEF RefsAt, ConnAt
  <2>2. ASSUME NEW r \in Socks, r # s PROVE RefsAt(r)' /\ ConnAt(r)'
    <3>1. SameSock(r) /\ SameMain(r)
      BY <1>12, <1>16, <1>17, <2>2 DEF SameSock, SameMain
    <3>2. GotBy(r)' = GotBy(r) /\ HeldBy(r)' = HeldBy(r) /\ sock'[r] = sock[r]
      BY <1>1, <1>12, <2>2, GettersStay
    <3>3. RefsAt(r) /\ ConnAt(r) /\ \A e \in Fds : slot'[e].data = r <=> slot[e].data = r
      BY <1>1 DEF FdInv, SocksCounted
    <3> QED
      BY <3>1, <3>2, <3>3, RefsFrame, ConnFrame
  <2> QED
    BY <2>1, <2>2 DEF SocksCounted
<1>22. GetRight'
  <2>1. \A r \in Socks : sock[r].st # "new" => sock'[r].fd = sock[r].fd /\ sock'[r].st # "new"
    BY <1>1, <1>12
  <2> QED
    BY <1>1, <2>1, GetFrame DEF FdInv, GetRight
<1>23. EventsRight'
  <2>1. ASSUME NEW e \in Fds, NEW r \in Socks, Served(e, r) PROVE Served(e, r)' /\ r # s
    <3>1. r # s /\ opened[e] = r /\ Live(r)
      BY <1>2, <2>1 DEF Served
    <3>2. e # f
      BY <1>1, <3>1, SlotConstants
    <3> QED
      BY <1>10, <1>12, <1>16, <3>1, <3>2 DEF Served
  <2>2. ASSUME NEW e \in Fds PROVE EventAt(e)'
    BY <1>1, <1>12, <1>16, <2>1, EventFrame DEF FdInv, EventsRight
  <2> QED
    BY <2>2 DEF EventsRight
<1> QED
  BY <1>11, <1>13, <1>14, <1>15, <1>18, <1>19, <1>20, <1>21, <1>22, <1>23 DEF FdInv
-----------------------------------------------------------------------------
(* All slots are empty and no socket has been used.                        *)
LEMMA FdInvInit ==
  ASSUME FdInit
  PROVE  FdInv
<1>1. PICK o : o \in Fds /\ o = CHOOSE f \in Fds : TRUE
  BY SlotConstants
<1>2. /\ disp = [pc |-> "loop", fd |-> o, s |-> NoSock]
      /\ \A g \in Getters : get[g] = [pc |-> "out", fd |-> o, want |-> NoSock, got |-> NoSock]
      /\ \A f \in Fds : slot[f] = EmptySlot /\ opened[f] = NoSock
      /\ \A s \in Socks : sock[s] = NewSock
  BY <1>1 DEF FdInit, Rest, NoGet
<1>3. 0 \in Nat /\ ~ (0 > 0)
  BY SMTT(30)
<1>4. EmptySlot \in SlotRecord /\ EmptySlot.low = 0 /\ EmptySlot.high = 0 /\ EmptySlot.data = NoSock
  BY <1>3 DEF EmptySlot, SlotRecord, AnySock
<1>5. ~ EmptySlot.queued /\ ~ EmptySlot.armed
  BY DEF EmptySlot
<1>6. NewSock \in SockRecord /\ NewSock.st = "new" /\ NewSock.refs = 0 /\ NewSock.conn = 0
  BY <1>3 DEF NewSock, SockRecord
<1>7. ~ NewSock.error /\ ~ NewSock.closed /\ ~ NewSock.failed /\ ~ NewSock.abort
  BY DEF NewSock
<1>8. disp \in DispRecord /\ disp.pc = "loop"
  BY <1>1, <1>2 DEF DispRecord, DispPcs, AnySock
<1>9. \A g \in Getters : get[g] \in GetRecord /\ get[g].pc = "out"
  <2>1. PICK c : c = [pc |-> "out", fd |-> o, want |-> NoSock, got |-> NoSock]
    OBVIOUS
  <2>2. c \in GetRecord /\ c.pc = "out"
    BY <1>1, <2>1 DEF GetRecord, GetPcs, AnySock
  <2> QED
    BY <1>2, <2>1, <2>2
<1>10. SlotTypes
  <2>1. slot \in [Fds -> SlotRecord] /\ opened \in [Fds -> AnySock]
    BY <1>4 DEF FdInit, AnySock
  <2>2. sock \in [Socks -> SockRecord]
    BY <1>6 DEF FdInit
  <2>3. get \in [Getters -> GetRecord]
    BY <1>9 DEF FdInit
  <2> QED
    BY <1>8, <2>1, <2>2, <2>3 DEF SlotTypes
<1>11. \A s \in Socks : ~ Live(s) /\ ~ Setup(s) /\ ~ Failing(s) /\ ~ Counted(s)
  <2>1. \A s \in Socks : ~ Live(s)
    BY <1>2, <1>6 DEF Live
  <2> QED
    BY <1>8, <2>1 DEF Setup, Failing, Counted, SetupPcs, FailPcs
<1>12. OpenedRight
  BY <1>2, <1>6, SlotConstants DEF OpenedRight
<1>13. LifeRight
  BY <1>2, <1>3, <1>6, <1>7, <1>11 DEF LifeRight, LifeAt
<1>14. DispRight
  BY <1>8 DEF DispRight
<1>15. 0 = 0 + 0 /\ 0 = 0 + 0 + 0 + 0 + 0
  BY SMT
<1>16. SlotsCounted
  <2>1. ASSUME NEW f \in Fds PROVE LowAt(f) /\ HighAt(f)
    <3>1. LowMain(f) = 0
      BY <1>11 DEF LowMain, MainHolds
    <3>2. LowBy(f) = {} /\ HighBy(f) = {}
      BY <1>9 DEF LowBy, HighBy
    <3> QED
      BY <1>2, <1>4, <1>15, <3>1, <3>2, FS_EmptySet DEF LowAt, HighAt
  <2> QED
    BY <2>1 DEF SlotsCounted
<1>17. DataRight
  BY <1>2, <1>4, <1>11, SlotConstants DEF DataRight, DataAt
<1>18. ClearRight
  BY <1>8, <1>9 DEF ClearRight, ClearAt, MainClears, Clears
<1>19. SocksCounted
  <2>1. ASSUME NEW s \in Socks PROVE RefsAt(s) /\ ConnAt(s)
    <3>1. FromSlot(s) = 0
      BY <1>2, <1>4, <1>11, SlotConstants DEF FromSlot, PointsTo
    <3>2. FromConn(s) = 0 /\ FromSignal(s) = 0 /\ FromMain(s) = 0 /\ FromSock(s) = 0
      BY <1>2, <1>7, <1>11 DEF FromConn, FromSignal, FromMain, FromSock
    <3>3. GotBy(s) = {} /\ HeldBy(s) = {}
      BY <1>9 DEF GotBy, HeldBy, GotPcs
    <3> QED
      BY <1>2, <1>6, <1>15, <3>1, <3>2, <3>3, FS_EmptySet DEF RefsAt, ConnAt
  <2> QED
    BY <2>1 DEF SocksCounted
<1>20. GetRight
  BY <1>9 DEF GetRight, GetAt, GotPcs
<1>21. EventsRight
  BY <1>2, <1>5 DEF EventsRight, EventAt
<1> QED
  BY <1>10, <1>12, <1>13, <1>14, <1>16, <1>17, <1>18, <1>19, <1>20, <1>21 DEF FdInv

(* A counted socket keeps its slot's count above zero.                     *)
LEMMA CountedHeld ==
  ASSUME FdInv, NEW f \in Fds, NEW s \in Socks, Counted(s), sock[s].fd = f
  PROVE  slot[f].low # 0
BY NotCounted

(* A connection that is held has not been freed.                           *)
LEMMA HeldOpen ==
  ASSUME FdInv, NEW g \in Getters, get[g].pc = "hold"
  PROVE  opened[get[g].fd] = get[g].got
<1>1. PICK s \in Socks : get[g].got = s /\ sock[s].fd = get[g].fd /\ sock[s].st # "new"
  BY DEF FdInv, GetRight, GetAt
<1>2. g \in HeldBy(s)
  BY <1>1 DEF HeldBy
<1>3. PICK a, k : a = FromSock(s) /\ k = Cardinality(HeldBy(s))
  OBVIOUS
<1>4. HeldBy(s) \in SUBSET Getters
  BY DEF HeldBy
<1>5. a \in {0, 1} /\ k \in Nat /\ k >= 1
  BY <1>2, <1>3, <1>4, MemberCounts, CountParts
<1>6. sock[s].conn = a + k
  BY <1>3 DEF FdInv, SocksCounted, ConnAt
<1>7. sock[s].conn # 0
  BY <1>5, <1>6, SMTT(30)
<1>8. sock[s].st \in {"new", "open", "freed", "gone"} /\ get[g].fd \in Fds
  BY SlotFields DEF FdInv, SockRecord
<1>9. sock[s].st \in {"open", "freed"}
  BY <1>1, <1>7, <1>8 DEF FdInv, LifeRight, LifeAt
<1> QED
  BY <1>1, <1>8, <1>9 DEF FdInv, OpenedRight

(* What the counts imply.                                                  *)
LEMMA FdInvSafe ==
  ASSUME FdInv
  PROVE  SlotsSafe /\ ~ Stopped
<1>1. FdTypeOK
  <2>1. \A f \in Fds : slot[f].low \in Nat /\ slot[f].high \in Nat /\ slot[f].data \in AnySock
    BY SlotFields DEF FdInv
  <2>2. \A s \in Socks : sock[s].refs \in Nat /\ sock[s].conn \in Nat
    BY SlotFields DEF FdInv
  <2>3. opened \in [Fds -> AnySock]
    BY DEF FdInv, SlotTypes
  <2> QED
    BY <2>1, <2>2, <2>3 DEF FdTypeOK, AnySock
<1>2. NoDangling
  <2>1. ASSUME NEW f \in Fds, slot[f].data # NoSock PROVE sock[slot[f].data].st = "open"
    <3>1. PICK s \in Socks : slot[f].data = s
      BY <2>1, SlotFields DEF FdInv, AnySock
    <3> QED
      BY <3>1, DataLive DEF Live
  <2>2. ASSUME NEW g \in Getters, get[g].pc \in GotPcs PROVE sock[get[g].got].st = "open"
    <3>1. PICK s \in Socks : get[g].got = s
      BY <2>2 DEF FdInv, GetRight, GetAt
    <3>2. g \in GotBy(s)
      BY <2>2, <3>1 DEF GotBy
    <3> QED
      BY <3>1, <3>2, GotLive DEF Live
  <2> QED
    BY <2>1, <2>2 DEF NoDangling, GotPcs
<1>3. HeldIsOpen
  BY HeldOpen DEF HeldIsOpen, FdInv, GetRight, GetAt
<1>4. EventsCurrent
  <2>1. ASSUME NEW f \in Fds, slot[f].queued
        PROVE  slot[f].of = opened[f] /\ slot[f].data = opened[f] /\ slot[f].data # NoSock /\ slot[f].low # 0
    <3>1. PICK s \in Socks : Served(f, s) /\ ~ sock[s].error /\ slot[f].of = s
      BY <2>1 DEF FdInv, EventsRight, EventAt
    <3>2. opened[f] = s /\ Live(s) /\ ~ Setup(s) /\ sock[s].fd = f
      BY <3>1 DEF Served, FdInv, OpenedRight
    <3>3. Counted(s)
      BY <3>1, <3>2 DEF Counted, Setup, SetupPcs
    <3>4. slot[f].data = s
      BY <3>2, <3>3 DEF FdInv, DataRight, DataAt
    <3> QED
      BY <3>1, <3>2, <3>3, <3>4, CountedHeld, SlotConstants
  <2> QED
    BY <2>1 DEF EventsCurrent
<1>5. ~ Stopped
  <2>1. disp.pc # "stop"
    BY DEF FdInv, SlotTypes, DispRecord, DispPcs, SetupPcs, FailPcs
  <2>2. \A g \in Getters : get[g].pc # "stop"
    BY DEF FdInv, SlotTypes, GetRecord, GetPcs, GotPcs
  <2> QED
    BY <2>1, <2>2 DEF Stopped
<1> QED
  BY <1>1, <1>2, <1>3, <1>4, <1>5 DEF SlotsSafe
-----------------------------------------------------------------------------
(* The process that has stopped leaves the slots as they were.             *)
Halts == Stopped' /\ SlotsSafe'

(* A failed assertion ends the process.                                    *)
LEMMA AssertHalts ==
  ASSUME FdInv, AssertNoData \/ AssertNoRefs \/ AssertUnset, disp'.pc = "stop"
  PROVE  Halts
<1>1. slot' = slot /\ sock' = sock /\ get' = get /\ opened' = opened
  BY DEF AssertNoData, AssertNoRefs, AssertUnset, Asserted
<1>2. SlotsSafe
  BY FdInvSafe
<1>3. SlotsSafe'
  BY <1>1, <1>2 DEF SlotsSafe, FdTypeOK, NoDangling, HeldIsOpen, EventsCurrent
<1> QED
  BY <1>3 DEF Halts, Stopped

(* So does a job that is not there.                                        *)
LEMMA TakeJobHalts ==
  ASSUME FdInv, NEW g \in Getters, TakeJob(g), slot[get[g].fd].data = NoSock
  PROVE  Halts
<1>1. slot' = slot /\ sock' = sock /\ opened' = opened /\ get' = [get EXCEPT ![g].pc = "stop"]
  BY DEF TakeJob, Go
<1>2. SlotsSafe /\ get \in [Getters -> GetRecord]
  BY FdInvSafe DEF FdInv, SlotTypes
<1>3. get'[g].pc = "stop" /\ \A u \in Getters : u # g => get'[u] = get[u]
  BY <1>1, <1>2 DEF GetRecord
<1>4. \A u \in Getters : get'[u].pc \in {"drop", "clear", "look", "hold"} => get'[u] = get[u]
  BY <1>3
<1>5. FdTypeOK' /\ EventsCurrent'
  BY <1>1, <1>2 DEF SlotsSafe, FdTypeOK, EventsCurrent
<1>6. NoDangling'
  BY <1>1, <1>2, <1>4 DEF SlotsSafe, NoDangling
<1>7. HeldIsOpen'
  BY <1>1, <1>2, <1>4 DEF SlotsSafe, HeldIsOpen
<1> QED
  BY <1>3, <1>5, <1>6, <1>7 DEF Halts, Stopped, SlotsSafe

(* What other threads do.                                                  *)
GetterActs(g) ==
  \/ \E f \in Fds, want \in Socks \cup {NoSock} : LookUp(g, f, want)
  \/ ReadLow(g) \/ ReadData(g) \/ Announce(g) \/ Withdraw(g) \/ TakeRef(g)
  \/ TakeJob(g) \/ DropRef(g) \/ GetterClears(g) \/ Look(g) \/ Release(g)

(* What is done to one socket, or to one slot.                             *)
SocketActs(s) ==
  \/ \E f \in Fds : alloc_new_socket_connection(s, f)
  \/ SocketAux(s) \/ fail_socket_connection(s)
  \/ FailConnection(s) \/ CloseConnection(s) \/ FreeConnection(s)
MainActs ==
  \/ AssertNoData \/ AssertNoRefs \/ AssertUnset \/ epoll_sethandler \/ SetData
  \/ \E f \in Fds : FetchEvent(f) \/ RunEvent(f)
  \/ connection_event_incref \/ ClearData \/ LeaveEpoll

(* The steps, by whose they are.                                           *)
LEMMA NextCases ==
  ASSUME FdNext
  PROVE  \/ \E s \in Socks : SocketActs(s)
         \/ \E g \in Getters : GetterActs(g)
         \/ MainActs \/ StartAgain
BY DEF FdNext, SocketActs, GetterActs, MainActs

(* Every step of a getter preserves the counts or ends the process.        *)
LEMMA GetterActsStep ==
  ASSUME FdInv, NEW g \in Getters, GetterActs(g)
  PROVE  FdInv' \/ Halts
<1>1. CASE \E f \in Fds, want \in Socks \cup {NoSock} : LookUp(g, f, want)
  BY <1>1, LookUpStep DEF AnySock
<1>2. CASE ReadLow(g) \/ ReadData(g)
  BY <1>2, ReadStep
<1>3. CASE Announce(g)
  BY <1>3, AnnounceStep
<1>4. CASE Withdraw(g)
  BY <1>4, WithdrawStep
<1>5. CASE TakeRef(g)
  BY <1>5, TakeRefStep
<1>6. CASE TakeJob(g)
  BY <1>6, TakeJobStep, TakeJobHalts
<1>7. CASE DropRef(g)
  BY <1>7, DropRefStep
<1>8. CASE GetterClears(g)
  BY <1>8, GetterClearsStep
<1>9. CASE Look(g)
  BY <1>9, LookStep
<1>10. CASE Release(g)
  BY <1>10, ReleaseStep
<1> QED
  BY <1>1, <1>2, <1>3, <1>4, <1>5, <1>6, <1>7, <1>8, <1>9, <1>10 DEF GetterActs

(* Every step on a socket preserves them.                                  *)
LEMMA SocketActsStep ==
  ASSUME FdInv, NEW s \in Socks, SocketActs(s)
  PROVE  FdInv'
<1>1. CASE \E f \in Fds : alloc_new_socket_connection(s, f)
  BY <1>1, AllocStep
<1>2. CASE SocketAux(s)
  BY <1>2, AuxStep
<1>3. CASE fail_socket_connection(s)
  BY <1>3, FailSocketStep
<1>4. CASE FailConnection(s)
  BY <1>4, FailConnectionStep
<1>5. CASE CloseConnection(s)
  BY <1>5, CloseStep
<1>6. CASE FreeConnection(s)
  BY <1>6, FreeConnectionStep
<1> QED
  BY <1>1, <1>2, <1>3, <1>4, <1>5, <1>6 DEF SocketActs

(* Every step of the main thread preserves them or ends the process.       *)
LEMMA MainActsStep ==
  ASSUME FdInv, MainActs
  PROVE  FdInv' \/ Halts
<1>1. CASE AssertNoData \/ AssertNoRefs \/ AssertUnset
  BY <1>1, AssertStep, AssertHalts
<1>2. CASE epoll_sethandler
  BY <1>2, SetHandlerStep
<1>3. CASE SetData
  BY <1>3, SetDataStep
<1>4. CASE \E f \in Fds : FetchEvent(f) \/ RunEvent(f)
  BY <1>4, FetchStep, RunStep
<1>5. CASE connection_event_incref
  BY <1>5, IncrefStep
<1>6. CASE ClearData
  BY <1>6, ClearDataStep
<1>7. CASE LeaveEpoll
  BY <1>7, LeaveStep
<1> QED
  BY <1>1, <1>2, <1>3, <1>4, <1>5, <1>6, <1>7 DEF MainActs

(* A process that has stopped does nothing but start again.                *)
LEMMA StoppedStep ==
  ASSUME Stopped, FdNext
  PROVE  StartAgain
<1>1. ASSUME NEW g \in Getters PROVE ~ GetterActs(g)
  BY DEF GetterActs, LookUp, ReadLow, ReadData, Announce, Withdraw, TakeRef, TakeJob, DropRef,
         GetterClears, Look, Release, At
<1>2. ASSUME NEW s \in Socks PROVE ~ SocketActs(s)
  BY DEF SocketActs, alloc_new_socket_connection, SocketAux, fail_socket_connection, FailConnection,
         CloseConnection, FreeConnection, MainFree
<1>3. ~ MainActs
  BY DEF MainActs, AssertNoData, AssertNoRefs, AssertUnset, Asserted, epoll_sethandler, SetData,
         FetchEvent, RunEvent, connection_event_incref, ClearData, LeaveEpoll, MainFree
<1> QED
  BY <1>1, <1>2, <1>3, NextCases

(* The new process begins like the first one.                              *)
LEMMA StartAgainStep == StartAgain => FdInv'
<1>1. StartAgain => FdInit'
  BY DEF StartAgain, FdInit
<1>2. FdInit => FdInv
  BY FdInvInit
<1> QED
  BY <1>1, <1>2, PTL

(* The counts hold while the process runs.                                 *)
SlotsCountedOrStopped == FdInv \/ (Stopped /\ SlotsSafe)

(* The invariant is inductive.                                             *)
LEMMA FdStep ==
  ASSUME SlotsCountedOrStopped, [FdNext]_slotVars
  PROVE  SlotsCountedOrStopped'
<1>1. CASE UNCHANGED slotVars
  <2>1. slot' = slot /\ sock' = sock /\ disp' = disp /\ get' = get /\ opened' = opened
    BY <1>1 DEF slotVars
  <2>2. CASE FdInv
    <3>1. SlotTypes' /\ DispRight' /\ \A s \in Socks : SameMain(s)
      BY <2>1, <2>2, MainStays DEF FdInv, SlotTypes, DispRight, Live
    <3>2. \A f \in Fds, s \in Socks : Served(f, s)' <=> Served(f, s)
      BY <2>1 DEF Served, Live, Setup
    <3>3. EventsRight'
      BY <2>1, <2>2, <3>1, <3>2, EventFrame DEF FdInv, EventsRight, SameMain
    <3>4. FdInv'
      BY <2>1, <2>2, <3>1, <3>3, EventStep
    <3> QED
      BY <3>4 DEF SlotsCountedOrStopped
  <2>3. CASE Stopped /\ SlotsSafe
    BY <2>1, <2>3 DEF SlotsCountedOrStopped, Stopped, SlotsSafe, FdTypeOK, NoDangling, HeldIsOpen, EventsCurrent
  <2> QED
    BY <2>2, <2>3 DEF SlotsCountedOrStopped
<1>2. CASE FdNext
  <2>1. CASE FdInv
    BY <1>2, <2>1, NextCases, GetterActsStep, SocketActsStep, MainActsStep, StartAgainStep
       DEF Halts, SlotsCountedOrStopped
  <2>2. CASE Stopped
    BY <1>2, <2>2, StoppedStep, StartAgainStep DEF SlotsCountedOrStopped
  <2> QED
    BY <2>1, <2>2 DEF SlotsCountedOrStopped
<1> QED
  BY <1>1, <1>2

(* A slot never points to a freed socket, no getter holds one, a caller's  *)
(* connection is the one it asked for and keeps its descriptor, and no     *)
(* event is run for the next owner of its descriptor (connection_get_by_fd *)
(* and fail_socket_connection, net-connections.c).                         *)
THEOREM SlotsAlwaysSafe == FdSpec => []SlotsSafe
<1>1. FdInit => SlotsCountedOrStopped
  BY FdInvInit DEF SlotsCountedOrStopped
<1>2. SlotsCountedOrStopped /\ [FdNext]_slotVars => SlotsCountedOrStopped'
  BY FdStep
<1>3. SlotsCountedOrStopped => SlotsSafe
  BY FdInvSafe DEF SlotsCountedOrStopped
<1> QED
  BY <1>1, <1>2, <1>3, PTL DEF FdSpec
=============================================================================
