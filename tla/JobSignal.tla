----------------------------- MODULE JobSignal -----------------------------
(***************************************************************************)
(* The life of one job of the job system (jobs/jobs.c): threads lock it,   *)
(* send it signals, run its handlers, queue it for another class of        *)
(* threads and drop references to it.  Every access to j_flags, j_refcnt   *)
(* or a queue that another thread can observe is a step of its own; a      *)
(* compare-and-swap succeeds only if the flags are those read before it.   *)
(*                                                                         *)
(* References belong to callers (refs), to queue entries, and to the calls *)
(* under way: every call here takes one reference and destroys it.         *)
(***************************************************************************)
EXTENDS Integers, FiniteSets

CONSTANTS
  Threads,      \* job threads
  Classes,      \* job classes (JC_MAIN, JC_CONNECTION, ...)
  MainClass,    \* JC_MAIN
  AnyClass,          \* JC_NONE: any context
  Queues,       \* job queues
  QueueOf,      \* class -> its job_queue; classes without threads share Main's
  Home,         \* thread -> the queue it pops from
  SigClass,     \* signal -> its class in j_sigclass, or AnyClass
  Fast,         \* the signals with JSS_FAST
  MaxRefs,      \* bound: references the callers hold together
  MaxLeft       \* bound: job_incref calls and self-signals in one life of the job

Signo == [RUN |-> 0, ALARM |-> 4, ABORT |-> 5, FINISH |-> 7]
Signals == DOMAIN SigClass

ASSUME JobConstants ==
  /\ IsFiniteSet(Threads) /\ IsFiniteSet(Queues)
  /\ MainClass \in Classes /\ AnyClass \notin Classes
  /\ QueueOf \in [Classes -> Queues] /\ Home \in [Threads -> Queues]
  /\ SigClass \in [Signals -> Classes \cup {AnyClass}]
  /\ {"RUN", "FINISH"} \subseteq Signals /\ Signals \subseteq DOMAIN Signo
  /\ Fast \subseteq Signals
  /\ {MaxRefs, MaxLeft} \subseteq Nat

VARIABLES
  flags,    \* j_flags: locked, pending signals, classes it is queued for
  refcnt,   \* j_refcnt
  alive,    \* FALSE before creation and after job_free
  queue,    \* entries for the job in each queue
  th,       \* what each thread is doing with the job
  refs,     \* references the callers own
  left

jobVars == <<flags, refcnt, alive, queue, th, refs, left>>

Flags == [locked : BOOLEAN, sigs : SUBSET Signals, queued : SUBSET Classes]
NoFlags == [locked |-> FALSE, sigs |-> {}, queued |-> {}]

(* Where a thread is: in job_send_signals, in unlock_job (which runs the   *)
(* handlers), in job_decref or in process_one_job.                         *)
Holding == {"unlock", "release", "run", "enqueue"}
Pcs == Holding \cup {"idle", "send1", "send2", "send3", "send4", "drop1", "drop2",
                     "last", "decref1", "decref2", "finish",
                     "process0", "process1", "process2", "process3"}

Doing(pc, sig, busy) == [pc |-> pc, sig |-> sig, seen |-> NoFlags, busy |-> busy]
Idle == Doing("idle", "RUN", FALSE)

(* The references counted by f: f[x] of them for each x.                   *)
Each(f) == UNION {{x} \X (1..f[x]) : x \in DOMAIN f}

(* The classes whose signals thread t may run.                             *)
job_class_mask(t) == {AnyClass} \cup {c \in Classes : QueueOf[c] = Home[t]}

(* Go on to pc, with the signal and the flags read before, or without them. *)
Stay(t, pc) == th' = [th EXCEPT ![t].pc = pc]
Go(t, pc) == th' = [th EXCEPT ![t] = Doing(pc, "RUN", th[t].busy)]

JobInit ==
  /\ flags = NoFlags /\ refcnt = 0 /\ alive = FALSE
  /\ queue = [q \in Queues |-> 0]
  /\ th = [t \in Threads |-> Idle]
  /\ refs = [t \in Threads |-> 0]
  /\ left = 0

(***************************************************************************)
(* Creation and callers                                                    *)
(***************************************************************************)

(* create_async_job leaves the job locked; the creator hands out           *)
(* references and calls unlock_job, or schedule_job, which sets JS_RUN.    *)
create_async_job(t) ==
  /\ ~ alive /\ th[t].pc = "idle"
  /\ \E r \in [Threads -> 0..MaxRefs], s \in SUBSET {"RUN"}, b \in BOOLEAN :
       /\ Cardinality(Each(r)) <= MaxRefs
       /\ refs' = r
       /\ refcnt' = 1 + Cardinality(Each(r))
       /\ flags' = [NoFlags EXCEPT !.locked = TRUE, !.sigs = s]
       /\ th' = [th EXCEPT ![t] = Doing("unlock", "RUN", b)]
  /\ alive' = TRUE /\ left' = MaxLeft
  /\ UNCHANGED queue

(* A caller with a reference, or the running handler, makes another one.   *)
job_incref(t) ==
  /\ refs[t] > 0 \/ (th[t].pc = "run" /\ th[t].sig # "FINISH")
  /\ left > 0
  /\ Cardinality(Each(refs)) < MaxRefs
  /\ \E u \in Threads : refs' = [refs EXCEPT ![u] = @ + 1]
  /\ refcnt' = refcnt + 1 /\ left' = left - 1
  /\ UNCHANGED <<flags, alive, queue, th>>

(* A call of job_signal or job_decref with the caller's own reference; it  *)
(* may come from the handler of another job (JT->current_job is set).      *)
Call(t) ==
  /\ th[t].pc = "idle" /\ refs[t] > 0
  /\ refs' = [refs EXCEPT ![t] = @ - 1]
  /\ \E b \in BOOLEAN :
       \/ \E s \in Signals \ {"FINISH"} :
            th' = [th EXCEPT ![t] = Doing("send1", s, b)]
       \/ th' = [th EXCEPT ![t] = Doing("decref1", "RUN", b)]
  /\ UNCHANGED <<flags, refcnt, alive, queue, left>>

(* A thread pops an entry of its queue; the entry's reference is now the   *)
(* reference of process_one_job.                                           *)
PopJob(t) ==
  /\ th[t].pc = "idle" /\ queue[Home[t]] > 0
  /\ queue' = [queue EXCEPT ![Home[t]] = @ - 1]
  /\ th' = [th EXCEPT ![t] = Doing("process0", "RUN", FALSE)]
  /\ UNCHANGED <<flags, refcnt, alive, refs, left>>

(***************************************************************************)
(* try_lock_job: one atomic step, whatever its retries                     *)
(***************************************************************************)

try_lock_job(t, set, clear, else) ==
  IF flags.locked
  THEN Stay(t, else) /\ UNCHANGED flags
  ELSE /\ flags' = [locked |-> TRUE, sigs |-> flags.sigs \cup set, queued |-> flags.queued \ clear]
       /\ Go(t, "unlock")

(***************************************************************************)
(* job_send_signals                                                        *)
(***************************************************************************)

job_send_signals(t) ==
  /\ \/ /\ th[t].pc = "send1"
        /\ IF th[t].sig \in flags.sigs THEN Go(t, "decref1") ELSE Stay(t, "send2")
        /\ UNCHANGED flags
     \/ /\ th[t].pc = "send2"
        /\ try_lock_job(t, {th[t].sig}, {}, "send3")
     \/ /\ th[t].pc = "send3"
        /\ flags' = [flags EXCEPT !.sigs = @ \cup {th[t].sig}]
        /\ Stay(t, "send4")
     \/ /\ th[t].pc = "send4"
        /\ try_lock_job(t, {}, {}, "decref1")
  /\ UNCHANGED <<refcnt, alive, queue, refs, left>>

(***************************************************************************)
(* unlock_job: its loop reads the flags, then releases, runs or enqueues   *)
(***************************************************************************)

Highest(S) == CHOOSE s \in S : \A r \in S : Signo[r] <= Signo[s]

CanRun(t, s) ==
  SigClass[s] \in job_class_mask(t) /\ (s \in Fast \/ ~ th[t].busy)

unlock_job(t) ==
  /\ th[t].pc = "unlock"
  /\ IF flags.sigs = {}
     THEN /\ th' = [th EXCEPT ![t].pc = "release", ![t].seen = flags]
          /\ UNCHANGED flags
     ELSE LET s == Highest(flags.sigs) IN
          IF CanRun(t, s)
          THEN /\ flags' = [flags EXCEPT !.sigs = @ \ {s}]
               /\ th' = [th EXCEPT ![t].pc = "run", ![t].sig = s]
          ELSE /\ th' = [th EXCEPT ![t].pc = "enqueue", ![t].sig = s, ![t].seen = flags]
               /\ UNCHANGED flags
  /\ UNCHANGED <<refcnt, alive, queue, refs, left>>

(* Nothing to do: unlock, unless the flags have changed.                   *)
Release(t) ==
  /\ th[t].pc = "release"
  /\ IF flags = th[t].seen
     THEN flags' = [flags EXCEPT !.locked = FALSE] /\ Go(t, "drop1")
     ELSE Go(t, "unlock") /\ UNCHANGED flags
  /\ UNCHANGED <<refcnt, alive, queue, refs, left>>

(* The reference is dropped after the unlock: read the count, then subtract*)
(* atomically; whoever takes it to zero keeps the last reference.          *)
ReadCount(t, from, to, last) ==
  /\ th[t].pc = from
  /\ Go(t, IF refcnt >= 2 THEN to ELSE last)
  /\ UNCHANGED <<flags, refcnt, alive, queue, refs, left>>

Subtract(t, from, last) ==
  /\ th[t].pc = from
  /\ IF refcnt = 1
     THEN Go(t, last) /\ UNCHANGED refcnt
     ELSE th' = [th EXCEPT ![t] = Idle] /\ refcnt' = refcnt - 1
  /\ UNCHANGED <<flags, alive, queue, refs, left>>

(* The last reference after an unlock: JS_FINISH, with the lock retaken.   *)
SendFinish(t) ==
  /\ th[t].pc = "last"
  /\ flags' = [flags EXCEPT !.sigs = @ \cup {"FINISH"}, !.locked = TRUE]
  /\ Go(t, "unlock")
  /\ UNCHANGED <<refcnt, alive, queue, refs, left>>

(* The handler returns: JS_FINISH frees the job; any other may signal the  *)
(* job itself (JOB_SENDSIG).                                               *)
j_execute(t) ==
  /\ th[t].pc = "run"
  /\ \/ /\ th[t].sig = "FINISH"
        /\ alive' = FALSE /\ refcnt' = refcnt - 1 /\ flags' = [flags EXCEPT !.locked = FALSE]
        /\ th' = [th EXCEPT ![t] = Idle]
        /\ left' = 0
     \/ /\ th[t].sig # "FINISH"
        /\ \/ UNCHANGED <<flags, left>>
           \/ /\ left > 0
              /\ flags' = [flags EXCEPT !.sigs = @ \cup {"RUN"}]
              /\ left' = left - 1
        /\ Go(t, "unlock")
        /\ UNCHANGED <<alive, refcnt>>
  /\ UNCHANGED <<queue, refs>>

QueueClassMain(s) == MainClass

QueueClass(s) == IF SigClass[s] = AnyClass THEN MainClass ELSE SigClass[s]

EnqueueLeak(t) ==
  LET c == QueueClass(th[t].sig) IN
  /\ th[t].pc = "enqueue"
  /\ \/ /\ flags # th[t].seen
        /\ Go(t, "unlock") /\ UNCHANGED <<flags, queue>>
     \/ /\ flags = th[t].seen
        /\ flags' = [flags EXCEPT !.locked = FALSE, !.queued = @ \cup {c}]
        /\ IF c \in flags.queued
           THEN UNCHANGED queue
           ELSE queue' = [queue EXCEPT ![QueueOf[c]] = @ + 1]
        /\ th' = [th EXCEPT ![t] = Idle]
  /\ UNCHANGED <<refcnt, alive, refs, left>>

(* This thread may not run the signal: queue the job for its class, with   *)
(* the reference, or drop the reference if it is queued already.           *)
Enqueue(t) ==
  LET c == QueueClass(th[t].sig) IN
  /\ th[t].pc = "enqueue"
  /\ \/ /\ flags # th[t].seen
        /\ Go(t, "unlock") /\ UNCHANGED <<flags, queue>>
     \/ /\ flags = th[t].seen
        /\ flags' = [flags EXCEPT !.locked = FALSE, !.queued = @ \cup {c}]
        /\ IF c \in flags.queued
           THEN Go(t, "decref1") /\ UNCHANGED queue
           ELSE /\ queue' = [queue EXCEPT ![QueueOf[c]] = @ + 1]
                /\ th' = [th EXCEPT ![t] = Idle]
  /\ UNCHANGED <<refcnt, alive, refs, left>>

(***************************************************************************)
(* job_decref and process_one_job                                          *)
(***************************************************************************)

(* The last reference signals JS_FINISH.                                   *)
DecrefLast(t) ==
  /\ th[t].pc = "finish"
  /\ th' = [th EXCEPT ![t].pc = "send1", ![t].sig = "FINISH"]
  /\ UNCHANGED <<flags, refcnt, alive, queue, refs, left>>

ProcessKeepFlag(t) ==
  /\ \/ th[t].pc = "process0" /\ UNCHANGED flags /\ Go(t, "process1")
     \/ th[t].pc = "process1" /\ try_lock_job(t, {}, {}, "process2")
     \/ th[t].pc = "process2" /\ UNCHANGED flags /\ Go(t, "process3")
     \/ th[t].pc = "process3" /\ try_lock_job(t, {}, {}, "decref1")
  /\ UNCHANGED <<refcnt, alive, queue, refs, left>>

process_one_job(t) ==
  LET queued_flag == th[t].seen.queued \cap job_class_mask(t) IN
  /\ \/ /\ th[t].pc = "process0"
        /\ th' = [th EXCEPT ![t].pc = "process1", ![t].seen = flags]
        /\ UNCHANGED flags
     \/ /\ th[t].pc = "process1"
        /\ try_lock_job(t, {}, queued_flag, "process2")
     \/ /\ th[t].pc = "process2"
        /\ flags' = [flags EXCEPT !.queued = @ \ queued_flag]
        /\ Go(t, "process3")
     \/ /\ th[t].pc = "process3"
        /\ try_lock_job(t, {}, {}, "decref1")
  /\ UNCHANGED <<refcnt, alive, queue, refs, left>>

Step(t) ==
  \/ job_send_signals(t)
  \/ unlock_job(t)
  \/ Release(t)
  \/ ReadCount(t, "drop1", "drop2", "last")
  \/ Subtract(t, "drop2", "last")
  \/ SendFinish(t)
  \/ j_execute(t)
  \/ Enqueue(t)
  \/ ReadCount(t, "decref1", "decref2", "finish")
  \/ Subtract(t, "decref2", "finish")
  \/ DecrefLast(t)
  \/ process_one_job(t)

JobNext ==
  \E t \in Threads : create_async_job(t) \/ job_incref(t) \/ Call(t) \/ PopJob(t) \/ Step(t)

JobSpec == JobInit /\ [][JobNext]_jobVars

(***************************************************************************)
(* Properties                                                              *)
(***************************************************************************)

JobTypeOK ==
  /\ flags \in Flags
  /\ refcnt \in Nat
  /\ alive \in BOOLEAN
  /\ queue \in [Queues -> Nat]
  /\ th \in [Threads -> [pc : Pcs, sig : Signals, seen : Flags, busy : BOOLEAN]]
  /\ refs \in [Threads -> Nat]
  /\ left \in 0..MaxLeft

Active == {t \in Threads : th[t].pc # "idle"}

(* A job is locked exactly while one thread is in its unlock_job loop, so  *)
(* that no two threads run its handlers.  j_refcnt is the number of        *)
(* references there are: the callers', one for a queue entry and one for a *)
(* call under way; a freed job has none, so nothing touches it again.      *)
(* When the handler of JS_FINISH runs, its reference is the only one, no   *)
(* signal is pending and no queue holds the job.                           *)
JobsAccounted ==
  /\ Cardinality({t \in Threads : th[t].pc \in Holding}) = IF flags.locked THEN 1 ELSE 0
  /\ refcnt = Cardinality(Each(refs)) + Cardinality(Each(queue)) + Cardinality(Active)
  /\ \A t \in Threads : th[t].pc = "run" /\ th[t].sig = "FINISH" =>
       refcnt = 1 /\ flags.sigs = {} /\ \A q \in Queues : queue[q] = 0

(* Every signal set in j_flags is taken up by the thread that runs its     *)
(* handler.                                                                *)
SignalHandled == \A s \in Signals : (s \in flags.sigs) ~> (s \notin flags.sigs)

(* Once the callers have given up their references, the job is destroyed,  *)
(* or a handler has made new ones.                                         *)
LastRefFinishes ==
  (alive /\ \A t \in Threads : refs[t] = 0) ~> (~ alive \/ \E t \in Threads : refs[t] > 0)
=============================================================================
