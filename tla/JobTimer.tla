------------------------------ MODULE JobTimer ------------------------------
(* The timer of a job (job_timer_insert and so on in jobs.c): handlers, on *)
(* any thread, set the time it is to wake up at; one thread, the timer's   *)
(* home, keeps it in its heap and sends the job JS_ALARM.                  *)
(* real_wakeup_time is what the job wants, wakeup_time what the heap was   *)
(* given.  The two threads share both fields without a lock.               *)
EXTENDS Integers, Sequences, FiniteSets

CONSTANTS
  MaxInstant,        \* bound: the clock
  MaxSets            \* bound: calls of job_timer_insert by the handlers

ASSUME TmAssumption == MaxInstant \in Nat /\ MaxSets \in Nat

VARIABLES
  tm,                \* the timer: real, wake (real_wakeup_time, wakeup_time), heap (h_idx > 0)
  entries,           \* the manager's queue: how often the job is in it
  alarm,             \* JS_ALARM is pending
  mgr,               \* the home thread
  job,               \* the handler under way
  nextAt,            \* JT->wakeup_time
  timerRefs,         \* j_refcnt
  owner,             \* the creator still has its reference
  instant, setsLeft

tmVars == <<tm, entries, alarm, mgr, job, nextAt, timerRefs, owner, instant, setsLeft>>

Instants == 1..MaxInstant

TmInit ==
  /\ tm = [real |-> 0, wake |-> 0, heap |-> FALSE] /\ entries = 0 /\ alarm = FALSE
  /\ mgr = [pc |-> "idle", r |-> 0] /\ job = "idle" /\ nextAt = 0 /\ timerRefs = 1 /\ owner = TRUE
  /\ instant = 0 /\ setsLeft = MaxSets

(* do_immediate_timer_insert with the time r it has read: the heap holds a *)
(* reference while the timer is in it.                                     *)
Inserted(x, r) == [x EXCEPT !.wake = r, !.heap = r > 0]
RefsAfter(n, x, r) == IF r > 0 /\ ~x.heap THEN n + 1 ELSE IF r = 0 /\ x.heap THEN n - 1 ELSE n
FirstTime(x) == IF x.heap THEN x.wake ELSE 0

-----------------------------------------------------------------------------
(* A handler of the job *)

(* job_timer_insert on another thread than the timer's home: the time is   *)
(* stored, then the job queued for the manager.                            *)
Far(timeout) ==
  /\ tm.real # timeout
  /\ tm' = [tm EXCEPT !.real = timeout] /\ job' = "queue" /\ UNCHANGED <<nextAt, timerRefs>>

(* On the home thread itself it is done at once. *)
Near(timeout) ==
  /\ tm.real # timeout /\ mgr.pc = "idle"
  /\ tm' = [Inserted(tm, timeout) EXCEPT !.real = timeout]
  /\ timerRefs' = RefsAfter(timerRefs, tm, timeout) /\ nextAt' = FirstTime(tm') /\ UNCHANGED job

SetTimer(timeout) ==
  /\ owner /\ job = "idle" /\ setsLeft > 0 /\ setsLeft' = setsLeft - 1
  /\ Far(timeout) \/ Near(timeout)
  /\ UNCHANGED <<entries, alarm, mgr, owner, instant>>

QueueEntry ==
  /\ job \in {"queue", "alarm"} /\ job' = "idle"
  /\ entries' = entries + 1 /\ timerRefs' = IF job = "alarm" THEN timerRefs ELSE timerRefs + 1
  /\ UNCHANGED <<tm, alarm, mgr, nextAt, owner, instant, setsLeft>>

(* JS_ALARM, with job_timer_check: an alarm for another time than the one  *)
(* wanted now is ignored; one that counts clears the timer.  The signal's  *)
(* reference goes when the handler returns.                                *)
StillWanted == tm.real # 0 /\ tm.real = tm.wake
HandleAlarm ==
  /\ alarm /\ job = "idle" /\ alarm' = FALSE
  /\ \/ ~StillWanted /\ timerRefs' = timerRefs - 1 /\ UNCHANGED <<tm, job, nextAt>>
     \/ /\ StillWanted /\ tm' = [tm EXCEPT !.real = 0] /\ job' = "alarm" /\ UNCHANGED <<nextAt, timerRefs>>
     \/ /\ StillWanted /\ mgr.pc = "idle" /\ UNCHANGED job
        /\ tm' = [Inserted(tm, 0) EXCEPT !.real = 0]
        /\ timerRefs' = RefsAfter(timerRefs, tm, 0) - 1 /\ nextAt' = FirstTime(tm')
  /\ UNCHANGED <<entries, mgr, owner, instant, setsLeft>>

(* The creator lets go of the job. *)
Release ==
  /\ owner /\ job = "idle" /\ owner' = FALSE /\ timerRefs' = timerRefs - 1
  /\ UNCHANGED <<tm, entries, alarm, mgr, job, nextAt, instant, setsLeft>>

-----------------------------------------------------------------------------
(* The home thread *)

(* do_timer_manager_job on JS_RUN: each entry is taken out, the time read, *)
(* the heap changed and the entry's reference dropped.                     *)
PopEntry ==
  /\ mgr.pc = "idle" /\ entries > 0
  /\ entries' = entries - 1 /\ mgr' = [pc |-> "read", r |-> 0]
  /\ UNCHANGED <<tm, alarm, job, nextAt, timerRefs, owner, instant, setsLeft>>
ReadTime ==
  /\ mgr.pc = "read" /\ mgr' = [pc |-> "insert", r |-> tm.real]
  /\ UNCHANGED <<tm, entries, alarm, job, nextAt, timerRefs, owner, instant, setsLeft>>
InsertTime ==
  /\ mgr.pc = "insert" /\ mgr' = [pc |-> "idle", r |-> 0]
  /\ tm' = Inserted(tm, mgr.r) /\ timerRefs' = RefsAfter(timerRefs, tm, mgr.r) - 1 /\ nextAt' = FirstTime(tm')
  /\ UNCHANGED <<entries, alarm, job, owner, instant, setsLeft>>

(* jobs_check_all_timers sends JS_AUX when the first time has come;        *)
(* thread_run_timers takes the timer out of the heap and calls             *)
(* job_timer_wakeup_gateway, which signals the job unless it has changed   *)
(* its mind.                                                               *)
RunTimers ==
  /\ mgr.pc = "idle" /\ nextAt # 0 /\ nextAt <= instant /\ tm.heap /\ tm.wake <= instant
  /\ tm' = [tm EXCEPT !.heap = FALSE] /\ mgr' = [pc |-> "fire", r |-> 0] /\ nextAt' = 0
  /\ UNCHANGED <<entries, alarm, job, timerRefs, owner, instant, setsLeft>>

GatewayAlways ==
  /\ mgr.pc = "fire" /\ mgr' = [pc |-> "idle", r |-> 0]
  /\ timerRefs' = timerRefs - 1 /\ UNCHANGED <<tm, entries, alarm, job, nextAt, owner, instant, setsLeft>>
Gateway ==
  /\ mgr.pc = "fire" /\ mgr' = [pc |-> "idle", r |-> 0]
  /\ LET same == tm.wake = tm.real
     IN  /\ alarm' = (alarm \/ same)
         /\ timerRefs' = IF same /\ ~alarm THEN timerRefs ELSE timerRefs - 1
  /\ UNCHANGED <<tm, entries, job, nextAt, owner, instant, setsLeft>>

ClockTick ==
  instant < MaxInstant /\ instant' = instant + 1 /\
  UNCHANGED <<tm, entries, alarm, mgr, job, nextAt, timerRefs, owner, setsLeft>>

TmNext ==
  \/ \E timeout \in {0} \cup Instants : SetTimer(timeout)
  \/ QueueEntry \/ HandleAlarm \/ Release \/ PopEntry \/ ReadTime \/ InsertTime \/ RunTimers \/ Gateway \/ ClockTick

TmSpec == TmInit /\ [][TmNext]_tmVars

-----------------------------------------------------------------------------
One(b) == IF b THEN 1 ELSE 0

(* A timer is never lost, however the threads interleave: while the job    *)
(* wants to be woken, the time is in the heap of the home thread, or the   *)
(* job is queued there, or its alarm is under way for that very time; the  *)
(* home thread is told of the first time in its heap.  Every place that    *)
(* refers to the job holds one reference, so a job that is gone is in no   *)
(* heap and in no queue and wants no alarm.                                *)
TimerKept ==
  /\ tm.real > 0 =>
       \/ entries > 0 \/ job # "idle" \/ mgr.pc = "read" \/ mgr = [pc |-> "insert", r |-> tm.real]
       \/ tm.wake = tm.real /\ (tm.heap \/ alarm \/ mgr.pc = "fire")
  /\ tm.heap => nextAt = tm.wake
  /\ timerRefs = One(owner) + One(tm.heap) + entries + One(alarm) + One(mgr.pc # "idle") + One(job = "alarm")
  /\ timerRefs = 0 => tm.real = 0

-----------------------------------------------------------------------------
(* net-timers.c: a thread's timers in a binary heap, each knowing its      *)
(* place in it.                                                            *)
CONSTANTS
  NTimers, WakeTimes,
  MaxTimers,         \* MAX_EVENT_TIMERS
  MaxOps             \* bound: operations
Timers == 1..NTimers

VARIABLES
  heap,              \* et_heap[1 .. et_heap_size]
  wakeup,            \* wakeup_time of each timer
  h_idx,
  fired,             \* the times of the timers the last thread_run_timers ran, in order
  ops

heapVars == <<heap, wakeup, h_idx, fired, ops>>

(* Every heap, up to the names of the timers, is a state to start from:    *)
(* insert_event_timer builds it from the empty one.                        *)
HeapOrdered(h, w) == \A i \in DOMAIN h : i > 1 => w[h[i \div 2]] <= w[h[i]]
HeapInit ==
  \E n \in 0..NTimers :
    /\ heap = [i \in 1..n |-> i] /\ h_idx = [t \in Timers |-> IF t <= n THEN t ELSE 0]
    /\ wakeup \in [Timers -> WakeTimes] /\ (\A t \in Timers : t > n => wakeup[t] = 1)
    /\ HeapOrdered(heap, wakeup) /\ fired = <<>> /\ ops = 0

(* basic_et_adjust: et is to be put in at place i of the heap h.  Larger   *)
(* parents come down, then smaller children go up, until it fits.  Each    *)
(* move keeps h_idx true: a place is written together with the h_idx of    *)
(* the timer written to it.                                                *)
Parents(h, et, i, w) == i > 1 /\ w[h[i \div 2]] > w[et]
Child(h, i, w) == IF 2 * i < Len(h) /\ w[h[2 * i]] > w[h[2 * i + 1]] THEN 2 * i + 1 ELSE 2 * i
Children(h, et, i, w) == 2 * i <= Len(h) /\ w[et] > w[h[Child(h, i, w)]]

SiftUp(h, et, i, w) ==
  LET up[k \in 1..Len(h)] ==      \* the places et passes from i, k the number of moves
        LET p == IF k = 1 THEN [h |-> h, i |-> i] ELSE up[k - 1]
        IN  IF Parents(p.h, et, p.i, w) THEN [h |-> [p.h EXCEPT ![p.i] = p.h[p.i \div 2]], i |-> p.i \div 2]
            ELSE p
  IN  up[Len(h)]
SiftDown(h, et, i, w) ==
  LET down[k \in 1..Len(h)] ==
        LET p == IF k = 1 THEN [h |-> h, i |-> i] ELSE down[k - 1]
        IN  IF Children(p.h, et, p.i, w)
            THEN LET j == Child(p.h, p.i, w) IN [h |-> [p.h EXCEPT ![p.i] = p.h[j]], i |-> j]
            ELSE p
  IN  down[Len(h)]
basic_et_adjust(h, et, i, w) ==
  LET u == SiftUp(h, et, i, w)
      d == SiftDown(u.h, et, u.i, w)
  IN  [d.h EXCEPT ![d.i] = et]

(* h_idx of the timers that were moved, and of the others as it was. *)
Indexed(old, h, idx) ==
  [t \in Timers |-> LET at == {k \in DOMAIN h : h[k] = t /\ (k > Len(old) \/ old[k] # t)}
                    IN  IF at = {} THEN idx[t] ELSE CHOOSE k \in at : TRUE]

insert_event_timer(et, time) ==
  /\ h_idx[et] = 0 => Len(heap) < MaxTimers
  /\ wakeup' = [wakeup EXCEPT ![et] = time]
  /\ LET start == IF h_idx[et] = 0 THEN Append(heap, et) ELSE heap
         i == IF h_idx[et] = 0 THEN Len(start) ELSE h_idx[et]
         h == basic_et_adjust(start, et, i, wakeup')
     IN  heap' = h /\ h_idx' = [Indexed(start, h, h_idx) EXCEPT ![et] = CHOOSE k \in DOMAIN h : h[k] = et]
  /\ UNCHANGED fired

(* remove_event_timer: the last timer takes the place of the removed one. *)
Removed(h, i, w) ==
  LET short == SubSeq(h, 1, Len(h) - 1)
  IN  IF i > Len(short) THEN short ELSE basic_et_adjust(short, h[Len(h)], i, w)
remove_event_timer(et) ==
  /\ h_idx[et] # 0
  /\ LET h == Removed(heap, h_idx[et], wakeup)
     IN  heap' = h /\ h_idx' = [Indexed(heap, h, h_idx) EXCEPT ![et] = 0]
  /\ UNCHANGED <<wakeup, fired>>

(* thread_run_timers: while the first timer's time has come, it is removed *)
(* and run.  A timer that is run here does not set itself again.           *)
thread_run_timers(now) ==
  /\ heap # <<>> /\ wakeup[heap[1]] <= now
  /\ LET run[k \in 0..Len(heap)] ==
           IF k = 0 THEN [h |-> heap, idx |-> h_idx, ran |-> <<>>]
           ELSE LET p == run[k - 1]
                IN  IF p.h = <<>> \/ wakeup[p.h[1]] > now THEN p
                    ELSE LET h == Removed(p.h, 1, wakeup)
                         IN  [h |-> h, idx |-> [Indexed(p.h, h, p.idx) EXCEPT ![p.h[1]] = 0],
                              ran |-> Append(p.ran, p.h[1])]
         all == run[Len(heap)]
     IN  /\ heap' = all.h /\ h_idx' = all.idx
         /\ fired' = [k \in DOMAIN all.ran |-> wakeup[all.ran[k]]]
  /\ UNCHANGED wakeup

HeapNext ==
  /\ ops < MaxOps /\ ops' = ops + 1
  /\ \/ \E t \in Timers, w \in WakeTimes : insert_event_timer(t, w)
     \/ \E t \in Timers : remove_event_timer(t)
     \/ \E now \in WakeTimes : thread_run_timers(now)

(* The heap is one after every operation: no timer wakes up before the one *)
(* above it, so that timers_get_first is the earliest; every timer is in   *)
(* it where its h_idx says and nowhere else; and the timers that come due  *)
(* are run in the order of their times.                                    *)
HeapRight ==
  /\ HeapOrdered(heap, wakeup)
  /\ \A t \in Timers : {i \in DOMAIN heap : heap[i] = t} = {h_idx[t]} \ {0}
  /\ \A i, j \in DOMAIN fired : i < j => fired[i] <= fired[j]
=============================================================================
