---------------------------- MODULE JobSubclass ----------------------------
(* Job classes with subclasses (jobs.c): the jobs of one subclass run one  *)
(* after another, those of different subclasses side by side, and those of *)
(* subclass -1 with no other job of the class.  Every access to a shared   *)
(* counter, lock, queue or semaphore is a step.                            *)
EXTENDS Integers, Sequences, FiniteSets

CONSTANTS
  SubThreads,        \* threads of the class
  SubJobs,           \* job -> its subclass
  Tokens             \* MAX_SUBCLASS_THREADS

ASSUME SubAssumption ==
  /\ IsFiniteSet(SubThreads) /\ IsFiniteSet(DOMAIN SubJobs)
  /\ Tokens \in Nat \ {0}

Alone == -1
Subs == {SubJobs[j] : j \in DOMAIN SubJobs}

VARIABLES
  jobQ,              \* JC->job_queue: the numbers of subclasses
  subQ,              \* each subclass's job_queue
  sub,               \* allowed_to_run_jobs, processed_jobs, locked
  tokens,            \* J_SCL->sem
  worker,            \* the threads
  subDone            \* for each job: not yet queued, in between, queued; how often it ran

subVars == <<jobQ, subQ, sub, tokens, worker, subDone>>

AtRest == [pc |-> "pop", s |-> 0, took |-> 0, job |-> 0]

SubInit ==
  /\ jobQ = <<>> /\ subQ = [s \in Subs |-> <<>>]
  /\ sub = [s \in Subs |-> [allowed |-> 0, processed |-> 0, locked |-> FALSE]]
  /\ tokens = Tokens
  /\ worker = [t \in SubThreads |-> AtRest]
  /\ subDone = [j \in DOMAIN SubJobs |-> [put |-> 0, ran |-> 0]]

(* The end of unlock_job: the job goes into the subclass's queue, then the *)
(* subclass's number into the class's.                                     *)
PutJob(j) ==
  /\ subDone[j].put = 0
  /\ subQ' = [subQ EXCEPT ![SubJobs[j]] = Append(@, j)]
  /\ subDone' = [subDone EXCEPT ![j].put = 1]
  /\ UNCHANGED <<jobQ, sub, tokens, worker>>
PutNumber(j) ==
  /\ subDone[j].put = 1
  /\ jobQ' = Append(jobQ, SubJobs[j])
  /\ subDone' = [subDone EXCEPT ![j].put = 2]
  /\ UNCHANGED <<subQ, sub, tokens, worker>>

-----------------------------------------------------------------------------
(* process_one_sublist *)

SubGoto(t, pc) == worker' = [worker EXCEPT ![t].pc = pc]

PopNumber(t) ==
  /\ worker[t].pc = "pop" /\ jobQ # <<>>
  /\ jobQ' = Tail(jobQ)
  /\ worker' = [worker EXCEPT ![t] = [AtRest EXCEPT !.pc = "allow", !.s = Head(jobQ)]]
  /\ UNCHANGED <<subQ, sub, tokens, subDone>>

Allow(t) ==
  /\ worker[t].pc = "allow"
  /\ sub' = [sub EXCEPT ![worker[t].s].allowed = @ + 1]
  /\ SubGoto(t, "lock") /\ UNCHANGED <<jobQ, subQ, tokens, subDone>>

TryLock(t) ==
  /\ worker[t].pc \in {"lock", "relock"}
  /\ LET s == worker[t].s
     IN  IF sub[s].locked
         THEN SubGoto(t, IF worker[t].pc = "lock" THEN "pop" ELSE "post") /\ UNCHANGED sub
         ELSE /\ SubGoto(t, IF worker[t].pc = "lock" THEN "wait" ELSE "loop")
              /\ sub' = [sub EXCEPT ![s].locked = TRUE]
  /\ UNCHANGED <<jobQ, subQ, tokens, subDone>>

Wanted(s) == IF s = Alone THEN Tokens ELSE 1
SemWait(t) ==
  /\ worker[t].pc = "wait" /\ tokens > 0
  /\ tokens' = tokens - 1
  /\ worker' = [worker EXCEPT ![t].took = @ + 1,
                              ![t].pc = IF worker[t].took + 1 = Wanted(worker[t].s) THEN "loop" ELSE "wait"]
  /\ UNCHANGED <<jobQ, subQ, sub, subDone>>

MoreToRun(s) == sub[s].processed < sub[s].allowed
Loop(t) ==
  /\ worker[t].pc = "loop"
  /\ SubGoto(t, IF MoreToRun(worker[t].s) THEN "take" ELSE "unlock")
  /\ UNCHANGED <<jobQ, subQ, sub, tokens, subDone>>

TakeJob(t) ==
  /\ worker[t].pc = "take" /\ subQ[worker[t].s] # <<>>
  /\ worker' = [worker EXCEPT ![t].pc = "run", ![t].job = Head(subQ[worker[t].s])]
  /\ subQ' = [subQ EXCEPT ![worker[t].s] = Tail(@)]
  /\ UNCHANGED <<jobQ, sub, tokens, subDone>>

RunJob(t) ==
  /\ worker[t].pc = "run"
  /\ subDone' = [subDone EXCEPT ![worker[t].job].ran = @ + 1]
  /\ sub' = [sub EXCEPT ![worker[t].s].processed = @ + 1]
  /\ worker' = [worker EXCEPT ![t].pc = "loop", ![t].job = 0]
  /\ UNCHANGED <<jobQ, subQ, tokens>>

Unlock(t) ==
  /\ worker[t].pc = "unlock"
  /\ sub' = [sub EXCEPT ![worker[t].s].locked = FALSE]
  /\ SubGoto(t, "again") /\ UNCHANGED <<jobQ, subQ, tokens, subDone>>

LookAgainNever(t) ==
  /\ worker[t].pc = "again" /\ SubGoto(t, "post") /\ UNCHANGED <<jobQ, subQ, sub, tokens, subDone>>
LookAgain(t) ==
  /\ worker[t].pc = "again"
  /\ SubGoto(t, IF MoreToRun(worker[t].s) THEN "relock" ELSE "post")
  /\ UNCHANGED <<jobQ, subQ, sub, tokens, subDone>>

SemPostBack(t) ==
  /\ worker[t].pc = "post"
  /\ tokens' = tokens + 1
  /\ worker' = [worker EXCEPT ![t] = IF worker[t].took = 1 THEN AtRest ELSE [worker[t] EXCEPT !.took = @ - 1]]
  /\ UNCHANGED <<jobQ, subQ, sub, subDone>>

SubNext ==
  \/ \E j \in DOMAIN SubJobs : PutJob(j) \/ PutNumber(j)
  \/ \E t \in SubThreads :
       \/ PopNumber(t) \/ Allow(t) \/ TryLock(t) \/ SemWait(t) \/ Loop(t) \/ TakeJob(t) \/ RunJob(t)
       \/ Unlock(t) \/ LookAgain(t) \/ SemPostBack(t)

SubSpec == SubInit /\ [][SubNext]_subVars

-----------------------------------------------------------------------------
Running == {t \in SubThreads : worker[t].pc = "run"}
Resting == jobQ = <<>> /\ \A t \in SubThreads : worker[t].pc = "pop"

(* A class with subclasses runs every job once and in the promised company: *)
(* no two jobs of a subclass at a time, a job of subclass -1 alone; the     *)
(* assertion that the subclass's queue holds a job never fails; when all    *)
(* threads are back at the queue and it is empty, every token is back and,  *)
(* unless a job is being queued, none is left over.                         *)
SublistsRight ==
  /\ \A t, u \in Running : t # u => worker[t].s # worker[u].s /\ Alone \notin {worker[t].s, worker[u].s}
  /\ \A t \in SubThreads : worker[t].pc = "take" => subQ[worker[t].s] # <<>>
  /\ \A j \in DOMAIN SubJobs : subDone[j].ran <= 1
  /\ Resting => tokens = Tokens
  /\ Resting /\ (\A j \in DOMAIN SubJobs : subDone[j].put # 1) =>
       \A j \in DOMAIN SubJobs : subDone[j].put = 2 => subDone[j].ran = 1
=============================================================================
