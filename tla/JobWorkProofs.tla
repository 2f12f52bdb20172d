---------------------------- MODULE JobWorkProofs ----------------------------
(* Proofs about the job machinery: subclasses and timers of jobs, for any  *)
(* threads, jobs and tokens.                                               *)
EXTENDS JobSubclass, JobTimer, FiniteSetTheorems, TLAPS

(* Most leaves are first-order; the ones with arithmetic cite SMT.         *)
USE ZenonT(60)

SubNames == DOMAIN SubJobs
SubPcs == {"pop", "allow", "lock", "wait", "loop", "take", "run", "unlock", "again", "relock", "post"}

SubTypeOK ==
  /\ jobQ \in Seq(Subs) /\ subQ \in [Subs -> Seq(SubNames)]
  /\ sub \in [Subs -> [allowed : Nat, processed : Nat, locked : BOOLEAN]]
  /\ tokens \in Nat
  /\ worker \in [SubThreads -> [pc : SubPcs, s : Subs \cup {0}, took : Nat, job : SubNames \cup {0}]]
  /\ subDone \in [SubNames -> [put : 0..2, ran : 0..1]]
  /\ \A t \in SubThreads : worker[t].pc # "pop" => worker[t].s \in Subs

(* The tokens of the semaphore are with it or with the threads, and a      *)
(* thread past the semaphore has as many as its subclass wants.            *)
TookAt(pc, s, took) ==
  /\ pc \in {"pop", "allow", "lock"} => took = 0
  /\ pc = "wait" => took < Wanted(s)
  /\ pc \in {"loop", "take", "run", "unlock", "again", "relock"} => took = Wanted(s)
  /\ pc = "post" => took \in 1..Wanted(s)
TookRight(t) == TookAt(worker[t].pc, worker[t].s, worker[t].took)
TokensTaken == {p \in SubThreads \X (1..Tokens) : p[2] <= worker[p[1]].took}
TokensKept ==
  /\ \A t \in SubThreads : TookRight(t)
  /\ tokens + Cardinality(TokensTaken) = Tokens

(* The lock of a subclass is held by the one thread that is inside.        *)
InsidePcs == {"wait", "loop", "take", "run", "unlock"}
Inside(t, s) == worker[t].pc \in InsidePcs /\ worker[t].s = s
LocksKept ==
  \A s \in Subs :
    /\ \A t, u \in SubThreads : Inside(t, s) /\ Inside(u, s) => t = u
    /\ sub[s].locked <=> \E t \in SubThreads : Inside(t, s)

(* Where there is more to run, a thread is there or will look again; one   *)
(* that takes a job does so where there is more to run.                    *)
CaringPcs == InsidePcs \cup {"lock", "again", "relock"}
Cares(t, s) == worker[t].pc \in CaringPcs /\ worker[t].s = s
WorkKept ==
  /\ \A s \in Subs : MoreToRun(s) => \E t \in SubThreads : Cares(t, s)
  /\ \A t \in SubThreads, s \in Subs : worker[t].pc \in {"take", "run"} /\ worker[t].s = s => MoreToRun(s)

(* A job that was put and has not run is in the queue of its subclass,     *)
(* once, or with the thread that runs it.                                  *)
NoRepeats(q) == \A i, k \in DOMAIN q : q[i] = q[k] => i = k
Occurs(q, j) == \E i \in DOMAIN q : q[i] = j
Runs(t, j) == worker[t].pc = "run" /\ worker[t].job = j
Waiting(j) == subDone[j].put # 0 /\ subDone[j].ran = 0

QueuesDistinct == \A s \in Subs : NoRepeats(subQ[s])
QueuedRight ==
  \A s \in Subs, j \in SubNames :
    Occurs(subQ[s], j) => SubJobs[j] = s /\ Waiting(j) /\ \A t \in SubThreads : ~ Runs(t, j)
RunningRight ==
  /\ \A t \in SubThreads : worker[t].pc = "run" => worker[t].job \in SubNames
  /\ \A t \in SubThreads, j \in SubNames : Runs(t, j) => Waiting(j) /\ worker[t].s = SubJobs[j]
RanRight == \A j \in SubNames : subDone[j].ran = 1 => subDone[j].put # 0
NoneLost ==
  \A j \in SubNames : Waiting(j) => Occurs(subQ[SubJobs[j]], j) \/ \E t \in SubThreads : Runs(t, j)
PlacesKept == QueuesDistinct /\ QueuedRight /\ RunningRight /\ RanRight /\ NoneLost

(* Every number of a subclass that was put is in the queue of the class,   *)
(* with a thread or allowed; and what was processed has run.               *)
NumbersIn(q, s) == {i \in DOMAIN q : q[i] = s}
NumberWith(s) == {t \in SubThreads : worker[t].pc = "allow" /\ worker[t].s = s}
PutOf(s) == {j \in SubNames : SubJobs[j] = s /\ subDone[j].put = 2}
RanOf(s) == {j \in SubNames : SubJobs[j] = s /\ subDone[j].ran = 1}
CountsKept ==
  \A s \in Subs :
    /\ sub[s].allowed + Cardinality(NumberWith(s)) + Cardinality(NumbersIn(jobQ, s)) = Cardinality(PutOf(s))
    /\ sub[s].processed = Cardinality(RanOf(s))

SubInv == SubTypeOK /\ TokensKept /\ LocksKept /\ WorkKept /\ PlacesKept /\ CountsKept

-----------------------------------------------------------------------------
(* What a step does to the threads, and to a subclass.                     *)
WorkerStates == [pc : SubPcs, s : Subs \cup {0}, took : Nat, job : SubNames \cup {0}]
Proceeds(t, pc, s, took, j) ==
  /\ worker' \in [SubThreads -> WorkerStates]
  /\ \A u \in SubThreads : u # t => worker'[u] = worker[u]
  /\ worker'[t] = [pc |-> pc, s |-> s, took |-> took, job |-> j]
Ahead(t, pc) == Proceeds(t, pc, worker[t].s, worker[t].took, worker[t].job)
Becomes(s, allowed, processed, locked) ==
  /\ sub' \in [Subs -> [allowed : Nat, processed : Nat, locked : BOOLEAN]]
  /\ \A r \in Subs : r # s => sub'[r] = sub[r]
  /\ sub'[s] = [allowed |-> allowed, processed |-> processed, locked |-> locked]

(* Where the thread is after its step.                                     *)
LEMMA ThreadFields ==
  ASSUME NEW t \in SubThreads, NEW pc, NEW s, NEW took, NEW j, Proceeds(t, pc, s, took, j)
  PROVE  worker'[t].pc = pc /\ worker'[t].s = s /\ worker'[t].took = took /\ worker'[t].job = j
BY SMT DEF Proceeds

(* SubGoto changes only where the thread is.                               *)
LEMMA GotoGoes ==
  ASSUME SubTypeOK, NEW t \in SubThreads, NEW pc \in SubPcs, SubGoto(t, pc)
  PROVE  Ahead(t, pc)
<1>1. worker[t] \in WorkerStates /\ worker \in [SubThreads -> WorkerStates]
  BY DEF SubTypeOK, WorkerStates
<1>2. worker[t] = [pc |-> worker[t].pc, s |-> worker[t].s, took |-> worker[t].took, job |-> worker[t].job]
  BY <1>1, SMT DEF WorkerStates
<1>3. [worker[t] EXCEPT !.pc = pc] = [pc |-> pc, s |-> worker[t].s, took |-> worker[t].took, job |-> worker[t].job]
  BY <1>1, SMT DEF WorkerStates
<1>4. [worker[t] EXCEPT !.pc = pc] \in WorkerStates
  BY <1>1, <1>3, SMT DEF WorkerStates
<1>5. worker' = [worker EXCEPT ![t] = [worker[t] EXCEPT !.pc = pc]]
  BY DEF SubGoto
<1> QED
  BY <1>1, <1>3, <1>4, <1>5 DEF Ahead, Proceeds

(* Two fields of a thread set at once.                                     *)
LEMMA TookAndPc ==
  ASSUME NEW w \in [SubThreads -> WorkerStates], NEW t \in SubThreads, NEW a, NEW b
  PROVE  [w EXCEPT ![t].took = a, ![t].pc = b] =
           [w EXCEPT ![t] = [pc |-> b, s |-> w[t].s, took |-> a, job |-> w[t].job]]
<1> DEFINE m == [w EXCEPT ![t].took = a]
<1>1. [w EXCEPT ![t].took = a, ![t].pc = b] = [m EXCEPT ![t] = [m[t] EXCEPT !.pc = b]]
  OBVIOUS
<1>2. w[t] \in WorkerStates
  OBVIOUS
<1>3. m = [w EXCEPT ![t] = [w[t] EXCEPT !.took = a]]
  OBVIOUS
<1>4. [w[t] EXCEPT !.took = a] = [pc |-> w[t].pc, s |-> w[t].s, took |-> a, job |-> w[t].job]
  BY <1>2, SMT DEF WorkerStates
<1>5. m[t] = [pc |-> w[t].pc, s |-> w[t].s, took |-> a, job |-> w[t].job]
  BY <1>3, <1>4
<1>6. [m[t] EXCEPT !.pc = b] = [pc |-> b, s |-> w[t].s, took |-> a, job |-> w[t].job]
  <2> HIDE DEF m
  <2> QED
    BY <1>5, SMT
<1>7. [m EXCEPT ![t] = [m[t] EXCEPT !.pc = b]] = [w EXCEPT ![t] = [m[t] EXCEPT !.pc = b]]
  BY <1>3
<1> QED
  BY <1>1, <1>6, <1>7

(* The same for where it is and its job.                                   *)
LEMMA PcAndJob ==
  ASSUME NEW w \in [SubThreads -> WorkerStates], NEW t \in SubThreads, NEW a, NEW b
  PROVE  [w EXCEPT ![t].pc = a, ![t].job = b] =
           [w EXCEPT ![t] = [pc |-> a, s |-> w[t].s, took |-> w[t].took, job |-> b]]
<1> DEFINE m == [w EXCEPT ![t].pc = a]
<1>1. [w EXCEPT ![t].pc = a, ![t].job = b] = [m EXCEPT ![t] = [m[t] EXCEPT !.job = b]]
  OBVIOUS
<1>2. w[t] \in WorkerStates
  OBVIOUS
<1>3. m = [w EXCEPT ![t] = [w[t] EXCEPT !.pc = a]]
  OBVIOUS
<1>4. [w[t] EXCEPT !.pc = a] = [pc |-> a, s |-> w[t].s, took |-> w[t].took, job |-> w[t].job]
  BY <1>2, SMT DEF WorkerStates
<1>5. m[t] = [pc |-> a, s |-> w[t].s, took |-> w[t].took, job |-> w[t].job]
  BY <1>3, <1>4
<1>6. [m[t] EXCEPT !.job = b] = [pc |-> a, s |-> w[t].s, took |-> w[t].took, job |-> b]
  <2> HIDE DEF m
  <2> QED
    BY <1>5, SMT
<1>7. [m EXCEPT ![t] = [m[t] EXCEPT !.job = b]] = [w EXCEPT ![t] = [m[t] EXCEPT !.job = b]]
  BY <1>3
<1> QED
  BY <1>1, <1>6, <1>7

(* The steps of a thread, in these words.                                  *)
LEMMA PopGoes ==
  ASSUME SubTypeOK, NEW t \in SubThreads, PopNumber(t)
  PROVE  /\ Head(jobQ) \in Subs /\ jobQ' \in Seq(Subs)
         /\ Proceeds(t, "allow", Head(jobQ), 0, 0)
<1>1. Head(jobQ) \in Subs /\ Tail(jobQ) \in Seq(Subs)
  BY SMT DEF SubTypeOK, PopNumber
<1>2. [AtRest EXCEPT !.pc = "allow", !.s = Head(jobQ)] = [pc |-> "allow", s |-> Head(jobQ), took |-> 0, job |-> 0]
  <2>1. [AtRest EXCEPT !.pc = "allow"] = [pc |-> "allow", s |-> 0, took |-> 0, job |-> 0]
    BY SMT DEF AtRest
  <2>2. [[pc |-> "allow", s |-> 0, took |-> 0, job |-> 0] EXCEPT !.s = Head(jobQ)] =
          [pc |-> "allow", s |-> Head(jobQ), took |-> 0, job |-> 0]
    BY SMT
  <2> QED
    BY <2>1, <2>2
<1>3. [pc |-> "allow", s |-> Head(jobQ), took |-> 0, job |-> 0] \in WorkerStates
  BY <1>1, SMT DEF WorkerStates, SubPcs
<1> QED
  BY <1>1, <1>2, <1>3 DEF PopNumber, Proceeds, SubTypeOK, WorkerStates

LEMMA WaitGoes ==
  ASSUME SubTypeOK, NEW t \in SubThreads, SemWait(t)
  PROVE  \E pc \in {"loop", "wait"} :
           /\ pc = IF worker[t].took + 1 = Wanted(worker[t].s) THEN "loop" ELSE "wait"
           /\ Proceeds(t, pc, worker[t].s, worker[t].took + 1, worker[t].job)
<1> DEFINE pc == IF worker[t].took + 1 = Wanted(worker[t].s) THEN "loop" ELSE "wait"
           new == [pc |-> pc, s |-> worker[t].s, took |-> worker[t].took + 1, job |-> worker[t].job]
<1>1. worker[t] \in WorkerStates /\ worker \in [SubThreads -> WorkerStates]
  BY DEF SubTypeOK, WorkerStates
<1>2. pc \in {"loop", "wait"}
  OBVIOUS
<1>3. worker' = [worker EXCEPT ![t] = new]
  <2> HIDE DEF pc
  <2>1. worker' = [worker EXCEPT ![t].took = @ + 1, ![t].pc = pc]
    BY DEF SemWait, pc
  <2>2. \A a, b : [worker EXCEPT ![t].took = a, ![t].pc = b] =
          [worker EXCEPT ![t] = [pc |-> b, s |-> worker[t].s, took |-> a, job |-> worker[t].job]]
    BY <1>1, TookAndPc
  <2>3. worker' = [worker EXCEPT ![t].took = worker[t].took + 1, ![t].pc = pc]
    BY <1>1, <2>1
  <2> QED
    BY <2>2, <2>3
<1>4. new \in WorkerStates
  <2> HIDE DEF pc
  <2> QED
    BY <1>1, <1>2, SMT DEF WorkerStates, SubPcs
<1>5. Proceeds(t, pc, worker[t].s, worker[t].took + 1, worker[t].job)
  <2> HIDE DEF pc
  <2> QED
    BY <1>1, <1>3, <1>4 DEF Proceeds
<1> QED
  BY <1>2, <1>5

LEMMA TakeGoes ==
  ASSUME SubTypeOK, NEW t \in SubThreads, TakeJob(t)
  PROVE  LET s == worker[t].s
         IN  /\ s \in Subs /\ Head(subQ[s]) \in SubNames
             /\ subQ' \in [Subs -> Seq(SubNames)] /\ subQ'[s] = Tail(subQ[s])
             /\ \A r \in Subs : r # s => subQ'[r] = subQ[r]
             /\ Proceeds(t, "run", s, worker[t].took, Head(subQ[s]))
<1> DEFINE new == [pc |-> "run", s |-> worker[t].s, took |-> worker[t].took, job |-> Head(subQ[worker[t].s])]
<1>1. worker[t] \in WorkerStates /\ worker \in [SubThreads -> WorkerStates]
  BY DEF SubTypeOK, WorkerStates
<1>2. worker[t].s \in Subs /\ subQ[worker[t].s] \in Seq(SubNames) /\ subQ \in [Subs -> Seq(SubNames)]
  BY SMT DEF SubTypeOK, TakeJob
<1>3. Head(subQ[worker[t].s]) \in SubNames /\ Tail(subQ[worker[t].s]) \in Seq(SubNames)
  BY <1>2, SMT DEF TakeJob
<1>4. worker' = [worker EXCEPT ![t] = new]
  <2>1. \A a, b : [worker EXCEPT ![t].pc = a, ![t].job = b] =
          [worker EXCEPT ![t] = [pc |-> a, s |-> worker[t].s, took |-> worker[t].took, job |-> b]]
    BY <1>1, PcAndJob
  <2>2. worker' = [worker EXCEPT ![t].pc = "run", ![t].job = Head(subQ[worker[t].s])]
    BY DEF TakeJob
  <2> QED
    BY <2>1, <2>2
<1>5. new \in WorkerStates
  BY <1>1, <1>3, SMT DEF WorkerStates, SubPcs
<1>6. Proceeds(t, "run", worker[t].s, worker[t].took, Head(subQ[worker[t].s]))
  BY <1>1, <1>4, <1>5 DEF Proceeds
<1>7. subQ' = [subQ EXCEPT ![worker[t].s] = Tail(subQ[worker[t].s])]
  BY DEF TakeJob
<1> QED
  BY <1>2, <1>3, <1>6, <1>7

LEMMA RunGoes ==
  ASSUME SubTypeOK, NEW t \in SubThreads, RunJob(t)
  PROVE  Proceeds(t, "loop", worker[t].s, worker[t].took, 0)
<1> DEFINE new == [pc |-> "loop", s |-> worker[t].s, took |-> worker[t].took, job |-> 0]
<1>1. worker[t] \in WorkerStates /\ worker \in [SubThreads -> WorkerStates]
  BY DEF SubTypeOK, WorkerStates
<1>2. worker' = [worker EXCEPT ![t] = new]
  <2>1. \A a, b : [worker EXCEPT ![t].pc = a, ![t].job = b] =
          [worker EXCEPT ![t] = [pc |-> a, s |-> worker[t].s, took |-> worker[t].took, job |-> b]]
    BY <1>1, PcAndJob
  <2>2. worker' = [worker EXCEPT ![t].pc = "loop", ![t].job = 0]
    BY DEF RunJob
  <2> QED
    BY <2>1, <2>2
<1>3. new \in WorkerStates
  BY <1>1, SMT DEF WorkerStates, SubPcs
<1> QED
  BY <1>1, <1>2, <1>3 DEF Proceeds

LEMMA PostGoes ==
  ASSUME SubTypeOK, TokensKept, NEW t \in SubThreads, SemPostBack(t)
  PROVE  /\ worker[t].took \in Nat /\ worker[t].took >= 1
         /\ \/ worker[t].took = 1 /\ Proceeds(t, "pop", 0, 0, 0)
            \/ worker[t].took > 1 /\ Proceeds(t, "post", worker[t].s, worker[t].took - 1, worker[t].job)
<1>1. worker[t] \in WorkerStates /\ worker \in [SubThreads -> WorkerStates]
  BY DEF SubTypeOK, WorkerStates
<1>2. worker[t].pc = "post" /\ worker[t].took \in Nat /\ worker[t].took >= 1
  BY <1>1, SMT DEF TokensKept, TookRight, TookAt, SemPostBack, WorkerStates, Wanted
<1>3. CASE worker[t].took = 1
  <2>1. worker' = [worker EXCEPT ![t] = [pc |-> "pop", s |-> 0, took |-> 0, job |-> 0]]
    BY <1>3 DEF SemPostBack, AtRest
  <2>2. [pc |-> "pop", s |-> 0, took |-> 0, job |-> 0] \in WorkerStates
    BY SMT DEF WorkerStates, SubPcs
  <2>3. Proceeds(t, "pop", 0, 0, 0)
    BY <1>1, <2>1, <2>2 DEF Proceeds
  <2> QED
    BY <1>2, <1>3, <2>3
<1>4. CASE worker[t].took # 1
  <2> DEFINE new == [pc |-> "post", s |-> worker[t].s, took |-> worker[t].took - 1, job |-> worker[t].job]
  <2>0. (IF worker[t].took = 1 THEN AtRest ELSE [worker[t] EXCEPT !.took = @ - 1]) = [worker[t] EXCEPT !.took = @ - 1]
    BY <1>4
  <2>1. worker' = [worker EXCEPT ![t] = [worker[t] EXCEPT !.took = @ - 1]]
    BY <2>0 DEF SemPostBack
  <2>2. [worker[t] EXCEPT !.took = @ - 1] = new
    BY <1>1, <1>2, SMT DEF WorkerStates
  <2>3. new \in WorkerStates
    BY <1>1, <1>2, SMT DEF WorkerStates, SubPcs
  <2>4. Proceeds(t, "post", worker[t].s, worker[t].took - 1, worker[t].job)
    BY <1>1, <2>1, <2>2, <2>3 DEF Proceeds
  <2>5. worker[t].took > 1
    BY <1>2, <1>4, SMT
  <2> QED
    BY <1>2, <2>4, <2>5
<1> QED
  BY <1>3, <1>4
(* One field of a subclass set.                                            *)
LEMMA AllowedSet ==
  ASSUME SubTypeOK, NEW s \in Subs, NEW v \in Nat, sub' = [sub EXCEPT ![s].allowed = v]
  PROVE  Becomes(s, v, sub[s].processed, sub[s].locked)
<1>1. sub[s] \in [allowed : Nat, processed : Nat, locked : BOOLEAN]
  BY DEF SubTypeOK
<1>2. [sub[s] EXCEPT !.allowed = v] = [allowed |-> v, processed |-> sub[s].processed, locked |-> sub[s].locked]
  BY <1>1, SMT
<1>3. [allowed |-> v, processed |-> sub[s].processed, locked |-> sub[s].locked]
        \in [allowed : Nat, processed : Nat, locked : BOOLEAN]
  BY <1>1
<1>4. sub' = [sub EXCEPT ![s] = [sub[s] EXCEPT !.allowed = v]]
  OBVIOUS
<1> QED
  BY <1>2, <1>3, <1>4 DEF Becomes, SubTypeOK

(* Another.                                                                *)
LEMMA ProcessedSet ==
  ASSUME SubTypeOK, NEW s \in Subs, NEW v \in Nat, sub' = [sub EXCEPT ![s].processed = v]
  PROVE  Becomes(s, sub[s].allowed, v, sub[s].locked)
<1>1. sub[s] \in [allowed : Nat, processed : Nat, locked : BOOLEAN]
  BY DEF SubTypeOK
<1>2. [sub[s] EXCEPT !.processed = v] = [allowed |-> sub[s].allowed, processed |-> v, locked |-> sub[s].locked]
  BY <1>1, SMT
<1>3. [allowed |-> sub[s].allowed, processed |-> v, locked |-> sub[s].locked]
        \in [allowed : Nat, processed : Nat, locked : BOOLEAN]
  BY <1>1
<1>4. sub' = [sub EXCEPT ![s] = [sub[s] EXCEPT !.processed = v]]
  OBVIOUS
<1> QED
  BY <1>2, <1>3, <1>4 DEF Becomes, SubTypeOK

(* And the lock.                                                           *)
LEMMA LockedSet ==
  ASSUME SubTypeOK, NEW s \in Subs, NEW v \in BOOLEAN, sub' = [sub EXCEPT ![s].locked = v]
  PROVE  Becomes(s, sub[s].allowed, sub[s].processed, v)
<1>1. sub[s] \in [allowed : Nat, processed : Nat, locked : BOOLEAN]
  BY DEF SubTypeOK
<1>2. [sub[s] EXCEPT !.locked = v] = [allowed |-> sub[s].allowed, processed |-> sub[s].processed, locked |-> v]
  BY <1>1, SMT
<1>3. [allowed |-> sub[s].allowed, processed |-> sub[s].processed, locked |-> v]
        \in [allowed : Nat, processed : Nat, locked : BOOLEAN]
  BY <1>1
<1>4. sub' = [sub EXCEPT ![s] = [sub[s] EXCEPT !.locked = v]]
  OBVIOUS
<1> QED
  BY <1>2, <1>3, <1>4 DEF Becomes, SubTypeOK

(* The steps that change a subclass, in these words.                       *)
LEMMA AllowGoes ==
  ASSUME SubTypeOK, NEW t \in SubThreads, Allow(t)
  PROVE  LET s == worker[t].s
         IN  /\ s \in Subs /\ Ahead(t, "lock")
             /\ Becomes(s, sub[s].allowed + 1, sub[s].processed, sub[s].locked)
<1>1. worker[t].s \in Subs
  BY DEF SubTypeOK, Allow
<1>2. Ahead(t, "lock")
  BY GotoGoes DEF Allow, SubPcs
<1>3. sub[worker[t].s].allowed \in Nat
  BY <1>1 DEF SubTypeOK
<1>4. sub[worker[t].s].allowed + 1 \in Nat
  BY <1>3, SMT
<1>5. sub' = [sub EXCEPT ![worker[t].s].allowed = sub[worker[t].s].allowed + 1]
  BY DEF Allow
<1> QED
  BY <1>1, <1>2, <1>4, <1>5, AllowedSet

LEMMA LockGoes ==
  ASSUME SubTypeOK, NEW t \in SubThreads, TryLock(t)
  PROVE  LET s == worker[t].s
         IN  /\ s \in Subs
             /\ \/ /\ sub[s].locked /\ sub' = sub
                   /\ \/ worker[t].pc = "lock" /\ Ahead(t, "pop")
                      \/ worker[t].pc = "relock" /\ Ahead(t, "post")
                \/ /\ ~ sub[s].locked /\ Becomes(s, sub[s].allowed, sub[s].processed, TRUE)
                   /\ \/ worker[t].pc = "lock" /\ Ahead(t, "wait")
                      \/ worker[t].pc = "relock" /\ Ahead(t, "loop")
<1>0. worker[t].pc = "lock" \/ worker[t].pc = "relock"
  BY DEF TryLock
<1>1. worker[t].s \in Subs
  BY <1>0 DEF SubTypeOK
<1>2. CASE sub[worker[t].s].locked
  <2>1. SubGoto(t, IF worker[t].pc = "lock" THEN "pop" ELSE "post") /\ sub' = sub
    BY <1>2 DEF TryLock
  <2>2. CASE worker[t].pc = "lock"
    <3>1. SubGoto(t, "pop")
      BY <2>1, <2>2 DEF SubGoto
    <3>2. Ahead(t, "pop")
      BY <3>1, GotoGoes DEF SubPcs
    <3> QED
      BY <1>1, <1>2, <2>1, <2>2, <3>2
  <2>3. CASE worker[t].pc = "relock"
    <3>0. (IF worker[t].pc = "lock" THEN "pop" ELSE "post") = "post"
      BY <2>3
    <3>1. SubGoto(t, "post")
      BY <2>1, <3>0 DEF SubGoto
    <3>2. Ahead(t, "post")
      BY <3>1, GotoGoes DEF SubPcs
    <3> QED
      BY <1>1, <1>2, <2>1, <2>3, <3>2
  <2> QED
    BY <1>0, <2>2, <2>3
<1>3. CASE ~ sub[worker[t].s].locked
  <2>1. /\ SubGoto(t, IF worker[t].pc = "lock" THEN "wait" ELSE "loop")
        /\ sub' = [sub EXCEPT ![worker[t].s].locked = TRUE]
    BY <1>3 DEF TryLock
  <2>2. Becomes(worker[t].s, sub[worker[t].s].allowed, sub[worker[t].s].processed, TRUE)
    BY <1>1, <2>1, LockedSet
  <2>3. CASE worker[t].pc = "lock"
    <3>1. SubGoto(t, "wait")
      BY <2>1, <2>3 DEF SubGoto
    <3>2. Ahead(t, "wait")
      BY <3>1, GotoGoes DEF SubPcs
    <3> QED
      BY <1>1, <1>3, <2>2, <2>3, <3>2
  <2>4. CASE worker[t].pc = "relock"
    <3>0. (IF worker[t].pc = "lock" THEN "wait" ELSE "loop") = "loop"
      BY <2>4
    <3>1. SubGoto(t, "loop")
      BY <2>1, <3>0 DEF SubGoto
    <3>2. Ahead(t, "loop")
      BY <3>1, GotoGoes DEF SubPcs
    <3> QED
      BY <1>1, <1>3, <2>2, <2>4, <3>2
  <2> QED
    BY <1>0, <2>3, <2>4
<1> QED
  BY <1>2, <1>3

LEMMA LoopGoes ==
  ASSUME SubTypeOK, NEW t \in SubThreads, Loop(t)
  PROVE  /\ worker[t].s \in Subs
         /\ \/ MoreToRun(worker[t].s) /\ Ahead(t, "take")
            \/ ~ MoreToRun(worker[t].s) /\ Ahead(t, "unlock")
<1>1. worker[t].s \in Subs
  BY DEF SubTypeOK, Loop
<1>2. CASE MoreToRun(worker[t].s)
  <2>1. SubGoto(t, "take")
    BY <1>2 DEF Loop
  <2> QED
    BY <1>1, <1>2, <2>1, GotoGoes DEF SubPcs
<1>3. CASE ~ MoreToRun(worker[t].s)
  <2>1. SubGoto(t, "unlock")
    BY <1>3 DEF Loop
  <2> QED
    BY <1>1, <1>3, <2>1, GotoGoes DEF SubPcs
<1> QED
  BY <1>2, <1>3

LEMMA AgainGoes ==
  ASSUME SubTypeOK, NEW t \in SubThreads, LookAgain(t)
  PROVE  /\ worker[t].s \in Subs
         /\ \/ MoreToRun(worker[t].s) /\ Ahead(t, "relock")
            \/ ~ MoreToRun(worker[t].s) /\ Ahead(t, "post")
<1>1. worker[t].s \in Subs
  BY DEF SubTypeOK, LookAgain
<1>2. CASE MoreToRun(worker[t].s)
  <2>1. SubGoto(t, "relock")
    BY <1>2 DEF LookAgain
  <2> QED
    BY <1>1, <1>2, <2>1, GotoGoes DEF SubPcs
<1>3. CASE ~ MoreToRun(worker[t].s)
  <2>1. SubGoto(t, "post")
    BY <1>3 DEF LookAgain
  <2> QED
    BY <1>1, <1>3, <2>1, GotoGoes DEF SubPcs
<1> QED
  BY <1>2, <1>3

LEMMA UnlockGoes ==
  ASSUME SubTypeOK, NEW t \in SubThreads, Unlock(t)
  PROVE  LET s == worker[t].s
         IN  s \in Subs /\ Ahead(t, "again") /\ Becomes(s, sub[s].allowed, sub[s].processed, FALSE)
<1>1. worker[t].s \in Subs
  BY DEF SubTypeOK, Unlock
<1>2. Ahead(t, "again")
  BY GotoGoes DEF Unlock, SubPcs
<1>3. sub' = [sub EXCEPT ![worker[t].s].locked = FALSE]
  BY DEF Unlock
<1> QED
  BY <1>1, <1>2, <1>3, LockedSet

(* A job that is run: its subclass has one more that was processed.        *)
LEMMA RunCounts ==
  ASSUME SubTypeOK, PlacesKept, NEW t \in SubThreads, RunJob(t)
  PROVE  LET s == worker[t].s
             j == worker[t].job
         IN  /\ s \in Subs /\ j \in SubNames /\ SubJobs[j] = s /\ subDone[j].ran = 0
             /\ Becomes(s, sub[s].allowed, sub[s].processed + 1, sub[s].locked)
             /\ subDone' \in [SubNames -> [put : 0..2, ran : 0..1]]
             /\ subDone'[j].ran = 1 /\ subDone'[j].put = subDone[j].put
             /\ \A k \in SubNames : k # j => subDone'[k] = subDone[k]
<1> DEFINE s == worker[t].s
           j == worker[t].job
<1>1. s \in Subs
  BY DEF SubTypeOK, RunJob
<1>2. j \in SubNames /\ SubJobs[j] = s /\ subDone[j].ran = 0
  <2>1. j \in SubNames /\ Runs(t, j)
    BY DEF PlacesKept, RunningRight, RunJob, Runs
  <2> QED
    BY <2>1 DEF PlacesKept, RunningRight, Waiting
<1>3. Becomes(s, sub[s].allowed, sub[s].processed + 1, sub[s].locked)
  <2>1. sub[s].processed \in Nat
    BY <1>1 DEF SubTypeOK
  <2>2. sub[s].processed + 1 \in Nat
    BY <2>1, SMT
  <2>3. sub' = [sub EXCEPT ![s].processed = sub[s].processed + 1]
    BY DEF RunJob
  <2> QED
    BY <1>1, <2>2, <2>3, ProcessedSet
<1>4. subDone' = [subDone EXCEPT ![j] = [subDone[j] EXCEPT !.ran = subDone[j].ran + 1]]
  BY DEF RunJob
<1>5. subDone[j] \in [put : 0..2, ran : 0..1] /\ subDone \in [SubNames -> [put : 0..2, ran : 0..1]]
  BY <1>2 DEF SubTypeOK
<1>6. [subDone[j] EXCEPT !.ran = subDone[j].ran + 1] = [put |-> subDone[j].put, ran |-> 1]
  BY <1>2, <1>5, SMT
<1>7. [put |-> subDone[j].put, ran |-> 1] \in [put : 0..2, ran : 0..1]
  BY <1>5, SMT
<1>8. subDone'[j] = [put |-> subDone[j].put, ran |-> 1]
  BY <1>2, <1>4, <1>5, <1>6
<1> QED
  BY <1>1, <1>2, <1>3, <1>4, <1>5, <1>6, <1>7, <1>8

(* The two steps of queueing a job.                                        *)
LEMMA PutDone ==
  ASSUME SubTypeOK, NEW j \in SubNames, NEW v \in 0..2, subDone' = [subDone EXCEPT ![j].put = v]
  PROVE  /\ subDone' \in [SubNames -> [put : 0..2, ran : 0..1]]
         /\ subDone'[j].put = v /\ subDone'[j].ran = subDone[j].ran
         /\ \A k \in SubNames : k # j => subDone'[k] = subDone[k]
<1>1. subDone[j] \in [put : 0..2, ran : 0..1] /\ subDone \in [SubNames -> [put : 0..2, ran : 0..1]]
  BY DEF SubTypeOK
<1>2. [subDone[j] EXCEPT !.put = v] = [put |-> v, ran |-> subDone[j].ran]
  BY <1>1, SMT
<1>3. [put |-> v, ran |-> subDone[j].ran] \in [put : 0..2, ran : 0..1]
  BY <1>1
<1>4. subDone' = [subDone EXCEPT ![j] = [subDone[j] EXCEPT !.put = v]]
  OBVIOUS
<1>5. subDone'[j] = [put |-> v, ran |-> subDone[j].ran]
  BY <1>1, <1>2, <1>4
<1> QED
  BY <1>1, <1>2, <1>3, <1>4, <1>5

LEMMA PutQueue ==
  ASSUME SubTypeOK, NEW j \in SubNames, PutJob(j)
  PROVE  LET s == SubJobs[j]
         IN  /\ s \in Subs /\ subQ' \in [Subs -> Seq(SubNames)] /\ subQ'[s] = Append(subQ[s], j)
             /\ \A r \in Subs : r # s => subQ'[r] = subQ[r]
<1>1. SubJobs[j] \in Subs
  BY DEF Subs, SubNames
<1>2. subQ \in [Subs -> Seq(SubNames)] /\ subQ[SubJobs[j]] \in Seq(SubNames)
  BY <1>1 DEF SubTypeOK
<1>3. Append(subQ[SubJobs[j]], j) \in Seq(SubNames)
  BY <1>2, SMT
<1>4. subQ' = [subQ EXCEPT ![SubJobs[j]] = Append(subQ[SubJobs[j]], j)]
  BY DEF PutJob
<1> QED
  BY <1>1, <1>2, <1>3, <1>4

-----------------------------------------------------------------------------
(* Types *)

(* A thread that goes on keeps a subclass unless it goes back to the queue. *)
LEMMA ProceedsTyped ==
  ASSUME SubTypeOK, NEW t \in SubThreads, NEW pc, NEW s, NEW took, NEW j,
         Proceeds(t, pc, s, took, j), pc # "pop" => s \in Subs
  PROVE  /\ worker' \in [SubThreads -> WorkerStates]
         /\ \A u \in SubThreads : worker'[u].pc # "pop" => worker'[u].s \in Subs
<1>1. worker' \in [SubThreads -> WorkerStates]
  BY DEF Proceeds
<1>2. ASSUME NEW u \in SubThreads, worker'[u].pc # "pop" PROVE worker'[u].s \in Subs
  <2>1. CASE u = t
    BY <1>2, <2>1, ThreadFields
  <2>2. CASE u # t
    BY <1>2, <2>2 DEF Proceeds, SubTypeOK
  <2> QED
    BY <2>1, <2>2
<1> QED
  BY <1>1, <1>2

(* The steps keep the types.                                               *)
LEMMA SubTypeStep ==
  ASSUME SubInv, SubNext
  PROVE  SubTypeOK'
<1> USE DEF SubInv
<1>1. ASSUME NEW j \in SubNames, PutJob(j) PROVE SubTypeOK'
  <2>1. subDone' = [subDone EXCEPT ![j].put = 1]
    BY <1>1 DEF PutJob
  <2>2. subDone' \in [SubNames -> [put : 0..2, ran : 0..1]]
    <3>1. 1 \in 0..2
      BY SMT
    <3> QED
      BY <2>1, <3>1, PutDone
  <2>3. subQ' \in [Subs -> Seq(SubNames)]
    BY <1>1, PutQueue
  <2> QED
    BY <1>1, <2>2, <2>3 DEF PutJob, SubTypeOK
<1>2. ASSUME NEW j \in SubNames, PutNumber(j) PROVE SubTypeOK'
  <2>1. subDone' = [subDone EXCEPT ![j].put = 2]
    BY <1>2 DEF PutNumber
  <2>2. subDone' \in [SubNames -> [put : 0..2, ran : 0..1]]
    <3>1. 2 \in 0..2
      BY SMT
    <3> QED
      BY <2>1, <3>1, PutDone
  <2>3. SubJobs[j] \in Subs /\ jobQ \in Seq(Subs)
    BY DEF Subs, SubNames, SubTypeOK
  <2>4. jobQ' \in Seq(Subs)
    BY <1>2, <2>3, SMT DEF PutNumber
  <2> QED
    BY <1>2, <2>2, <2>4 DEF PutNumber, SubTypeOK
<1>3. ASSUME NEW t \in SubThreads, PopNumber(t) PROVE SubTypeOK'
  <2>1. /\ Head(jobQ) \in Subs /\ jobQ' \in Seq(Subs)
        /\ Proceeds(t, "allow", Head(jobQ), 0, 0)
    BY <1>3, PopGoes
  <2>2. /\ worker' \in [SubThreads -> WorkerStates]
        /\ \A u \in SubThreads : worker'[u].pc # "pop" => worker'[u].s \in Subs
    BY <2>1, ProceedsTyped
  <2> QED
    BY <1>3, <2>1, <2>2 DEF PopNumber, SubTypeOK, WorkerStates
<1>4. ASSUME NEW t \in SubThreads, Allow(t) PROVE SubTypeOK'
  <2>1. worker[t].s \in Subs /\ Ahead(t, "lock")
    BY <1>4, AllowGoes
  <2>2. /\ worker' \in [SubThreads -> WorkerStates]
        /\ \A u \in SubThreads : worker'[u].pc # "pop" => worker'[u].s \in Subs
    BY <2>1, ProceedsTyped DEF Ahead
  <2>3. sub' \in [Subs -> [allowed : Nat, processed : Nat, locked : BOOLEAN]]
    BY <1>4, AllowGoes DEF Becomes
  <2> QED
    BY <1>4, <2>2, <2>3 DEF Allow, SubTypeOK, WorkerStates
<1>5. ASSUME NEW t \in SubThreads, TryLock(t) PROVE SubTypeOK'
  <2>1. PICK pc : Ahead(t, pc) /\ worker[t].s \in Subs
    BY <1>5, LockGoes
  <2>2. /\ worker' \in [SubThreads -> WorkerStates]
        /\ \A u \in SubThreads : worker'[u].pc # "pop" => worker'[u].s \in Subs
    BY <2>1, ProceedsTyped DEF Ahead
  <2>3. sub' \in [Subs -> [allowed : Nat, processed : Nat, locked : BOOLEAN]]
    BY <1>5, LockGoes DEF Becomes, SubTypeOK
  <2> QED
    BY <1>5, <2>2, <2>3 DEF TryLock, SubTypeOK, WorkerStates
<1>6. ASSUME NEW t \in SubThreads, SemWait(t) PROVE SubTypeOK'
  <2>1. PICK pc : Proceeds(t, pc, worker[t].s, worker[t].took + 1, worker[t].job)
    BY <1>6, WaitGoes
  <2>2. worker[t].s \in Subs
    BY <1>6 DEF SemWait, SubTypeOK
  <2>3. /\ worker' \in [SubThreads -> WorkerStates]
        /\ \A u \in SubThreads : worker'[u].pc # "pop" => worker'[u].s \in Subs
    BY <2>1, <2>2, ProceedsTyped
  <2>4. tokens' \in Nat
    BY <1>6, SMT DEF SemWait, SubTypeOK
  <2> QED
    BY <1>6, <2>3, <2>4 DEF SemWait, SubTypeOK, WorkerStates
<1>7. ASSUME NEW t \in SubThreads, Loop(t) PROVE SubTypeOK'
  <2>1. PICK pc : Ahead(t, pc) /\ worker[t].s \in Subs
    BY <1>7, LoopGoes
  <2>2. /\ worker' \in [SubThreads -> WorkerStates]
        /\ \A u \in SubThreads : worker'[u].pc # "pop" => worker'[u].s \in Subs
    BY <2>1, ProceedsTyped DEF Ahead
  <2> QED
    BY <1>7, <2>2 DEF Loop, SubTypeOK, WorkerStates
<1>8. ASSUME NEW t \in SubThreads, TakeJob(t) PROVE SubTypeOK'
  <2>1. /\ worker[t].s \in Subs /\ subQ' \in [Subs -> Seq(SubNames)]
        /\ Proceeds(t, "run", worker[t].s, worker[t].took, Head(subQ[worker[t].s]))
    BY <1>8, TakeGoes
  <2>2. /\ worker' \in [SubThreads -> WorkerStates]
        /\ \A u \in SubThreads : worker'[u].pc # "pop" => worker'[u].s \in Subs
    BY <2>1, ProceedsTyped
  <2> QED
    BY <1>8, <2>1, <2>2 DEF TakeJob, SubTypeOK, WorkerStates
<1>9. ASSUME NEW t \in SubThreads, RunJob(t) PROVE SubTypeOK'
  <2>1. /\ worker[t].s \in Subs /\ subDone' \in [SubNames -> [put : 0..2, ran : 0..1]]
        /\ sub' \in [Subs -> [allowed : Nat, processed : Nat, locked : BOOLEAN]]
    BY <1>9, RunCounts DEF Becomes
  <2>2. /\ worker' \in [SubThreads -> WorkerStates]
        /\ \A u \in SubThreads : worker'[u].pc # "pop" => worker'[u].s \in Subs
    BY <1>9, <2>1, RunGoes, ProceedsTyped
  <2> QED
    BY <1>9, <2>1, <2>2 DEF RunJob, SubTypeOK, WorkerStates
<1>10. ASSUME NEW t \in SubThreads, Unlock(t) PROVE SubTypeOK'
  <2>1. /\ worker[t].s \in Subs /\ Ahead(t, "again")
        /\ sub' \in [Subs -> [allowed : Nat, processed : Nat, locked : BOOLEAN]]
    BY <1>10, UnlockGoes DEF Becomes
  <2>2. /\ worker' \in [SubThreads -> WorkerStates]
        /\ \A u \in SubThreads : worker'[u].pc # "pop" => worker'[u].s \in Subs
    BY <2>1, ProceedsTyped DEF Ahead
  <2> QED
    BY <1>10, <2>1, <2>2 DEF Unlock, SubTypeOK, WorkerStates
<1>11. ASSUME NEW t \in SubThreads, LookAgain(t) PROVE SubTypeOK'
  <2>1. PICK pc : Ahead(t, pc) /\ worker[t].s \in Subs
    BY <1>11, AgainGoes
  <2>2. /\ worker' \in [SubThreads -> WorkerStates]
        /\ \A u \in SubThreads : worker'[u].pc # "pop" => worker'[u].s \in Subs
    BY <2>1, ProceedsTyped DEF Ahead
  <2> QED
    BY <1>11, <2>2 DEF LookAgain, SubTypeOK, WorkerStates
<1>12. ASSUME NEW t \in SubThreads, SemPostBack(t) PROVE SubTypeOK'
  <2>1. worker[t].s \in Subs
    BY <1>12 DEF SemPostBack, SubTypeOK
  <2>2. PICK pc, s, took, j : Proceeds(t, pc, s, took, j) /\ (pc # "pop" => s \in Subs)
    BY <1>12, <2>1, PostGoes
  <2>3. /\ worker' \in [SubThreads -> WorkerStates]
        /\ \A u \in SubThreads : worker'[u].pc # "pop" => worker'[u].s \in Subs
    BY <2>2, ProceedsTyped
  <2>4. tokens' \in Nat
    BY <1>12, SMT DEF SemPostBack, SubTypeOK
  <2> QED
    BY <1>12, <2>3, <2>4 DEF SemPostBack, SubTypeOK, WorkerStates
<1> QED
  BY <1>1, <1>2, <1>3, <1>4, <1>5, <1>6, <1>7, <1>8, <1>9, <1>10, <1>11, <1>12 DEF SubNext, SubNames

-----------------------------------------------------------------------------
(* Tokens *)

(* A subclass wants at least one token, and at most all.                   *)
LEMMA WantedRange ==
  ASSUME NEW s
  PROVE  Wanted(s) \in 1..Tokens
BY SubAssumption, SMT DEF Wanted

(* The tokens the threads have can be counted.                             *)
LEMMA TakenFinite ==
  IsFiniteSet(TokensTaken)
<1>1. IsFiniteSet(SubThreads) /\ IsFiniteSet(1..Tokens)
  BY SubAssumption, FS_Interval, SMT
<1>2. IsFiniteSet(SubThreads \X (1..Tokens))
  BY <1>1, FS_Product
<1> QED
  BY <1>2, FS_Subset DEF TokensTaken

(* What the threads may have after a step of one of them.                  *)
LEMMA TookAfter ==
  ASSUME TokensKept, NEW t \in SubThreads, NEW pc, NEW s, NEW took, NEW j,
         Proceeds(t, pc, s, took, j), TookAt(pc, s, took)
  PROVE  \A u \in SubThreads : TookRight(u)'
<1>1. ASSUME NEW u \in SubThreads, u = t PROVE TookRight(u)'
  <2>1. worker'[u].pc = pc /\ worker'[u].s = s /\ worker'[u].took = took
    BY <1>1, ThreadFields
  <2> QED
    BY <2>1 DEF TookRight
<1>2. ASSUME NEW u \in SubThreads, u # t PROVE TookRight(u)'
  <2>1. worker'[u] = worker[u]
    BY <1>2 DEF Proceeds
  <2> QED
    BY <2>1 DEF TookRight, TokensKept
<1> QED
  BY <1>1, <1>2

(* A thread that goes on with the tokens it has.                           *)
LEMMA TokensAhead ==
  ASSUME TokensKept, tokens' = tokens, NEW t \in SubThreads, NEW pc, NEW s, NEW j,
         Proceeds(t, pc, s, worker[t].took, j), TookAt(pc, s, worker[t].took)
  PROVE  TokensKept'
<1>1. \A u \in SubThreads : TookRight(u)'
  BY TookAfter
<1>2. ASSUME NEW u \in SubThreads PROVE worker'[u].took = worker[u].took
  <2>1. CASE u = t
    BY <2>1, ThreadFields, SMT
  <2>2. CASE u # t
    BY <2>2 DEF Proceeds
  <2> QED
    BY <2>1, <2>2
<1>3. TokensTaken' = TokensTaken
  <2>1. ASSUME NEW p \in SubThreads \X (1..Tokens) PROVE worker'[p[1]].took = worker[p[1]].took
    BY <1>2
  <2> QED
    BY <2>1 DEF TokensTaken
<1> QED
  BY <1>1, <1>3 DEF TokensKept

(* The steps keep the count of tokens.                                     *)
LEMMA TokensStep ==
  ASSUME SubInv, SubNext
  PROVE  TokensKept'
<1> USE DEF SubInv
<1>0. ASSUME NEW t \in SubThreads PROVE TookAt(worker[t].pc, worker[t].s, worker[t].took) /\ worker[t].took \in Nat
  BY DEF TokensKept, TookRight, SubTypeOK
<1>1. ASSUME worker' = worker, tokens' = tokens PROVE TokensKept'
  BY <1>1 DEF TokensKept, TokensTaken, TookRight
<1>3. ASSUME NEW t \in SubThreads, PopNumber(t) PROVE TokensKept'
  <2>1. worker[t].took = 0
    BY <1>0, <1>3 DEF TookAt, PopNumber
  <2>2. Proceeds(t, "allow", Head(jobQ), worker[t].took, 0)
    BY <1>3, <2>1, PopGoes
  <2>3. TookAt("allow", Head(jobQ), worker[t].took)
    BY <2>1 DEF TookAt
  <2> QED
    BY <1>3, <2>2, <2>3, TokensAhead DEF PopNumber
<1>4. ASSUME NEW t \in SubThreads, Allow(t) PROVE TokensKept'
  <2>1. TookAt("lock", worker[t].s, worker[t].took)
    BY <1>0, <1>4 DEF TookAt, Allow
  <2> QED
    BY <1>4, <2>1, AllowGoes, TokensAhead DEF Ahead, Allow
<1>5. ASSUME NEW t \in SubThreads, TryLock(t) PROVE TokensKept'
  <2>1. ASSUME worker[t].pc = "lock" PROVE worker[t].took = 0 /\ 0 < Wanted(worker[t].s)
    <3>1. worker[t].took = 0
      BY <1>0, <2>1 DEF TookAt
    <3> QED
      BY <3>1, WantedRange, SMT
  <2>2. ASSUME worker[t].pc = "relock"
        PROVE  worker[t].took = Wanted(worker[t].s) /\ worker[t].took \in 1..Wanted(worker[t].s)
    <3>1. worker[t].took = Wanted(worker[t].s)
      BY <1>0, <2>2 DEF TookAt
    <3> QED
      BY <3>1, WantedRange, SMT
  <2>3. PICK pc : Ahead(t, pc) /\ TookAt(pc, worker[t].s, worker[t].took)
    <3>1. CASE worker[t].pc = "lock"
      <4>1. TookAt("pop", worker[t].s, worker[t].took) /\ TookAt("wait", worker[t].s, worker[t].took)
        BY <2>1, <3>1 DEF TookAt
      <4>2. Ahead(t, "pop") \/ Ahead(t, "wait")
        BY <1>5, <3>1, LockGoes
      <4> QED
        BY <4>1, <4>2
    <3>2. CASE worker[t].pc = "relock"
      <4>1. TookAt("post", worker[t].s, worker[t].took) /\ TookAt("loop", worker[t].s, worker[t].took)
        BY <2>2, <3>2 DEF TookAt
      <4>2. Ahead(t, "post") \/ Ahead(t, "loop")
        BY <1>5, <3>2, LockGoes
      <4> QED
        BY <4>1, <4>2
    <3> QED
      BY <1>5, <3>1, <3>2 DEF TryLock
  <2> QED
    BY <1>5, <2>3, TokensAhead DEF Ahead, TryLock
<1>6. ASSUME NEW t \in SubThreads, SemWait(t) PROVE TokensKept'
  <2> DEFINE n == worker[t].took + 1
  <2>1. PICK pc : /\ pc = IF n = Wanted(worker[t].s) THEN "loop" ELSE "wait"
                  /\ Proceeds(t, pc, worker[t].s, n, worker[t].job)
    BY <1>6, WaitGoes
  <2>2. worker[t].took \in Nat /\ worker[t].took < Wanted(worker[t].s)
    BY <1>0, <1>6 DEF TookAt, SemWait
  <2>3. n \in 1..Tokens /\ n <= Wanted(worker[t].s)
    <3>1. Wanted(worker[t].s) \in 1..Tokens
      BY WantedRange
    <3> QED
      BY <2>2, <3>1, SubAssumption, SMT
  <2>4. TookAt(pc, worker[t].s, n)
    <3>1. CASE n = Wanted(worker[t].s)
      <4>1. pc = "loop"
        BY <2>1, <3>1
      <4> QED
        BY <3>1, <4>1 DEF TookAt
    <3>2. CASE n # Wanted(worker[t].s)
      <4>1. pc = "wait"
        BY <2>1, <3>2
      <4>2. n < Wanted(worker[t].s)
        BY <2>3, <3>2, WantedRange, SMT
      <4> QED
        BY <4>1, <4>2 DEF TookAt
    <3> QED
      BY <3>1, <3>2
  <2>5. \A u \in SubThreads : TookRight(u)'
    BY <2>1, <2>4, TookAfter
  <2>6. <<t, n>> \notin TokensTaken
    BY <2>2, SMT DEF TokensTaken
  <2>7. TokensTaken' = TokensTaken \cup {<<t, n>>}
    <3> HIDE DEF n
    <3>1. ASSUME NEW u \in SubThreads, NEW k \in 1..Tokens
          PROVE  <<u, k>> \in TokensTaken' <=> <<u, k>> \in TokensTaken \cup {<<t, n>>}
      <4>1. CASE u = t
        <5>1. worker'[u].took = n
          BY <2>1, <4>1, ThreadFields
        <5>2. k <= n <=> k <= worker[t].took \/ k = n
          BY <2>2, SMT DEF n
        <5> QED
          BY <4>1, <5>1, <5>2 DEF TokensTaken
      <4>2. CASE u # t
        BY <2>1, <4>2 DEF TokensTaken, Proceeds
      <4> QED
        BY <4>1, <4>2
    <3>2. <<t, n>> \in SubThreads \X (1..Tokens)
      BY <2>3 DEF n
    <3>3. ASSUME NEW p \in SubThreads \X (1..Tokens) PROVE p \in TokensTaken' <=> p \in TokensTaken \cup {<<t, n>>}
      <4>1. p = <<p[1], p[2]>> /\ p[1] \in SubThreads /\ p[2] \in 1..Tokens
        BY SMT
      <4> QED
        BY <4>1, <3>1
    <3>4. TokensTaken \subseteq SubThreads \X (1..Tokens) /\ TokensTaken' \subseteq SubThreads \X (1..Tokens)
      BY DEF TokensTaken
    <3> QED
      BY <3>2, <3>3, <3>4
  <2>8. Cardinality(TokensTaken') = Cardinality(TokensTaken) + 1
    BY <2>6, <2>7, TakenFinite, FS_AddElement
  <2>9. Cardinality(TokensTaken) \in Nat
    BY TakenFinite, FS_CardinalityType
  <2>10. (tokens + Cardinality(TokensTaken) = Tokens)'
    <3>1. tokens + Cardinality(TokensTaken) = Tokens /\ tokens \in Nat /\ tokens' = tokens - 1
      BY <1>6 DEF TokensKept, SubTypeOK, SemWait
    <3> QED
      BY <2>8, <2>9, <3>1, SubAssumption, SMT
  <2> QED
    BY <2>5, <2>10 DEF TokensKept
<1>7. ASSUME NEW t \in SubThreads, Loop(t) PROVE TokensKept'
  <2>1. TookAt("take", worker[t].s, worker[t].took) /\ TookAt("unlock", worker[t].s, worker[t].took)
    BY <1>0, <1>7 DEF TookAt, Loop
  <2> QED
    BY <1>7, <2>1, LoopGoes, TokensAhead DEF Ahead, Loop
<1>8. ASSUME NEW t \in SubThreads, TakeJob(t) PROVE TokensKept'
  <2>1. TookAt("run", worker[t].s, worker[t].took)
    BY <1>0, <1>8 DEF TookAt, TakeJob
  <2> QED
    BY <1>8, <2>1, TakeGoes, TokensAhead DEF TakeJob
<1>9. ASSUME NEW t \in SubThreads, RunJob(t) PROVE TokensKept'
  <2>1. TookAt("loop", worker[t].s, worker[t].took)
    BY <1>0, <1>9 DEF TookAt, RunJob
  <2> QED
    BY <1>9, <2>1, RunGoes, TokensAhead DEF RunJob
<1>10. ASSUME NEW t \in SubThreads, Unlock(t) PROVE TokensKept'
  <2>1. TookAt("again", worker[t].s, worker[t].took)
    BY <1>0, <1>10 DEF TookAt, Unlock
  <2> QED
    BY <1>10, <2>1, UnlockGoes, TokensAhead DEF Ahead, Unlock
<1>11. ASSUME NEW t \in SubThreads, LookAgain(t) PROVE TokensKept'
  <2>1. worker[t].took = Wanted(worker[t].s)
    BY <1>0, <1>11 DEF TookAt, LookAgain
  <2>2. worker[t].took \in 1..Wanted(worker[t].s)
    BY <2>1, WantedRange, SMT
  <2>3. TookAt("relock", worker[t].s, worker[t].took) /\ TookAt("post", worker[t].s, worker[t].took)
    BY <2>1, <2>2 DEF TookAt
  <2> QED
    BY <1>11, <2>3, AgainGoes, TokensAhead DEF Ahead, LookAgain
<1>12. ASSUME NEW t \in SubThreads, SemPostBack(t) PROVE TokensKept'
  <2> DEFINE n == worker[t].took
  <2>1. n \in Nat /\ n >= 1 /\ n <= Wanted(worker[t].s)
    BY <1>0, <1>12, SMT DEF TookAt, SemPostBack, Wanted
  <2>2. PICK pc, s, j : Proceeds(t, pc, s, n - 1, j) /\ TookAt(pc, s, n - 1)
    <3>1. CASE n = 1
      <4>1. n - 1 = 0
        BY <3>1, SMT
      <4>2. Proceeds(t, "pop", 0, n - 1, 0)
        <5>1. ~ (n > 1)
          BY <3>1, SMT
        <5> QED
          BY <1>12, <4>1, <5>1, PostGoes
      <4>3. TookAt("pop", 0, n - 1)
        BY <4>1 DEF TookAt
      <4> QED
        BY <4>2, <4>3
    <3>2. CASE n # 1
      <4>1. Proceeds(t, "post", worker[t].s, n - 1, worker[t].job)
        BY <1>12, <3>2, PostGoes
      <4>2. n - 1 \in 1..Wanted(worker[t].s)
        BY <2>1, <3>2, WantedRange, SMT
      <4>3. TookAt("post", worker[t].s, n - 1)
        BY <4>2 DEF TookAt
      <4> QED
        BY <4>1, <4>3
    <3> QED
      BY <3>1, <3>2
  <2>3. \A u \in SubThreads : TookRight(u)'
    BY <2>2, TookAfter
  <2>4. <<t, n>> \in TokensTaken
    <3>1. n \in 1..Tokens /\ n <= n
      <4>1. Wanted(worker[t].s) \in 1..Tokens
        BY WantedRange
      <4> QED
        BY <2>1, <4>1, SubAssumption, SMT
    <3> QED
      BY <3>1 DEF TokensTaken
  <2>5. TokensTaken' = TokensTaken \ {<<t, n>>}
    <3> HIDE DEF n
    <3>1. ASSUME NEW u \in SubThreads, NEW k \in 1..Tokens
          PROVE  <<u, k>> \in TokensTaken' <=> <<u, k>> \in TokensTaken \ {<<t, n>>}
      <4>1. CASE u = t
        <5>1. worker'[u].took = n - 1
          BY <2>2, <4>1, ThreadFields
        <5>2. k <= n - 1 <=> k <= n /\ k # n
          BY <2>1, SMT
        <5> QED
          BY <4>1, <5>1, <5>2 DEF TokensTaken, n
      <4>2. CASE u # t
        BY <2>2, <4>2 DEF TokensTaken, Proceeds
      <4> QED
        BY <4>1, <4>2
    <3>3. ASSUME NEW p \in SubThreads \X (1..Tokens) PROVE p \in TokensTaken' <=> p \in TokensTaken \ {<<t, n>>}
      <4>1. p = <<p[1], p[2]>> /\ p[1] \in SubThreads /\ p[2] \in 1..Tokens
        BY SMT
      <4> QED
        BY <4>1, <3>1
    <3>4. TokensTaken \subseteq SubThreads \X (1..Tokens) /\ TokensTaken' \subseteq SubThreads \X (1..Tokens)
      BY DEF TokensTaken
    <3> QED
      BY <3>3, <3>4
  <2>6. Cardinality(TokensTaken') = Cardinality(TokensTaken) - 1
    BY <2>4, <2>5, TakenFinite, FS_RemoveElement
  <2>7. Cardinality(TokensTaken) \in Nat
    BY TakenFinite, FS_CardinalityType
  <2>8. (tokens + Cardinality(TokensTaken) = Tokens)'
    <3>1. tokens + Cardinality(TokensTaken) = Tokens /\ tokens \in Nat /\ tokens' = tokens + 1
      BY <1>12 DEF TokensKept, SubTypeOK, SemPostBack
    <3> QED
      BY <2>6, <2>7, <3>1, SubAssumption, SMT
  <2> QED
    BY <2>3, <2>8 DEF TokensKept
<1>13. ASSUME NEW j \in DOMAIN SubJobs, PutJob(j) \/ PutNumber(j) PROVE TokensKept'
  BY <1>1, <1>13 DEF PutJob, PutNumber
<1> QED
  BY <1>3, <1>4, <1>5, <1>6, <1>7, <1>8, <1>9, <1>10, <1>11, <1>12, <1>13 DEF SubNext

-----------------------------------------------------------------------------
(* Locks, and who looks after a subclass *)

(* Who is inside, and who cares, after a step of a thread.                 *)
LEMMA InsideAfter ==
  ASSUME NEW t \in SubThreads, NEW pc, NEW s, NEW took, NEW j, Proceeds(t, pc, s, took, j), NEW r
  PROVE  /\ Inside(t, r)' <=> pc \in InsidePcs /\ s = r
         /\ Cares(t, r)' <=> pc \in CaringPcs /\ s = r
         /\ \A u \in SubThreads : u # t => (Inside(u, r)' <=> Inside(u, r)) /\ (Cares(u, r)' <=> Cares(u, r))
<1>1. worker'[t].pc = pc /\ worker'[t].s = s
  BY ThreadFields
<1>2. \A u \in SubThreads : u # t => worker'[u] = worker[u]
  BY DEF Proceeds
<1> QED
  BY <1>1, <1>2 DEF Inside, Cares

(* The same for a thread that stays with its subclass.                     *)
LEMMA InsideAhead ==
  ASSUME NEW t \in SubThreads, NEW pc, Ahead(t, pc), NEW r
  PROVE  /\ Inside(t, r)' <=> pc \in InsidePcs /\ worker[t].s = r
         /\ Cares(t, r)' <=> pc \in CaringPcs /\ worker[t].s = r
         /\ \A u \in SubThreads : u # t => (Inside(u, r)' <=> Inside(u, r)) /\ (Cares(u, r)' <=> Cares(u, r))
<1>1. worker'[t].pc = pc /\ worker'[t].s = worker[t].s
  BY ThreadFields DEF Ahead
<1>2. \A u \in SubThreads : u # t => worker'[u] = worker[u]
  BY DEF Ahead, Proceeds
<1> QED
  BY <1>1, <1>2 DEF Inside, Cares

(* A step by which nobody enters or leaves.                                *)
LEMMA LocksFrame ==
  ASSUME LocksKept, \A r \in Subs : sub'[r].locked <=> sub[r].locked,
         \A u \in SubThreads, r \in Subs : Inside(u, r)' <=> Inside(u, r)
  PROVE  LocksKept'
BY DEF LocksKept

(* A thread that goes on inside, or outside.                               *)
LEMMA LocksAhead ==
  ASSUME LocksKept, \A r \in Subs : sub'[r].locked <=> sub[r].locked, NEW t \in SubThreads,
         NEW pc, NEW s, NEW took, NEW j, Proceeds(t, pc, s, took, j),
         \/ pc \notin InsidePcs /\ worker[t].pc \notin InsidePcs
         \/ pc \in InsidePcs /\ worker[t].pc \in InsidePcs /\ s = worker[t].s
  PROVE  LocksKept'
<1>1. ASSUME NEW u \in SubThreads, NEW r \in Subs PROVE Inside(u, r)' <=> Inside(u, r)
  <2>1. Inside(t, r)' <=> pc \in InsidePcs /\ s = r
    BY InsideAfter
  <2>2. Inside(t, r)' <=> Inside(t, r)
    BY <2>1 DEF Inside
  <2> QED
    BY <2>2, InsideAfter
<1> QED
  BY <1>1, LocksFrame

(* The subclasses after a change of one.                                   *)
LEMMA SubFields ==
  ASSUME NEW s \in Subs, NEW a, NEW b, NEW c, Becomes(s, a, b, c)
  PROVE  /\ sub'[s].allowed = a /\ sub'[s].processed = b /\ sub'[s].locked = c
         /\ \A r \in Subs : r # s => sub'[r] = sub[r]
BY SMT DEF Becomes

(* A change that leaves the lock.                                          *)
LEMMA LockLeft ==
  ASSUME NEW s \in Subs, NEW a, NEW b, Becomes(s, a, b, sub[s].locked)
  PROVE  \A r \in Subs : sub'[r].locked <=> sub[r].locked
<1>1. sub'[s].locked = sub[s].locked /\ \A r \in Subs : r # s => sub'[r] = sub[r]
  BY SubFields
<1>2. ASSUME NEW r \in Subs PROVE sub'[r].locked = sub[r].locked
  <2>1. CASE r = s
    BY <1>1, <2>1
  <2>2. CASE r # s
    BY <1>1, <2>2
  <2> QED
    BY <2>1, <2>2
<1> QED
  BY <1>2

(* The steps keep the locks right.                                         *)
LEMMA LocksStep ==
  ASSUME SubInv, SubNext
  PROVE  LocksKept'
<1> USE DEF SubInv
<1>1. ASSUME NEW j \in DOMAIN SubJobs, PutJob(j) \/ PutNumber(j) PROVE LocksKept'
  <2>1. worker' = worker /\ sub' = sub
    BY <1>1 DEF PutJob, PutNumber
  <2> QED
    BY <2>1, LocksFrame DEF Inside
<1>3. ASSUME NEW t \in SubThreads, PopNumber(t) PROVE LocksKept'
  <2>1. Proceeds(t, "allow", Head(jobQ), 0, 0) /\ worker[t].pc = "pop" /\ sub' = sub
    BY <1>3, PopGoes DEF PopNumber
  <2> QED
    BY <2>1, LocksAhead DEF InsidePcs
<1>4. ASSUME NEW t \in SubThreads, Allow(t) PROVE LocksKept'
  <2>1. worker[t].s \in Subs /\ Ahead(t, "lock") /\ worker[t].pc = "allow"
    BY <1>4, AllowGoes DEF Allow
  <2>2. \A r \in Subs : sub'[r].locked <=> sub[r].locked
    BY <1>4, <2>1, AllowGoes, LockLeft
  <2> QED
    BY <2>1, <2>2, LocksAhead DEF InsidePcs, Ahead
<1>5. ASSUME NEW t \in SubThreads, TryLock(t) PROVE LocksKept'
  <2> DEFINE s == worker[t].s
  <2>0. s \in Subs /\ worker[t].pc \notin InsidePcs
    BY <1>5, LockGoes DEF TryLock, InsidePcs
  <2>1. CASE sub[s].locked
    <3>1. sub' = sub /\ (Ahead(t, "pop") \/ Ahead(t, "post"))
      BY <1>5, <2>1, LockGoes
    <3> QED
      BY <2>0, <3>1, LocksAhead DEF InsidePcs, Ahead
  <2>2. CASE ~ sub[s].locked
    <3>1. PICK pc \in {"wait", "loop"} : Ahead(t, pc)
      BY <1>5, <2>2, LockGoes
    <3>2. Becomes(s, sub[s].allowed, sub[s].processed, TRUE)
      BY <1>5, <2>2, LockGoes
    <3>3. sub'[s].locked = TRUE /\ \A r \in Subs : r # s => sub'[r] = sub[r]
      <4> HIDE DEF s
      <4> QED
        BY <2>0, <3>2, SubFields
    <3>4. pc \in InsidePcs
      BY DEF InsidePcs
    <3>5. ASSUME NEW r \in Subs
          PROVE  /\ Inside(t, r)' <=> r = s
                 /\ \A u \in SubThreads : u # t => (Inside(u, r)' <=> Inside(u, r))
      <4>1. Inside(t, r)' <=> pc \in InsidePcs /\ worker[t].s = r
        BY <3>1, InsideAhead
      <4>2. \A u \in SubThreads : u # t => (Inside(u, r)' <=> Inside(u, r))
        BY <3>1, InsideAhead
      <4> QED
        BY <3>4, <4>1, <4>2
    <3>6. \A u \in SubThreads : ~ Inside(u, s)
      BY <2>0, <2>2 DEF LocksKept
    <3>7. ASSUME NEW r \in Subs
          PROVE  /\ \A u, v \in SubThreads : Inside(u, r)' /\ Inside(v, r)' => u = v
                 /\ sub'[r].locked <=> \E u \in SubThreads : Inside(u, r)'
      <4>1. CASE r = s
        BY <3>3, <3>5, <3>6, <4>1
      <4>2. CASE r # s
        <5>1. ~ Inside(t, r) /\ ~ Inside(t, r)'
          BY <2>0, <3>5, <4>2 DEF Inside
        <5>2. \A u \in SubThreads : Inside(u, r)' <=> Inside(u, r)
          BY <3>5, <5>1
        <5>3. sub'[r] = sub[r]
          BY <3>3, <4>2
        <5> QED
          BY <5>2, <5>3 DEF LocksKept
      <4> QED
        BY <4>1, <4>2
    <3> QED
      BY <3>7 DEF LocksKept
  <2> QED
    BY <2>1, <2>2
<1>6. ASSUME NEW t \in SubThreads, SemWait(t) PROVE LocksKept'
  <2>1. PICK pc \in {"loop", "wait"} : Proceeds(t, pc, worker[t].s, worker[t].took + 1, worker[t].job)
    BY <1>6, WaitGoes
  <2>2. worker[t].pc = "wait" /\ sub' = sub
    BY <1>6 DEF SemWait
  <2> QED
    BY <2>1, <2>2, LocksAhead DEF InsidePcs
<1>7. ASSUME NEW t \in SubThreads, Loop(t) PROVE LocksKept'
  <2>1. PICK pc \in {"take", "unlock"} : Ahead(t, pc)
    BY <1>7, LoopGoes
  <2>2. worker[t].pc = "loop" /\ sub' = sub
    BY <1>7 DEF Loop
  <2> QED
    BY <2>1, <2>2, LocksAhead DEF InsidePcs, Ahead
<1>8. ASSUME NEW t \in SubThreads, TakeJob(t) PROVE LocksKept'
  <2>1. Proceeds(t, "run", worker[t].s, worker[t].took, Head(subQ[worker[t].s]))
    BY <1>8, TakeGoes
  <2>2. worker[t].pc = "take" /\ sub' = sub
    BY <1>8 DEF TakeJob
  <2> QED
    BY <2>1, <2>2, LocksAhead DEF InsidePcs
<1>9. ASSUME NEW t \in SubThreads, RunJob(t) PROVE LocksKept'
  <2>1. Proceeds(t, "loop", worker[t].s, worker[t].took, 0) /\ worker[t].pc = "run"
    BY <1>9, RunGoes DEF RunJob
  <2>2. \A r \in Subs : sub'[r].locked <=> sub[r].locked
    BY <1>9, RunCounts, LockLeft
  <2> QED
    BY <2>1, <2>2, LocksAhead DEF InsidePcs
<1>10. ASSUME NEW t \in SubThreads, Unlock(t) PROVE LocksKept'
  <2> DEFINE s == worker[t].s
  <2>1. s \in Subs /\ Ahead(t, "again") /\ Becomes(s, sub[s].allowed, sub[s].processed, FALSE)
    BY <1>10, UnlockGoes
  <2>2. ~ sub'[s].locked /\ \A r \in Subs : r # s => sub'[r] = sub[r]
    <3>1. sub'[s].locked = FALSE /\ \A r \in Subs : r # s => sub'[r] = sub[r]
      <4>1. s \in Subs
        BY <2>1
      <4>2. PICK a, b, c : c = FALSE /\ Becomes(s, a, b, c)
        BY <2>1
      <4>3. Becomes(s, a, b, c)
        BY <4>2
      <4> HIDE DEF s
      <4>4. sub'[s].locked = c /\ \A r \in Subs : r # s => sub'[r] = sub[r]
        BY <4>1, <4>3, SubFields
      <4> QED
        BY <4>2, <4>4
    <3> QED
      BY <3>1
  <2>3. Inside(t, s)
    BY <1>10 DEF Unlock, Inside, InsidePcs
  <2>4. ASSUME NEW r \in Subs
        PROVE  ~ Inside(t, r)' /\ \A u \in SubThreads : u # t => (Inside(u, r)' <=> Inside(u, r))
    <3>1. Inside(t, r)' <=> "again" \in InsidePcs /\ worker[t].s = r
      BY <2>1, InsideAhead
    <3>2. \A u \in SubThreads : u # t => (Inside(u, r)' <=> Inside(u, r))
      BY <2>1, InsideAhead
    <3> QED
      BY <3>1, <3>2 DEF InsidePcs
  <2>5. ASSUME NEW r \in Subs
        PROVE  /\ \A u, v \in SubThreads : Inside(u, r)' /\ Inside(v, r)' => u = v
               /\ sub'[r].locked <=> \E u \in SubThreads : Inside(u, r)'
    <3>1. CASE r = s
      BY <2>1, <2>2, <2>3, <2>4, <3>1 DEF LocksKept
    <3>2. CASE r # s
      <4>1. ~ Inside(t, r)
        BY <3>2 DEF Inside
      <4> QED
        BY <2>2, <2>4, <3>2, <4>1 DEF LocksKept
    <3> QED
      BY <3>1, <3>2
  <2> QED
    BY <2>5 DEF LocksKept
<1>11. ASSUME NEW t \in SubThreads, LookAgain(t) PROVE LocksKept'
  <2>1. PICK pc \in {"relock", "post"} : Ahead(t, pc)
    BY <1>11, AgainGoes
  <2>2. worker[t].pc = "again" /\ sub' = sub
    BY <1>11 DEF LookAgain
  <2> QED
    BY <2>1, <2>2, LocksAhead DEF InsidePcs, Ahead
<1>12. ASSUME NEW t \in SubThreads, SemPostBack(t) PROVE LocksKept'
  <2>1. \/ Proceeds(t, "pop", 0, 0, 0)
        \/ Proceeds(t, "post", worker[t].s, worker[t].took - 1, worker[t].job)
    BY <1>12, PostGoes
  <2>2. worker[t].pc = "post" /\ sub' = sub
    BY <1>12 DEF SemPostBack
  <2>3. \A pc \in {"pop", "post"} : pc \notin InsidePcs
    BY DEF InsidePcs
  <2>4. worker[t].pc \notin InsidePcs
    BY <2>2 DEF InsidePcs
  <2> QED
    BY <2>1, <2>2, <2>3, <2>4, LocksAhead
<1> QED
  BY <1>1, <1>3, <1>4, <1>5, <1>6, <1>7, <1>8, <1>9, <1>10, <1>11, <1>12 DEF SubNext

(* A thread that goes on: it still cares, or another does.                 *)
LEMMA WorkAhead ==
  ASSUME WorkKept, SubTypeOK, NEW t \in SubThreads, NEW pc, NEW s, NEW took, NEW j,
         Proceeds(t, pc, s, took, j), \A r \in Subs : MoreToRun(r)' <=> MoreToRun(r),
         pc \in {"take", "run"} => s \in Subs /\ MoreToRun(s),
         \A r \in Subs : Cares(t, r) => \/ pc \in CaringPcs /\ s = r
                                        \/ ~ MoreToRun(r)
                                        \/ \E u \in SubThreads : u # t /\ Cares(u, r)
  PROVE  WorkKept'
<1>1. ASSUME NEW r \in Subs, MoreToRun(r)' PROVE \E u \in SubThreads : Cares(u, r)'
  <2>1. PICK u \in SubThreads : Cares(u, r)
    BY <1>1 DEF WorkKept
  <2>2. CASE u # t
    BY <2>1, <2>2, InsideAfter
  <2>3. CASE u = t
    <3>1. \/ pc \in CaringPcs /\ s = r
          \/ \E v \in SubThreads : v # t /\ Cares(v, r)
      BY <1>1, <2>1, <2>3
    <3> QED
      BY <3>1, InsideAfter
  <2> QED
    BY <2>2, <2>3
<1>2. ASSUME NEW u \in SubThreads, NEW r \in Subs, worker'[u].pc \in {"take", "run"}, worker'[u].s = r
      PROVE  MoreToRun(r)'
  <2>1. CASE u = t
    <3>1. worker'[u].pc = pc /\ worker'[u].s = s
      BY <2>1, ThreadFields
    <3> QED
      BY <1>2, <3>1
  <2>2. CASE u # t
    <3>1. worker'[u] = worker[u]
      BY <2>2 DEF Proceeds
    <3>2. MoreToRun(r)
      BY <1>2, <3>1 DEF WorkKept
    <3> QED
      BY <3>2
  <2> QED
    BY <2>1, <2>2
<1> QED
  BY <1>1, <1>2 DEF WorkKept

(* A change of the lock only.                                              *)
LEMMA MoreLeft ==
  ASSUME NEW s \in Subs, NEW c, Becomes(s, sub[s].allowed, sub[s].processed, c)
  PROVE  \A r \in Subs : MoreToRun(r)' <=> MoreToRun(r)
<1>1. /\ sub'[s].allowed = sub[s].allowed /\ sub'[s].processed = sub[s].processed
      /\ \A r \in Subs : r # s => sub'[r] = sub[r]
  BY SubFields
<1>2. ASSUME NEW r \in Subs PROVE sub'[r].allowed = sub[r].allowed /\ sub'[r].processed = sub[r].processed
  <2>1. CASE r = s
    BY <1>1, <2>1
  <2>2. CASE r # s
    BY <1>1, <2>2
  <2> QED
    BY <2>1, <2>2
<1> QED
  BY <1>2 DEF MoreToRun

(* The steps keep somebody where there is work.                            *)
LEMMA WorkStep ==
  ASSUME SubInv, SubNext
  PROVE  WorkKept'
<1> USE DEF SubInv
<1>0. ASSUME sub' = sub PROVE \A r \in Subs : MoreToRun(r)' <=> MoreToRun(r)
  BY <1>0 DEF MoreToRun
<1>1. ASSUME NEW j \in DOMAIN SubJobs, PutJob(j) \/ PutNumber(j) PROVE WorkKept'
  <2>1. worker' = worker /\ sub' = sub
    BY <1>1 DEF PutJob, PutNumber
  <2> QED
    BY <2>1 DEF WorkKept, Cares, MoreToRun
<1>3. ASSUME NEW t \in SubThreads, PopNumber(t) PROVE WorkKept'
  <2>1. Proceeds(t, "allow", Head(jobQ), 0, 0)
    BY <1>3, PopGoes
  <2>2. \A r \in Subs : (MoreToRun(r)' <=> MoreToRun(r)) /\ ~ Cares(t, r)
    BY <1>0, <1>3 DEF PopNumber, Cares, CaringPcs, InsidePcs
  <2> QED
    BY <2>1, <2>2, WorkAhead
<1>4. ASSUME NEW t \in SubThreads, Allow(t) PROVE WorkKept'
  <2> DEFINE s == worker[t].s
  <2>1. s \in Subs /\ Ahead(t, "lock") /\ Becomes(s, sub[s].allowed + 1, sub[s].processed, sub[s].locked)
    BY <1>4, AllowGoes
  <2>2. /\ sub'[s].allowed = sub[s].allowed + 1 /\ sub'[s].processed = sub[s].processed
        /\ \A r \in Subs : r # s => sub'[r] = sub[r]
    <3>1. s \in Subs /\ Becomes(s, sub[s].allowed + 1, sub[s].processed, sub[s].locked)
      BY <2>1
    <3>2. PICK a, b, c : a = sub[s].allowed + 1 /\ b = sub[s].processed /\ Becomes(s, a, b, c)
      BY <3>1
    <3>3. Becomes(s, a, b, c)
      BY <3>2
    <3> HIDE DEF s
    <3>4. sub'[s].allowed = a /\ sub'[s].processed = b /\ \A r \in Subs : r # s => sub'[r] = sub[r]
      BY <3>1, <3>3, SubFields
    <3> QED
      BY <3>2, <3>4
  <2>3. ASSUME NEW r \in Subs, MoreToRun(r) PROVE MoreToRun(r)'
    <3>1. CASE r = s
      <4>1. sub[s].allowed \in Nat /\ sub[s].processed \in Nat /\ sub[s].processed < sub[s].allowed
        BY <2>1, <2>3, <3>1 DEF MoreToRun, SubTypeOK
      <4>2. sub[s].processed < sub[s].allowed + 1
        BY <4>1, SMT
      <4> QED
        BY <2>2, <3>1, <4>2 DEF MoreToRun
    <3>2. CASE r # s
      BY <2>2, <2>3, <3>2 DEF MoreToRun
    <3> QED
      BY <3>1, <3>2
  <2>4. ASSUME NEW r \in Subs, MoreToRun(r)' PROVE \E u \in SubThreads : Cares(u, r)'
    <3>1. CASE r = s
      BY <2>1, <3>1, InsideAhead DEF CaringPcs
    <3>2. CASE r # s
      <4>1. MoreToRun(r)
        BY <2>2, <2>4, <3>2 DEF MoreToRun
      <4>2. PICK u \in SubThreads : Cares(u, r)
        BY <4>1 DEF WorkKept
      <4>3. u # t
        BY <3>2, <4>2 DEF Cares
      <4> QED
        BY <2>1, <4>2, <4>3, InsideAhead
    <3> QED
      BY <3>1, <3>2
  <2>5. ASSUME NEW u \in SubThreads, NEW r \in Subs, worker'[u].pc \in {"take", "run"}, worker'[u].s = r
        PROVE  MoreToRun(r)'
    <3>1. worker'[t].pc = "lock"
      BY <2>1, ThreadFields DEF Ahead
    <3>2. u # t
      BY <2>5, <3>1
    <3>3. worker'[u] = worker[u]
      BY <2>1, <3>2 DEF Ahead, Proceeds
    <3>4. MoreToRun(r)
      BY <2>5, <3>3 DEF WorkKept
    <3> QED
      BY <2>3, <3>4
  <2> QED
    BY <2>4, <2>5 DEF WorkKept
<1>5. ASSUME NEW t \in SubThreads, TryLock(t) PROVE WorkKept'
  <2> DEFINE s == worker[t].s
  <2>0. s \in Subs /\ worker[t].pc \notin InsidePcs
    BY <1>5, LockGoes DEF TryLock, InsidePcs
  <2>1. CASE sub[s].locked
    <3>1. sub' = sub /\ (Ahead(t, "pop") \/ Ahead(t, "post"))
      BY <1>5, <2>1, LockGoes
    <3>2. PICK u \in SubThreads : Inside(u, s)
      BY <2>0, <2>1 DEF LocksKept
    <3>3. u # t /\ Cares(u, s)
      BY <2>0, <3>2 DEF Inside, Cares, CaringPcs
    <3>4. \A r \in Subs : Cares(t, r) => \E v \in SubThreads : v # t /\ Cares(v, r)
      BY <3>3 DEF Cares
    <3>5. \A r \in Subs : MoreToRun(r)' <=> MoreToRun(r)
      BY <1>0, <3>1
    <3>6. CASE Ahead(t, "pop")
      BY <3>4, <3>5, <3>6, WorkAhead DEF Ahead
    <3>7. CASE Ahead(t, "post")
      BY <3>4, <3>5, <3>7, WorkAhead DEF Ahead
    <3> QED
      BY <3>1, <3>6, <3>7
  <2>2. CASE ~ sub[s].locked
    <3>1. Becomes(s, sub[s].allowed, sub[s].processed, TRUE) /\ (Ahead(t, "wait") \/ Ahead(t, "loop"))
      BY <1>5, <2>2, LockGoes
    <3>2. \A r \in Subs : MoreToRun(r)' <=> MoreToRun(r)
      <4>1. PICK c : Becomes(s, sub[s].allowed, sub[s].processed, c)
        BY <3>1
      <4> HIDE DEF s
      <4> QED
        BY <2>0, <4>1, MoreLeft
    <3>3. \A r \in Subs : Cares(t, r) => worker[t].s = r
      BY DEF Cares
    <3>4. "wait" \in CaringPcs /\ "loop" \in CaringPcs
      BY DEF CaringPcs, InsidePcs
    <3>5. CASE Ahead(t, "wait")
      BY <3>2, <3>3, <3>4, <3>5, WorkAhead DEF Ahead
    <3>6. CASE Ahead(t, "loop")
      BY <3>2, <3>3, <3>4, <3>6, WorkAhead DEF Ahead
    <3> QED
      BY <3>1, <3>5, <3>6
  <2> QED
    BY <2>1, <2>2
<1>6. ASSUME NEW t \in SubThreads, SemWait(t) PROVE WorkKept'
  <2>1. PICK pc \in {"loop", "wait"} : Proceeds(t, pc, worker[t].s, worker[t].took + 1, worker[t].job)
    BY <1>6, WaitGoes
  <2>2. \A r \in Subs : (MoreToRun(r)' <=> MoreToRun(r)) /\ (Cares(t, r) => worker[t].s = r)
    BY <1>0, <1>6 DEF SemWait, Cares
  <2>3. pc \in CaringPcs /\ pc \notin {"take", "run"}
    BY DEF CaringPcs, InsidePcs
  <2> QED
    BY <2>1, <2>2, <2>3, WorkAhead
<1>7. ASSUME NEW t \in SubThreads, Loop(t) PROVE WorkKept'
  <2>1. \A r \in Subs : (MoreToRun(r)' <=> MoreToRun(r)) /\ (Cares(t, r) => worker[t].s = r)
    BY <1>0, <1>7 DEF Loop, Cares
  <2>2. "take" \in CaringPcs /\ "unlock" \in CaringPcs /\ worker[t].s \in Subs
    BY <1>7, LoopGoes DEF CaringPcs, InsidePcs
  <2>3. CASE MoreToRun(worker[t].s) /\ Ahead(t, "take")
    BY <2>1, <2>2, <2>3, WorkAhead DEF Ahead
  <2>4. CASE Ahead(t, "unlock")
    BY <2>1, <2>2, <2>4, WorkAhead DEF Ahead
  <2> QED
    BY <1>7, <2>3, <2>4, LoopGoes
<1>8. ASSUME NEW t \in SubThreads, TakeJob(t) PROVE WorkKept'
  <2>1. /\ worker[t].s \in Subs
        /\ Proceeds(t, "run", worker[t].s, worker[t].took, Head(subQ[worker[t].s]))
    BY <1>8, TakeGoes
  <2>2. \A r \in Subs : (MoreToRun(r)' <=> MoreToRun(r)) /\ (Cares(t, r) => worker[t].s = r)
    BY <1>0, <1>8 DEF TakeJob, Cares
  <2>3. "run" \in CaringPcs
    BY DEF CaringPcs, InsidePcs
  <2>4. MoreToRun(worker[t].s)
    BY <1>8, <2>1 DEF TakeJob, WorkKept
  <2> QED
    BY <2>1, <2>2, <2>3, <2>4, WorkAhead
<1>9. ASSUME NEW t \in SubThreads, RunJob(t) PROVE WorkKept'
  <2> DEFINE s == worker[t].s
  <2>1. s \in Subs /\ Becomes(s, sub[s].allowed, sub[s].processed + 1, sub[s].locked)
    BY <1>9, RunCounts
  <2>2. /\ sub'[s].allowed = sub[s].allowed /\ sub'[s].processed = sub[s].processed + 1
        /\ \A r \in Subs : r # s => sub'[r] = sub[r]
    <3>1. PICK a, b, c : a = sub[s].allowed /\ b = sub[s].processed + 1 /\ Becomes(s, a, b, c)
      BY <2>1
    <3>2. Becomes(s, a, b, c) /\ s \in Subs
      BY <2>1, <3>1
    <3> HIDE DEF s
    <3>3. sub'[s].allowed = a /\ sub'[s].processed = b /\ \A r \in Subs : r # s => sub'[r] = sub[r]
      BY <3>2, SubFields
    <3> QED
      BY <3>1, <3>3
  <2>3. Proceeds(t, "loop", worker[t].s, worker[t].took, 0)
    BY <1>9, RunGoes
  <2>4. ASSUME NEW r \in Subs, MoreToRun(r)' PROVE \E u \in SubThreads : Cares(u, r)'
    <3>1. CASE r = s
      <4>1. worker'[t].pc = "loop" /\ worker'[t].s = worker[t].s
        BY <2>3, ThreadFields
      <4> QED
        BY <3>1, <4>1 DEF Cares, CaringPcs, InsidePcs
    <3>2. CASE r # s
      <4>1. MoreToRun(r)
        BY <2>2, <2>4, <3>2 DEF MoreToRun
      <4>2. PICK u \in SubThreads : Cares(u, r)
        BY <4>1 DEF WorkKept
      <4>3. u # t
        BY <3>2, <4>2 DEF Cares
      <4> QED
        BY <2>3, <4>2, <4>3, InsideAfter
    <3> QED
      BY <3>1, <3>2
  <2>5. ASSUME NEW u \in SubThreads, NEW r \in Subs, worker'[u].pc \in {"take", "run"}, worker'[u].s = r
        PROVE  MoreToRun(r)'
    <3>1. worker'[t].pc = "loop"
      BY <2>3, ThreadFields
    <3>2. u # t
      BY <2>5, <3>1
    <3>3. worker'[u] = worker[u]
      BY <2>3, <3>2 DEF Proceeds
    <3>4. MoreToRun(r)
      BY <2>5, <3>3 DEF WorkKept
    <3>5. Inside(u, r) /\ Inside(t, s)
      BY <1>9, <2>5, <3>3 DEF Inside, InsidePcs, RunJob
    <3>6. r # s
      <4> SUFFICES ASSUME r = s PROVE FALSE
        OBVIOUS
      <4>1. Inside(u, s) /\ Inside(t, s)
        BY <3>5
      <4>2. \A v, w \in SubThreads : Inside(v, s) /\ Inside(w, s) => v = w
        BY <2>1 DEF LocksKept
      <4> QED
        BY <3>2, <4>1, <4>2
    <3> QED
      BY <2>2, <3>4, <3>6 DEF MoreToRun
  <2> QED
    BY <2>4, <2>5 DEF WorkKept
<1>10. ASSUME NEW t \in SubThreads, Unlock(t) PROVE WorkKept'
  <2> DEFINE s == worker[t].s
  <2>1. s \in Subs /\ Ahead(t, "again") /\ Becomes(s, sub[s].allowed, sub[s].processed, FALSE)
    BY <1>10, UnlockGoes
  <2>2. \A r \in Subs : MoreToRun(r)' <=> MoreToRun(r)
    <3>1. PICK c : Becomes(s, sub[s].allowed, sub[s].processed, c)
      BY <2>1
    <3>2. s \in Subs
      BY <2>1
    <3> HIDE DEF s
    <3> QED
      BY <3>1, <3>2, MoreLeft
  <2>3. "again" \in CaringPcs /\ \A r \in Subs : Cares(t, r) => worker[t].s = r
    BY DEF CaringPcs, Cares
  <2> QED
    BY <2>1, <2>2, <2>3, WorkAhead DEF Ahead
<1>11. ASSUME NEW t \in SubThreads, LookAgain(t) PROVE WorkKept'
  <2>1. \A r \in Subs : (MoreToRun(r)' <=> MoreToRun(r)) /\ (Cares(t, r) => worker[t].s = r)
    BY <1>0, <1>11 DEF LookAgain, Cares
  <2>2. "relock" \in CaringPcs
    BY DEF CaringPcs
  <2>3. CASE Ahead(t, "relock")
    BY <2>1, <2>2, <2>3, WorkAhead DEF Ahead
  <2>4. CASE ~ MoreToRun(worker[t].s) /\ Ahead(t, "post")
    BY <2>1, <2>4, WorkAhead DEF Ahead
  <2> QED
    BY <1>11, <2>3, <2>4, AgainGoes
<1>12. ASSUME NEW t \in SubThreads, SemPostBack(t) PROVE WorkKept'
  <2>1. \/ Proceeds(t, "pop", 0, 0, 0)
        \/ Proceeds(t, "post", worker[t].s, worker[t].took - 1, worker[t].job)
    BY <1>12, PostGoes
  <2>2. \A r \in Subs : (MoreToRun(r)' <=> MoreToRun(r)) /\ ~ Cares(t, r)
    BY <1>0, <1>12 DEF SemPostBack, Cares, CaringPcs, InsidePcs
  <2>3. CASE Proceeds(t, "pop", 0, 0, 0)
    BY <2>2, <2>3, WorkAhead
  <2>4. CASE Proceeds(t, "post", worker[t].s, worker[t].took - 1, worker[t].job)
    BY <2>2, <2>4, WorkAhead
  <2> QED
    BY <2>1, <2>3, <2>4
<1> QED
  BY <1>1, <1>3, <1>4, <1>5, <1>6, <1>7, <1>8, <1>9, <1>10, <1>11, <1>12 DEF SubNext

-----------------------------------------------------------------------------
(* Places *)

(* What is left at its end, or without its head, of a sequence.            *)
LEMMA AppendOccurs ==
  ASSUME NEW S, NEW q \in Seq(S), NEW e \in S
  PROVE  /\ \A k : Occurs(Append(q, e), k) <=> Occurs(q, k) \/ k = e
         /\ NoRepeats(q) /\ ~ Occurs(q, e) => NoRepeats(Append(q, e))
<1> DEFINE a == Append(q, e)
           n == Len(q)
<1>1. /\ DOMAIN a = (DOMAIN q) \cup {n + 1} /\ a[n + 1] = e
      /\ \A i \in DOMAIN q : a[i] = q[i]
  BY SMT
<1> HIDE DEF a, n
<1>2. \A k : Occurs(a, k) <=> Occurs(q, k) \/ k = e
  BY <1>1 DEF Occurs
<1>3. ASSUME NoRepeats(q), ~ Occurs(q, e) PROVE NoRepeats(a)
  <2>1. ASSUME NEW i \in DOMAIN a, NEW k \in DOMAIN a, a[i] = a[k] PROVE i = k
    <3>1. CASE a[i] = e
      <4>1. i = n + 1 /\ k = n + 1
        BY <1>1, <1>3, <2>1, <3>1 DEF Occurs
      <4> QED
        BY <4>1
    <3>2. CASE a[i] # e
      <4>1. i \in DOMAIN q /\ k \in DOMAIN q /\ q[i] = q[k]
        BY <1>1, <2>1, <3>2
      <4> QED
        BY <1>3, <4>1 DEF NoRepeats
    <3> QED
      BY <3>1, <3>2
  <2> QED
    BY <2>1 DEF NoRepeats
<1> QED
  BY <1>2, <1>3 DEF a

LEMMA TailOccurs ==
  ASSUME NEW S, NEW q \in Seq(S), q # <<>>, NoRepeats(q)
  PROVE  /\ \A k : Occurs(Tail(q), k) <=> Occurs(q, k) /\ k # Head(q)
         /\ Occurs(q, Head(q)) /\ NoRepeats(Tail(q))
<1>1. /\ 1 \in DOMAIN q /\ Head(q) = q[1]
      /\ \A i \in DOMAIN Tail(q) : i + 1 \in DOMAIN q /\ Tail(q)[i] = q[i + 1] /\ i + 1 # 1
      /\ \A i \in DOMAIN q : i # 1 => i - 1 \in DOMAIN Tail(q) /\ Tail(q)[i - 1] = q[i]
      /\ \A i, k \in DOMAIN Tail(q) : i + 1 = k + 1 => i = k
  BY SMT
<1>2. ASSUME NEW k, Occurs(Tail(q), k) PROVE Occurs(q, k) /\ k # Head(q)
  <2>1. PICK i \in DOMAIN Tail(q) : Tail(q)[i] = k
    BY <1>2 DEF Occurs
  <2>2. i + 1 \in DOMAIN q /\ q[i + 1] = k /\ i + 1 # 1
    BY <1>1, <2>1
  <2> QED
    BY <1>1, <2>2 DEF Occurs, NoRepeats
<1>3. ASSUME NEW k, Occurs(q, k), k # Head(q) PROVE Occurs(Tail(q), k)
  <2>1. PICK i \in DOMAIN q : q[i] = k
    BY <1>3 DEF Occurs
  <2>2. i # 1
    BY <1>1, <1>3, <2>1
  <2> QED
    BY <1>1, <2>1, <2>2 DEF Occurs
<1>4. ASSUME NEW i \in DOMAIN Tail(q), NEW k \in DOMAIN Tail(q), Tail(q)[i] = Tail(q)[k] PROVE i = k
  <2>1. i + 1 \in DOMAIN q /\ k + 1 \in DOMAIN q /\ q[i + 1] = q[k + 1]
    BY <1>1, <1>4
  <2>2. i + 1 = k + 1
    BY <2>1 DEF NoRepeats
  <2> QED
    BY <1>1, <2>2
<1>5. Occurs(q, Head(q))
  BY <1>1 DEF Occurs
<1> QED
  BY <1>2, <1>3, <1>4, <1>5 DEF NoRepeats

(* A step of a thread that neither takes nor runs a job.                   *)
LEMMA PlacesAhead ==
  ASSUME PlacesKept, subQ' = subQ, subDone' = subDone, NEW t \in SubThreads,
         NEW pc, NEW s, NEW took, NEW j, Proceeds(t, pc, s, took, j), pc # "run", worker[t].pc # "run"
  PROVE  PlacesKept'
<1>1. worker'[t].pc # "run"
  BY ThreadFields
<1>2. \A u \in SubThreads : u # t => worker'[u] = worker[u]
  BY DEF Proceeds
<1>3. \A u \in SubThreads : \A k : Runs(u, k)' <=> Runs(u, k)
  BY <1>1, <1>2 DEF Runs
<1>4. \A k : Waiting(k)' <=> Waiting(k)
  BY DEF Waiting
<1>5. \A u \in SubThreads : worker'[u].pc = "run" => worker'[u] = worker[u]
  BY <1>1, <1>2
<1>6. QueuesDistinct' /\ RanRight'
  BY DEF PlacesKept, QueuesDistinct, RanRight
<1>7. QueuedRight'
  BY <1>3, <1>4 DEF PlacesKept, QueuedRight
<1>8. RunningRight'
  <2>1. \A u \in SubThreads : worker'[u].pc = "run" => worker'[u].job \in SubNames
    BY <1>5 DEF PlacesKept, RunningRight
  <2>2. ASSUME NEW u \in SubThreads, NEW k \in SubNames, Runs(u, k)' PROVE Waiting(k)' /\ worker'[u].s = SubJobs[k]
    <3>1. worker'[u] = worker[u] /\ Runs(u, k)
      BY <1>3, <1>5, <2>2 DEF Runs
    <3> QED
      BY <1>4, <3>1 DEF PlacesKept, RunningRight
  <2> QED
    BY <2>1, <2>2 DEF RunningRight
<1>9. NoneLost'
  BY <1>3, <1>4 DEF PlacesKept, NoneLost
<1> QED
  BY <1>6, <1>7, <1>8, <1>9 DEF PlacesKept

(* A job that is run is run by one thread.                                 *)
LEMMA RunByOne ==
  ASSUME SubInv, NEW j \in SubNames, NEW t \in SubThreads, NEW u \in SubThreads, Runs(t, j), Runs(u, j)
  PROVE  t = u
<1>1. worker[t].s = SubJobs[j] /\ worker[u].s = SubJobs[j] /\ SubJobs[j] \in Subs
  BY DEF SubInv, PlacesKept, RunningRight, Subs, SubNames
<1>2. Inside(t, SubJobs[j]) /\ Inside(u, SubJobs[j])
  BY <1>1 DEF Inside, InsidePcs, Runs
<1> QED
  BY <1>1, <1>2 DEF SubInv, LocksKept

(* PutJob puts the job at the end of the queue of its subclass.            *)
LEMMA PlacesPut ==
  ASSUME SubInv, NEW j \in SubNames, PutJob(j)
  PROVE  PlacesKept'
<1> USE DEF SubInv
<1> DEFINE s == SubJobs[j]
<1>1. /\ s \in Subs /\ subQ'[s] = Append(subQ[s], j) /\ subQ[s] \in Seq(SubNames)
      /\ \A r \in Subs : r # s => subQ'[r] = subQ[r]
  BY PutQueue DEF SubTypeOK
<1>2. /\ subDone'[j].put = 1 /\ subDone'[j].ran = subDone[j].ran
      /\ \A k \in SubNames : k # j => subDone'[k] = subDone[k]
  <2>1. 1 \in 0..2
    BY SMT
  <2> QED
    BY <2>1, PutDone DEF PutJob
<1>3. subDone[j].put = 0 /\ worker' = worker
  BY DEF PutJob
<1>4. subDone[j].ran = 0
  <2>1. subDone[j] \in [put : 0..2, ran : 0..1]
    BY DEF SubTypeOK
  <2>2. subDone[j].ran # 1
    BY <1>3 DEF PlacesKept, RanRight
  <2> QED
    BY <2>1, <2>2, SMT
<1>5. ~ Waiting(j) /\ \A k \in SubNames : Waiting(k)' <=> Waiting(k) \/ k = j
  <2>1. Waiting(j)' /\ ~ Waiting(j)
    <3>1. subDone'[j].put # 0
      BY <1>2, SMT
    <3> QED
      BY <1>2, <1>3, <1>4, <3>1 DEF Waiting
  <2> QED
    BY <1>2, <2>1 DEF Waiting
<1>6. ~ Occurs(subQ[s], j)
  BY <1>1, <1>5 DEF PlacesKept, QueuedRight
<1>7. NoRepeats(subQ[s])
  BY <1>1 DEF PlacesKept, QueuesDistinct
<1>8. NoRepeats(subQ'[s]) /\ \A k : Occurs(subQ'[s], k) <=> Occurs(subQ[s], k) \/ k = j
  <2>1. NoRepeats(Append(subQ[s], j)) /\ \A k : Occurs(Append(subQ[s], j), k) <=> Occurs(subQ[s], k) \/ k = j
    BY <1>1, <1>6, <1>7, AppendOccurs
  <2> QED
    BY <1>1, <2>1
<1>9. \A u \in SubThreads : \A k : Runs(u, k)' <=> Runs(u, k)
  BY <1>3 DEF Runs
<1>10. \A u \in SubThreads : ~ Runs(u, j)
  BY <1>5 DEF PlacesKept, RunningRight
<1>11. ASSUME NEW r \in Subs, NEW k \in SubNames
       PROVE  Occurs(subQ'[r], k) <=> Occurs(subQ[r], k) \/ (r = s /\ k = j)
  <2>1. CASE r = s
    BY <1>8, <2>1
  <2>2. CASE r # s
    BY <1>1, <2>2
  <2> QED
    BY <2>1, <2>2
<1>12. QueuesDistinct'
  <2>1. ASSUME NEW r \in Subs PROVE NoRepeats(subQ'[r])
    <3>1. CASE r = s
      BY <1>8, <3>1
    <3>2. CASE r # s
      BY <1>1, <3>2 DEF PlacesKept, QueuesDistinct
    <3> QED
      BY <3>1, <3>2
  <2> QED
    BY <2>1 DEF QueuesDistinct, NoRepeats
<1>13. QueuedRight'
  <2>1. ASSUME NEW r \in Subs, NEW k \in SubNames, Occurs(subQ'[r], k)
        PROVE  SubJobs[k] = r /\ Waiting(k)' /\ \A t \in SubThreads : ~ Runs(t, k)'
    <3>1. CASE r = s /\ k = j
      BY <1>5, <1>9, <1>10, <3>1
    <3>2. CASE Occurs(subQ[r], k)
      BY <1>5, <1>9, <3>2 DEF PlacesKept, QueuedRight
    <3> QED
      BY <1>11, <2>1, <3>1, <3>2
  <2> QED
    BY <2>1 DEF QueuedRight, Occurs
<1>14. RunningRight'
  BY <1>3, <1>5, <1>9 DEF PlacesKept, RunningRight
<1>15. RanRight'
  <2>1. ASSUME NEW k \in SubNames, subDone'[k].ran = 1 PROVE subDone'[k].put # 0
    <3>1. k # j
      BY <1>2, <1>4, <2>1, SMT
    <3> QED
      BY <1>2, <2>1, <3>1 DEF PlacesKept, RanRight
  <2> QED
    BY <2>1 DEF RanRight
<1>16. NoneLost'
  <2>1. ASSUME NEW k \in SubNames, Waiting(k)'
        PROVE  Occurs(subQ'[SubJobs[k]], k) \/ \E t \in SubThreads : Runs(t, k)'
    <3>1. SubJobs[k] \in Subs
      BY DEF Subs, SubNames
    <3>2. CASE k = j
      BY <1>11, <3>1, <3>2
    <3>3. CASE Waiting(k)
      <4>1. Occurs(subQ[SubJobs[k]], k) \/ \E t \in SubThreads : Runs(t, k)
        BY <3>3 DEF PlacesKept, NoneLost
      <4> QED
        BY <1>9, <1>11, <3>1, <4>1
    <3> QED
      BY <1>5, <2>1, <3>2, <3>3
  <2> QED
    BY <2>1 DEF NoneLost, Occurs
<1> QED
  BY <1>12, <1>13, <1>14, <1>15, <1>16 DEF PlacesKept

(* TakeJob moves the head of the queue to the thread.                      *)
LEMMA PlacesTake ==
  ASSUME SubInv, NEW t \in SubThreads, TakeJob(t)
  PROVE  PlacesKept'
<1> USE DEF SubInv
<1> DEFINE s == worker[t].s
           j == Head(subQ[s])
<1>1. /\ s \in Subs /\ j \in SubNames /\ subQ[s] \in Seq(SubNames) /\ subQ[s] # <<>>
      /\ subQ'[s] = Tail(subQ[s]) /\ \A r \in Subs : r # s => subQ'[r] = subQ[r]
  BY TakeGoes DEF SubTypeOK, TakeJob
<1>2. Proceeds(t, "run", s, worker[t].took, j) /\ worker[t].pc = "take" /\ subDone' = subDone
  BY TakeGoes DEF TakeJob
<1>3. worker'[t].pc = "run" /\ worker'[t].s = s /\ worker'[t].job = j
  <2>1. PICK took : Proceeds(t, "run", s, took, j)
    BY <1>2
  <2> HIDE DEF s, j
  <2> QED
    BY <2>1, ThreadFields
<1>4. \A u \in SubThreads : u # t => worker'[u] = worker[u]
  BY <1>2 DEF Proceeds
<1>5. NoRepeats(subQ[s])
  BY <1>1 DEF PlacesKept, QueuesDistinct
<1>6. /\ \A k : Occurs(subQ'[s], k) <=> Occurs(subQ[s], k) /\ k # j
      /\ Occurs(subQ[s], j) /\ NoRepeats(subQ'[s])
  BY <1>1, <1>5, TailOccurs
<1>7. SubJobs[j] = s /\ Waiting(j) /\ \A u \in SubThreads : ~ Runs(u, j)
  BY <1>1, <1>6 DEF PlacesKept, QueuedRight
<1> HIDE DEF s, j
<1>8. \A k : Waiting(k)' <=> Waiting(k)
  BY <1>2 DEF Waiting
<1>9. \A u \in SubThreads : \A k : Runs(u, k)' <=> Runs(u, k) \/ (u = t /\ k = j)
  BY <1>2, <1>3, <1>4 DEF Runs
<1>10. ASSUME NEW r \in Subs, NEW k \in SubNames
       PROVE  Occurs(subQ'[r], k) <=> Occurs(subQ[r], k) /\ ~ (r = s /\ k = j)
  <2>1. CASE r = s
    BY <1>6, <2>1
  <2>2. CASE r # s
    BY <1>1, <2>2
  <2> QED
    BY <2>1, <2>2
<1>11. QueuesDistinct'
  <2>1. ASSUME NEW r \in Subs PROVE NoRepeats(subQ'[r])
    <3>1. CASE r = s
      BY <1>6, <3>1
    <3>2. CASE r # s
      BY <1>1, <3>2 DEF PlacesKept, QueuesDistinct
    <3> QED
      BY <3>1, <3>2
  <2> QED
    BY <2>1 DEF QueuesDistinct, NoRepeats
<1>12. QueuedRight'
  <2>1. ASSUME NEW r \in Subs, NEW k \in SubNames, Occurs(subQ'[r], k)
        PROVE  SubJobs[k] = r /\ Waiting(k)' /\ \A u \in SubThreads : ~ Runs(u, k)'
    <3>1. Occurs(subQ[r], k) /\ ~ (r = s /\ k = j)
      BY <1>10, <2>1
    <3>2. SubJobs[k] = r /\ Waiting(k) /\ \A u \in SubThreads : ~ Runs(u, k)
      BY <3>1 DEF PlacesKept, QueuedRight
    <3>3. k # j
      BY <1>7, <3>1, <3>2
    <3> QED
      BY <1>8, <1>9, <3>2, <3>3
  <2> QED
    BY <2>1 DEF QueuedRight, Occurs
<1>13. RunningRight'
  <2>1. ASSUME NEW u \in SubThreads, worker'[u].pc = "run" PROVE worker'[u].job \in SubNames
    <3>1. CASE u = t
      BY <1>1, <1>3, <3>1
    <3>2. CASE u # t
      BY <1>4, <2>1, <3>2 DEF PlacesKept, RunningRight
    <3> QED
      BY <3>1, <3>2
  <2>2. ASSUME NEW u \in SubThreads, NEW k \in SubNames, Runs(u, k)' PROVE Waiting(k)' /\ worker'[u].s = SubJobs[k]
    <3>1. CASE u = t
      <4>1. k = j
        BY <1>3, <2>2, <3>1 DEF Runs
      <4> QED
        BY <1>3, <1>7, <1>8, <3>1, <4>1
    <3>2. CASE u # t
      <4>1. Runs(u, k) /\ worker'[u] = worker[u]
        BY <1>4, <1>9, <2>2, <3>2
      <4> QED
        BY <1>8, <4>1 DEF PlacesKept, RunningRight
    <3> QED
      BY <3>1, <3>2
  <2> QED
    BY <2>1, <2>2 DEF RunningRight
<1>14. RanRight'
  BY <1>2 DEF PlacesKept, RanRight
<1>15. NoneLost'
  <2>1. ASSUME NEW k \in SubNames, Waiting(k)'
        PROVE  Occurs(subQ'[SubJobs[k]], k) \/ \E u \in SubThreads : Runs(u, k)'
    <3>1. SubJobs[k] \in Subs
      BY DEF Subs, SubNames
    <3>2. CASE k = j
      BY <1>9, <3>2
    <3>3. CASE k # j
      <4>1. Occurs(subQ[SubJobs[k]], k) \/ \E u \in SubThreads : Runs(u, k)
        BY <1>8, <2>1 DEF PlacesKept, NoneLost
      <4> QED
        BY <1>9, <1>10, <3>1, <3>3, <4>1
    <3> QED
      BY <3>2, <3>3
  <2> QED
    BY <2>1 DEF NoneLost, Occurs
<1> QED
  BY <1>11, <1>12, <1>13, <1>14, <1>15 DEF PlacesKept

(* RunJob: the thread's job has run.                                       *)
LEMMA PlacesRun ==
  ASSUME SubInv, NEW t \in SubThreads, RunJob(t)
  PROVE  PlacesKept'
<1> USE DEF SubInv
<1> DEFINE j == worker[t].job
<1>1. /\ j \in SubNames /\ subDone'[j].ran = 1 /\ subDone'[j].put = subDone[j].put
      /\ \A k \in SubNames : k # j => subDone'[k] = subDone[k]
  BY RunCounts
<1>2. Runs(t, j) /\ subQ' = subQ
  BY DEF RunJob, Runs
<1>3. worker'[t].pc = "loop" /\ \A u \in SubThreads : u # t => worker'[u] = worker[u]
  <2>1. Proceeds(t, "loop", worker[t].s, worker[t].took, 0)
    BY RunGoes
  <2>2. worker'[t].pc = "loop"
    BY <2>1, ThreadFields
  <2> QED
    BY <2>1, <2>2 DEF Proceeds
<1>4. Waiting(j)
  BY <1>1, <1>2 DEF PlacesKept, RunningRight
<1>5. \A u \in SubThreads : Runs(u, j) => u = t
  BY <1>1, <1>2, RunByOne
<1> HIDE DEF j
<1>6. ASSUME NEW k \in SubNames PROVE Waiting(k)' <=> Waiting(k) /\ k # j
  <2>1. CASE k = j
    <3>1. subDone'[j].ran # 0
      BY <1>1, SMT
    <3> QED
      BY <2>1, <3>1 DEF Waiting
  <2>2. CASE k # j
    BY <1>1, <2>2 DEF Waiting
  <2> QED
    BY <2>1, <2>2
<1>7. \A u \in SubThreads : \A k : Runs(u, k)' <=> Runs(u, k) /\ u # t
  BY <1>3 DEF Runs
<1>8. QueuesDistinct'
  BY <1>2 DEF PlacesKept, QueuesDistinct
<1>9. QueuedRight'
  <2>1. ASSUME NEW r \in Subs, NEW k \in SubNames, Occurs(subQ[r], k)
        PROVE  SubJobs[k] = r /\ Waiting(k)' /\ \A u \in SubThreads : ~ Runs(u, k)'
    <3>1. SubJobs[k] = r /\ Waiting(k) /\ \A u \in SubThreads : ~ Runs(u, k)
      BY <2>1 DEF PlacesKept, QueuedRight
    <3>2. k # j
      BY <1>2, <3>1
    <3> QED
      BY <1>6, <1>7, <3>1, <3>2
  <2> QED
    BY <1>2, <2>1 DEF QueuedRight
<1>10. RunningRight'
  <2>1. ASSUME NEW u \in SubThreads, worker'[u].pc = "run" PROVE worker'[u].job \in SubNames
    <3>1. u # t
      BY <1>3, <2>1
    <3> QED
      BY <1>3, <2>1, <3>1 DEF PlacesKept, RunningRight
  <2>2. ASSUME NEW u \in SubThreads, NEW k \in SubNames, Runs(u, k)' PROVE Waiting(k)' /\ worker'[u].s = SubJobs[k]
    <3>1. Runs(u, k) /\ u # t
      BY <1>7, <2>2
    <3>2. k # j /\ worker'[u] = worker[u]
      BY <1>3, <1>5, <3>1
    <3>3. Waiting(k) /\ worker[u].s = SubJobs[k]
      BY <3>1 DEF PlacesKept, RunningRight
    <3> QED
      BY <1>6, <3>2, <3>3
  <2> QED
    BY <2>1, <2>2 DEF RunningRight
<1>11. RanRight'
  <2>1. ASSUME NEW k \in SubNames, subDone'[k].ran = 1 PROVE subDone'[k].put # 0
    <3>1. CASE k = j
      BY <1>1, <1>4, <3>1 DEF Waiting
    <3>2. CASE k # j
      BY <1>1, <2>1, <3>2 DEF PlacesKept, RanRight
    <3> QED
      BY <3>1, <3>2
  <2> QED
    BY <2>1 DEF RanRight
<1>12. NoneLost'
  <2>1. ASSUME NEW k \in SubNames, Waiting(k)'
        PROVE  Occurs(subQ[SubJobs[k]], k) \/ \E u \in SubThreads : Runs(u, k)'
    <3>1. Waiting(k) /\ k # j
      BY <1>6, <2>1
    <3>2. CASE Occurs(subQ[SubJobs[k]], k)
      BY <3>2
    <3>3. CASE \E u \in SubThreads : Runs(u, k)
      <4>1. PICK u \in SubThreads : Runs(u, k)
        BY <3>3
      <4>2. u # t
        BY <1>2, <3>1, <4>1 DEF Runs
      <4> QED
        BY <1>7, <4>1, <4>2
    <3> QED
      BY <3>1, <3>2, <3>3 DEF PlacesKept, NoneLost
  <2> QED
    BY <1>2, <2>1 DEF NoneLost
<1> QED
  BY <1>8, <1>9, <1>10, <1>11, <1>12 DEF PlacesKept

(* PutNumber leaves every job where it is.                                 *)
LEMMA PlacesNumber ==
  ASSUME SubInv, NEW j \in SubNames, PutNumber(j)
  PROVE  PlacesKept'
<1> USE DEF SubInv
<1>1. /\ subDone'[j].put = 2 /\ subDone'[j].ran = subDone[j].ran
      /\ \A k \in SubNames : k # j => subDone'[k] = subDone[k]
  <2>1. 2 \in 0..2
    BY SMT
  <2> QED
    BY <2>1, PutDone DEF PutNumber
<1>2. subDone[j].put = 1 /\ worker' = worker /\ subQ' = subQ
  BY DEF PutNumber
<1>3. \A u \in SubThreads : \A k : Runs(u, k)' <=> Runs(u, k)
  BY <1>2 DEF Runs
<1>4. ASSUME NEW k \in SubNames PROVE Waiting(k)' <=> Waiting(k)
  <2>1. CASE k = j
    <3>1. subDone'[j].put # 0 /\ subDone[j].put # 0
      BY <1>1, <1>2, SMT
    <3> QED
      BY <1>1, <2>1, <3>1 DEF Waiting
  <2>2. CASE k # j
    BY <1>1, <2>2 DEF Waiting
  <2> QED
    BY <2>1, <2>2
<1>5. QueuesDistinct'
  BY <1>2 DEF PlacesKept, QueuesDistinct
<1>6. QueuedRight'
  BY <1>2, <1>3, <1>4 DEF PlacesKept, QueuedRight
<1>7. RunningRight'
  BY <1>2, <1>3, <1>4 DEF PlacesKept, RunningRight
<1>8. RanRight'
  <2>1. ASSUME NEW k \in SubNames, subDone'[k].ran = 1 PROVE subDone'[k].put # 0
    <3>1. CASE k = j
      BY <1>1, <3>1, SMT
    <3>2. CASE k # j
      BY <1>1, <2>1, <3>2 DEF PlacesKept, RanRight
    <3> QED
      BY <3>1, <3>2
  <2> QED
    BY <2>1 DEF RanRight
<1>9. NoneLost'
  BY <1>2, <1>3, <1>4 DEF PlacesKept, NoneLost
<1> QED
  BY <1>5, <1>6, <1>7, <1>8, <1>9 DEF PlacesKept

(* The steps keep every job in its place.                                  *)
LEMMA PlacesStep ==
  ASSUME SubInv, SubNext
  PROVE  PlacesKept'
<1> USE DEF SubInv
<1>1. ASSUME NEW j \in DOMAIN SubJobs, PutJob(j) PROVE PlacesKept'
  BY <1>1, PlacesPut DEF SubNames
<1>2. ASSUME NEW j \in DOMAIN SubJobs, PutNumber(j) PROVE PlacesKept'
  BY <1>2, PlacesNumber DEF SubNames
<1>3. ASSUME NEW t \in SubThreads, PopNumber(t) PROVE PlacesKept'
  <2>1. worker[t].pc # "run" /\ subQ' = subQ /\ subDone' = subDone
    BY <1>3 DEF PopNumber
  <2> QED
    BY <1>3, <2>1, PopGoes, PlacesAhead
<1>4. ASSUME NEW t \in SubThreads, NEW pc \in SubPcs \ {"run"}, Ahead(t, pc), worker[t].pc # "run",
             subQ' = subQ, subDone' = subDone
      PROVE  PlacesKept'
  BY <1>4, PlacesAhead DEF Ahead
<1>5. ASSUME NEW t \in SubThreads, Allow(t) PROVE PlacesKept'
  BY <1>4, <1>5, AllowGoes DEF Allow, SubPcs
<1>6. ASSUME NEW t \in SubThreads, TryLock(t) PROVE PlacesKept'
  <2>1. PICK pc \in {"pop", "post", "wait", "loop"} : Ahead(t, pc)
    BY <1>6, LockGoes
  <2>2. worker[t].pc # "run" /\ subQ' = subQ /\ subDone' = subDone /\ pc \in SubPcs \ {"run"}
    BY <1>6 DEF TryLock, SubPcs
  <2> QED
    BY <1>4, <2>1, <2>2
<1>7. ASSUME NEW t \in SubThreads, SemWait(t) PROVE PlacesKept'
  <2>1. PICK pc \in {"loop", "wait"} : Proceeds(t, pc, worker[t].s, worker[t].took + 1, worker[t].job)
    BY <1>7, WaitGoes
  <2>2. worker[t].pc # "run" /\ subQ' = subQ /\ subDone' = subDone /\ pc # "run"
    BY <1>7 DEF SemWait
  <2> QED
    BY <2>1, <2>2, PlacesAhead
<1>8. ASSUME NEW t \in SubThreads, Loop(t) PROVE PlacesKept'
  <2>1. worker[t].pc # "run" /\ subQ' = subQ /\ subDone' = subDone
    BY <1>8 DEF Loop
  <2> QED
    BY <1>4, <1>8, <2>1, LoopGoes DEF SubPcs
<1>9. ASSUME NEW t \in SubThreads, TakeJob(t) PROVE PlacesKept'
  BY <1>9, PlacesTake
<1>10. ASSUME NEW t \in SubThreads, RunJob(t) PROVE PlacesKept'
  BY <1>10, PlacesRun
<1>11. ASSUME NEW t \in SubThreads, Unlock(t) PROVE PlacesKept'
  BY <1>4, <1>11, UnlockGoes DEF Unlock, SubPcs
<1>12. ASSUME NEW t \in SubThreads, LookAgain(t) PROVE PlacesKept'
  <2>1. worker[t].pc # "run" /\ subQ' = subQ /\ subDone' = subDone
    BY <1>12 DEF LookAgain
  <2> QED
    BY <1>4, <1>12, <2>1, AgainGoes DEF SubPcs
<1>13. ASSUME NEW t \in SubThreads, SemPostBack(t) PROVE PlacesKept'
  <2>1. \/ Proceeds(t, "pop", 0, 0, 0)
        \/ Proceeds(t, "post", worker[t].s, worker[t].took - 1, worker[t].job)
    BY <1>13, PostGoes
  <2>2. worker[t].pc # "run" /\ subQ' = subQ /\ subDone' = subDone
    BY <1>13 DEF SemPostBack
  <2> QED
    BY <2>1, <2>2, PlacesAhead
<1> HIDE DEF SubInv
<1> QED
  BY <1>1, <1>2, <1>3, <1>5, <1>6, <1>7, <1>8, <1>9, <1>10, <1>11, <1>12, <1>13 DEF SubNext

-----------------------------------------------------------------------------
(* Counts *)

(* The sets that are counted are finite.                                   *)
LEMMA CountsFinite ==
  ASSUME SubTypeOK, NEW s
  PROVE  /\ IsFiniteSet(NumberWith(s)) /\ IsFiniteSet(PutOf(s)) /\ IsFiniteSet(RanOf(s))
         /\ IsFiniteSet(NumbersIn(jobQ, s))
         /\ Cardinality(NumberWith(s)) \in Nat /\ Cardinality(PutOf(s)) \in Nat /\ Cardinality(RanOf(s)) \in Nat
         /\ Cardinality(NumbersIn(jobQ, s)) \in Nat
<1>1. IsFiniteSet(SubThreads) /\ IsFiniteSet(SubNames)
  BY SubAssumption DEF SubNames
<1>2. IsFiniteSet(DOMAIN jobQ)
  <2>1. DOMAIN jobQ = 1..Len(jobQ) /\ Len(jobQ) \in Nat
    BY SMT DEF SubTypeOK
  <2> QED
    BY <2>1, FS_Interval, SMT
<1>3. NumberWith(s) \subseteq SubThreads /\ PutOf(s) \subseteq SubNames /\ RanOf(s) \subseteq SubNames
  BY DEF NumberWith, PutOf, RanOf
<1>4. NumbersIn(jobQ, s) \subseteq DOMAIN jobQ
  BY DEF NumbersIn
<1> QED
  BY <1>1, <1>2, <1>3, <1>4, FS_Subset, FS_CardinalityType

(* A number more at the end of the queue, or one less at its head.         *)
LEMMA AppendSame ==
  ASSUME NEW q \in Seq(Subs), NEW s \in Subs
  PROVE  /\ Len(q) + 1 \notin NumbersIn(q, s)
         /\ NumbersIn(Append(q, s), s) = NumbersIn(q, s) \cup {Len(q) + 1}
<1> DEFINE a == Append(q, s)
           n == Len(q)
<1>1. /\ DOMAIN a = (DOMAIN q) \cup {n + 1} /\ a[n + 1] = s /\ n + 1 \notin DOMAIN q
      /\ \A i \in DOMAIN q : a[i] = q[i]
  BY SMT
<1> HIDE DEF a, n
<1>2. n + 1 \notin NumbersIn(q, s) /\ NumbersIn(a, s) = NumbersIn(q, s) \cup {n + 1}
  BY <1>1 DEF NumbersIn
<1> QED
  BY <1>2 DEF a, n

LEMMA AppendOther ==
  ASSUME NEW q \in Seq(Subs), NEW e \in Subs, NEW s, e # s
  PROVE  NumbersIn(Append(q, e), s) = NumbersIn(q, s)
<1> DEFINE a == Append(q, e)
           n == Len(q)
<1>1. /\ DOMAIN a = (DOMAIN q) \cup {n + 1} /\ a[n + 1] = e /\ n + 1 \notin DOMAIN q
      /\ \A i \in DOMAIN q : a[i] = q[i]
  BY SMT
<1> HIDE DEF a, n
<1>2. NumbersIn(a, s) = NumbersIn(q, s)
  BY <1>1 DEF NumbersIn
<1> QED
  BY <1>2 DEF a

LEMMA TailNumbers ==
  ASSUME NEW q \in Seq(Subs), q # <<>>, NEW s
  PROVE  Cardinality(NumbersIn(q, s)) =
           Cardinality(NumbersIn(Tail(q), s)) + (IF Head(q) = s THEN 1 ELSE 0)
<1> DEFINE T == NumbersIn(Tail(q), s)
           U == NumbersIn(q, s) \ {1}
           f == [i \in T |-> i + 1]
<1>1. /\ 1 \in DOMAIN q /\ Head(q) = q[1]
      /\ \A i \in DOMAIN Tail(q) : i \in Int /\ i + 1 \in DOMAIN q /\ Tail(q)[i] = q[i + 1] /\ i + 1 # 1
      /\ \A i \in DOMAIN q : i # 1 => i - 1 \in DOMAIN Tail(q) /\ Tail(q)[i - 1] = q[i] /\ (i - 1) + 1 = i
      /\ \A i, k \in DOMAIN Tail(q) : i + 1 = k + 1 => i = k
  BY SMT
<1>2. IsFiniteSet(DOMAIN q)
  <2>1. DOMAIN q = 1..Len(q) /\ Len(q) \in Nat
    BY SMT
  <2> QED
    BY <2>1, FS_Interval, SMT
<1>3. IsFiniteSet(NumbersIn(q, s)) /\ IsFiniteSet(U)
  <2>1. NumbersIn(q, s) \subseteq DOMAIN q /\ U \subseteq DOMAIN q
    BY DEF NumbersIn
  <2> QED
    BY <1>2, <2>1, FS_Subset
<1>4. f \in Injection(T, U)
  <2>1. f \in [T -> U]
    BY <1>1 DEF NumbersIn
  <2>2. \A i, k \in T : f[i] = f[k] => i = k
    BY <1>1 DEF NumbersIn
  <2> QED
    BY <2>1, <2>2 DEF Injection, IsInjective
<1>5. f \in Surjection(T, U)
  <2>1. ASSUME NEW u \in U PROVE \E i \in T : f[i] = u
    <3>1. u \in DOMAIN q /\ q[u] = s /\ u # 1
      BY DEF NumbersIn
    <3>2. u - 1 \in T /\ (u - 1) + 1 = u
      BY <1>1, <3>1 DEF NumbersIn
    <3> QED
      BY <3>2
  <2>2. f \in [T -> U]
    BY <1>4 DEF Injection
  <2> QED
    BY <2>1, <2>2 DEF Surjection
<1>6. Cardinality(T) = Cardinality(U)
  <2> HIDE DEF f, T, U
  <2> QED
    BY <1>3, <1>4, <1>5, FS_Injection
<1>7. CASE Head(q) = s
  <2>1. 1 \in NumbersIn(q, s)
    BY <1>1, <1>7 DEF NumbersIn
  <2>2. Cardinality(U) = Cardinality(NumbersIn(q, s)) - 1 /\ Cardinality(NumbersIn(q, s)) \in Nat
    BY <1>3, <2>1, FS_RemoveElement, FS_CardinalityType
  <2> HIDE DEF T, U
  <2>3. Cardinality(NumbersIn(q, s)) = Cardinality(T) + 1
    BY <1>6, <2>2, SMT
  <2> QED
    BY <1>7, <2>3 DEF T
<1>8. CASE Head(q) # s
  <2>1. U = NumbersIn(q, s)
    BY <1>1, <1>8 DEF NumbersIn
  <2>2. Cardinality(NumbersIn(q, s)) \in Nat
    BY <1>3, FS_CardinalityType
  <2>3. Cardinality(NumbersIn(q, s)) = Cardinality(T)
    BY <1>6, <2>1
  <2>4. Cardinality(NumbersIn(q, s)) = Cardinality(NumbersIn(q, s)) + 0
    BY <2>2, SMT
  <2> QED
    BY <1>8, <2>3, <2>4
<1> QED
  BY <1>7, <1>8

(* A step that counts nothing.                                             *)
LEMMA CountsFrame ==
  ASSUME CountsKept, \A r \in Subs : sub'[r].allowed = sub[r].allowed /\ sub'[r].processed = sub[r].processed,
         jobQ' = jobQ, \A r \in Subs : NumberWith(r)' = NumberWith(r) /\ PutOf(r)' = PutOf(r) /\ RanOf(r)' = RanOf(r)
  PROVE  CountsKept'
BY DEF CountsKept

(* A thread that goes on without a number.                                 *)
LEMMA CountsAhead ==
  ASSUME CountsKept, \A r \in Subs : sub'[r].allowed = sub[r].allowed /\ sub'[r].processed = sub[r].processed,
         jobQ' = jobQ, subDone' = subDone, NEW t \in SubThreads, NEW pc, NEW s, NEW took, NEW j,
         Proceeds(t, pc, s, took, j), pc # "allow", worker[t].pc # "allow"
  PROVE  CountsKept'
<1>1. worker'[t].pc # "allow"
  BY ThreadFields
<1>2. \A u \in SubThreads : u # t => worker'[u] = worker[u]
  BY DEF Proceeds
<1>3. ASSUME NEW r \in Subs PROVE NumberWith(r)' = NumberWith(r)
  BY <1>1, <1>2 DEF NumberWith
<1>4. ASSUME NEW r \in Subs PROVE PutOf(r)' = PutOf(r) /\ RanOf(r)' = RanOf(r)
  BY DEF PutOf, RanOf
<1> QED
  BY <1>3, <1>4, CountsFrame

(* A change of the lock leaves the counts of the subclass.                 *)
LEMMA CountsLeft ==
  ASSUME NEW s \in Subs, NEW c, Becomes(s, sub[s].allowed, sub[s].processed, c)
  PROVE  \A r \in Subs : sub'[r].allowed = sub[r].allowed /\ sub'[r].processed = sub[r].processed
<1>1. /\ sub'[s].allowed = sub[s].allowed /\ sub'[s].processed = sub[s].processed
      /\ \A r \in Subs : r # s => sub'[r] = sub[r]
  BY SubFields
<1>2. ASSUME NEW r \in Subs PROVE sub'[r].allowed = sub[r].allowed /\ sub'[r].processed = sub[r].processed
  <2>1. CASE r = s
    BY <1>1, <2>1
  <2>2. CASE r # s
    BY <1>1, <2>2
  <2> QED
    BY <2>1, <2>2
<1> QED
  BY <1>2

(* PutJob counts nothing: the number comes with PutNumber.                 *)
LEMMA CountsPut ==
  ASSUME SubInv, NEW j \in SubNames, PutJob(j)
  PROVE  CountsKept'
<1> USE DEF SubInv
<1>1. /\ subDone'[j].put = 1 /\ subDone'[j].ran = subDone[j].ran
      /\ \A k \in SubNames : k # j => subDone'[k] = subDone[k]
  <2>1. 1 \in 0..2
    BY SMT
  <2> QED
    BY <2>1, PutDone DEF PutJob
<1>2. subDone[j].put = 0 /\ worker' = worker /\ sub' = sub /\ jobQ' = jobQ
  BY DEF PutJob
<1>3. ASSUME NEW k \in SubNames
      PROVE  (subDone'[k].put = 2 <=> subDone[k].put = 2) /\ (subDone'[k].ran = 1 <=> subDone[k].ran = 1)
  <2>1. CASE k = j
    <3>1. subDone'[j].put # 2 /\ subDone[j].put # 2
      BY <1>1, <1>2, SMT
    <3> QED
      BY <1>1, <2>1, <3>1
  <2>2. CASE k # j
    BY <1>1, <2>2
  <2> QED
    BY <2>1, <2>2
<1>4. ASSUME NEW r \in Subs PROVE NumberWith(r)' = NumberWith(r) /\ PutOf(r)' = PutOf(r) /\ RanOf(r)' = RanOf(r)
  BY <1>2, <1>3 DEF NumberWith, PutOf, RanOf
<1> QED
  BY <1>2, <1>4, CountsFrame

(* PutNumber: one more was put, one more is in the queue.                  *)
LEMMA CountsNumber ==
  ASSUME SubInv, NEW j \in SubNames, PutNumber(j)
  PROVE  CountsKept'
<1> USE DEF SubInv
<1> DEFINE s == SubJobs[j]
<1>1. /\ subDone'[j].put = 2 /\ subDone'[j].ran = subDone[j].ran
      /\ \A k \in SubNames : k # j => subDone'[k] = subDone[k]
  <2>1. 2 \in 0..2
    BY SMT
  <2> QED
    BY <2>1, PutDone DEF PutNumber
<1>2. subDone[j].put = 1 /\ worker' = worker /\ sub' = sub /\ jobQ' = Append(jobQ, s)
  BY DEF PutNumber
<1>3. s \in Subs /\ jobQ \in Seq(Subs)
  BY DEF Subs, SubNames, SubTypeOK
<1>4. ASSUME NEW r \in Subs PROVE NumberWith(r)' = NumberWith(r)
  BY <1>2 DEF NumberWith
<1>5. ASSUME NEW r \in Subs PROVE RanOf(r)' = RanOf(r)
  <2>1. \A k \in SubNames : subDone'[k].ran = subDone[k].ran
    BY <1>1
  <2> QED
    BY <2>1 DEF RanOf
<1>6. j \notin PutOf(s)
  <2>1. subDone[j].put # 2
    BY <1>2, SMT
  <2> QED
    BY <2>1 DEF PutOf
<1>7. PutOf(s)' = PutOf(s) \cup {j} /\ \A r \in Subs : r # s => PutOf(r)' = PutOf(r)
  BY <1>1 DEF PutOf
<1>8. /\ sub[s].allowed + Cardinality(NumberWith(s)) + Cardinality(NumbersIn(jobQ, s)) = Cardinality(PutOf(s))
      /\ sub[s].allowed \in Nat
  BY <1>3 DEF CountsKept, SubTypeOK
<1>9. sub'[s].allowed + Cardinality(NumberWith(s)') + Cardinality(NumbersIn(jobQ', s)) = Cardinality(PutOf(s)')
  <2>1. Cardinality(PutOf(s)') = Cardinality(PutOf(s)) + 1
    BY <1>6, <1>7, CountsFinite, FS_AddElement
  <2>2. Cardinality(NumbersIn(jobQ', s)) = Cardinality(NumbersIn(jobQ, s)) + 1
    <3>1. /\ Len(jobQ) + 1 \notin NumbersIn(jobQ, s)
          /\ NumbersIn(Append(jobQ, s), s) = NumbersIn(jobQ, s) \cup {Len(jobQ) + 1}
      <4> HIDE DEF s
      <4> QED
        BY <1>3, AppendSame
    <3> QED
      BY <1>2, <3>1, CountsFinite, FS_AddElement
  <2>3. /\ Cardinality(NumberWith(s)) \in Nat /\ Cardinality(PutOf(s)) \in Nat
        /\ Cardinality(NumbersIn(jobQ, s)) \in Nat
    BY CountsFinite
  <2>4. sub'[s].allowed = sub[s].allowed /\ Cardinality(NumberWith(s)') = Cardinality(NumberWith(s))
    BY <1>2, <1>3, <1>4
  <2> QED
    BY <1>8, <2>1, <2>2, <2>3, <2>4, SMTT(30)
<1>10. ASSUME NEW r \in Subs, r # s
       PROVE  sub'[r].allowed + Cardinality(NumberWith(r)') + Cardinality(NumbersIn(jobQ', r))
                = Cardinality(PutOf(r)')
  <2>1. NumbersIn(jobQ', r) = NumbersIn(jobQ, r)
    <3>1. NumbersIn(Append(jobQ, s), r) = NumbersIn(jobQ, r)
      <4> HIDE DEF s
      <4> QED
        BY <1>3, <1>10, AppendOther
    <3> QED
      BY <1>2, <3>1
  <2> QED
    BY <1>2, <1>4, <1>7, <1>10, <2>1 DEF CountsKept
<1>11. ASSUME NEW r \in Subs PROVE sub'[r].processed = Cardinality(RanOf(r)')
  BY <1>2, <1>5 DEF CountsKept
<1>12. ASSUME NEW r \in Subs
       PROVE  sub'[r].allowed + Cardinality(NumberWith(r)') + Cardinality(NumbersIn(jobQ', r))
                = Cardinality(PutOf(r)')
  BY <1>9, <1>10
<1> QED
  BY <1>11, <1>12 DEF CountsKept

(* PopNumber: a number goes from the queue to the thread.                  *)
LEMMA CountsPop ==
  ASSUME SubInv, NEW t \in SubThreads, PopNumber(t)
  PROVE  CountsKept'
<1> USE DEF SubInv
<1>1. jobQ \in Seq(Subs) /\ jobQ # <<>> /\ jobQ' = Tail(jobQ) /\ sub' = sub /\ subDone' = subDone
  BY DEF PopNumber, SubTypeOK
<1>0. PICK h \in Subs : h = Head(jobQ) /\ Proceeds(t, "allow", h, 0, 0)
  BY PopGoes
<1>2. worker[t].pc = "pop" /\ Proceeds(t, "allow", h, 0, 0)
  BY <1>0 DEF PopNumber
<1>3. worker'[t].pc = "allow" /\ worker'[t].s = h
  BY <1>2, ThreadFields
<1>4. \A u \in SubThreads : u # t => worker'[u] = worker[u]
  BY <1>2 DEF Proceeds
<1>5. t \notin NumberWith(h) /\ NumberWith(h)' = NumberWith(h) \cup {t}
  BY <1>2, <1>3, <1>4 DEF NumberWith
<1>6. \A r \in Subs : r # h => NumberWith(r)' = NumberWith(r)
  BY <1>2, <1>3, <1>4 DEF NumberWith
<1>7. \A r \in Subs : PutOf(r)' = PutOf(r) /\ RanOf(r)' = RanOf(r)
  BY <1>1 DEF PutOf, RanOf
<1>8. ASSUME NEW r \in Subs
      PROVE  /\ sub'[r].processed = Cardinality(RanOf(r)')
             /\ sub'[r].allowed + Cardinality(NumberWith(r)') + Cardinality(NumbersIn(jobQ', r))
                  = Cardinality(PutOf(r)')
  <2>1. /\ sub[r].processed = Cardinality(RanOf(r))
        /\ sub[r].allowed + Cardinality(NumberWith(r)) + Cardinality(NumbersIn(jobQ, r)) = Cardinality(PutOf(r))
    BY DEF CountsKept
  <2>2. Cardinality(NumbersIn(jobQ, r)) = Cardinality(NumbersIn(jobQ', r)) + (IF h = r THEN 1 ELSE 0)
    BY <1>0, <1>1, TailNumbers
  <2>3. CASE h = r
    <3>1. Cardinality(NumberWith(r)') = Cardinality(NumberWith(r)) + 1
      BY <1>5, <2>3, CountsFinite, FS_AddElement
    <3>2. Cardinality(NumbersIn(jobQ, r)) = Cardinality(NumbersIn(jobQ', r)) + 1
      BY <2>2, <2>3
    <3>3. /\ Cardinality(NumberWith(r)) \in Nat /\ sub[r].allowed \in Nat /\ Cardinality(NumbersIn(jobQ, r)) \in Nat
          /\ Cardinality(NumbersIn(jobQ', r)) \in Nat
      <4>1. IsFiniteSet(NumbersIn(jobQ', r))
        <5>1. DOMAIN jobQ' = 1..Len(jobQ') /\ Len(jobQ') \in Nat
          BY <1>1, SMT
        <5>2. IsFiniteSet(DOMAIN jobQ')
          BY <5>1, FS_Interval, SMTT(30)
        <5> QED
          BY <5>2, FS_Subset DEF NumbersIn
      <4> QED
        BY <4>1, CountsFinite, FS_CardinalityType DEF SubTypeOK
    <3>4. sub[r].allowed + Cardinality(NumberWith(r)') + Cardinality(NumbersIn(jobQ', r))
            = Cardinality(PutOf(r))
      BY <2>1, <3>1, <3>2, <3>3, SMTT(30)
    <3> QED
      BY <1>1, <1>7, <2>1, <3>4
  <2>4. CASE h # r
    <3>1. Cardinality(NumbersIn(jobQ, r)) = Cardinality(NumbersIn(jobQ', r)) + 0
      BY <2>2, <2>4
    <3>2. Cardinality(NumbersIn(jobQ', r)) \in Nat
      <4>1. DOMAIN jobQ' = 1..Len(jobQ') /\ Len(jobQ') \in Nat
        BY <1>1, SMT
      <4>2. IsFiniteSet(DOMAIN jobQ')
        BY <4>1, FS_Interval, SMT
      <4>3. IsFiniteSet(NumbersIn(jobQ', r))
        BY <4>2, FS_Subset DEF NumbersIn
      <4> QED
        BY <4>3, FS_CardinalityType
    <3>3. Cardinality(NumbersIn(jobQ, r)) = Cardinality(NumbersIn(jobQ', r))
      BY <3>1, <3>2, SMTT(30)
    <3> QED
      BY <1>1, <1>6, <1>7, <2>1, <2>4, <3>3
  <2> QED
    BY <2>3, <2>4
<1> QED
  BY <1>8 DEF CountsKept

(* Allow: the number the thread has is allowed.                            *)
LEMMA CountsAllow ==
  ASSUME SubInv, NEW t \in SubThreads, Allow(t)
  PROVE  CountsKept'
<1> USE DEF SubInv
<1>0. PICK s \in Subs :
        /\ s = worker[t].s /\ Ahead(t, "lock")
        /\ Becomes(s, sub[s].allowed + 1, sub[s].processed, sub[s].locked)
  BY AllowGoes
<1>1. Ahead(t, "lock") /\ Becomes(s, sub[s].allowed + 1, sub[s].processed, sub[s].locked)
  BY <1>0
<1>2. /\ sub'[s].allowed = sub[s].allowed + 1 /\ sub'[s].processed = sub[s].processed
      /\ \A r \in Subs : r # s => sub'[r] = sub[r]
  <2>1. PICK a, b, c : a = sub[s].allowed + 1 /\ b = sub[s].processed /\ Becomes(s, a, b, c)
    BY <1>1
  <2>2. Becomes(s, a, b, c) /\ s \in Subs
    BY <1>1, <2>1
  <2>3. sub'[s].allowed = a /\ sub'[s].processed = b /\ \A r \in Subs : r # s => sub'[r] = sub[r]
    BY <2>2, SubFields
  <2> QED
    BY <2>1, <2>3
<1>3. worker'[t].pc = "lock" /\ \A u \in SubThreads : u # t => worker'[u] = worker[u]
  <2>1. worker'[t].pc = "lock"
    BY <1>1, ThreadFields DEF Ahead
  <2> QED
    BY <1>1, <2>1 DEF Ahead, Proceeds
<1>4. jobQ' = jobQ /\ subDone' = subDone /\ worker[t].pc = "allow"
  BY DEF Allow
<1>5. t \in NumberWith(s) /\ NumberWith(s)' = NumberWith(s) \ {t}
  BY <1>0, <1>3, <1>4 DEF NumberWith
<1>6. \A r \in Subs : r # s => NumberWith(r)' = NumberWith(r)
  BY <1>0, <1>3, <1>4 DEF NumberWith
<1>7. \A r \in Subs : PutOf(r)' = PutOf(r) /\ RanOf(r)' = RanOf(r)
  BY <1>4 DEF PutOf, RanOf
<1>8. ASSUME NEW r \in Subs
      PROVE  /\ sub'[r].processed = Cardinality(RanOf(r)')
             /\ sub'[r].allowed + Cardinality(NumberWith(r)') + Cardinality(NumbersIn(jobQ', r))
                  = Cardinality(PutOf(r)')
  <2>1. /\ sub[r].processed = Cardinality(RanOf(r))
        /\ sub[r].allowed + Cardinality(NumberWith(r)) + Cardinality(NumbersIn(jobQ, r)) = Cardinality(PutOf(r))
    BY DEF CountsKept
  <2>2. CASE r = s
    <3>1. Cardinality(NumberWith(r)') = Cardinality(NumberWith(r)) - 1
      BY <1>5, <2>2, CountsFinite, FS_RemoveElement
    <3>2. /\ Cardinality(NumberWith(r)) \in Nat /\ sub[r].allowed \in Nat /\ Cardinality(NumbersIn(jobQ, r)) \in Nat
      BY CountsFinite DEF SubTypeOK
    <3>3. sub[r].allowed + 1 + Cardinality(NumberWith(r)') + Cardinality(NumbersIn(jobQ, r))
            = Cardinality(PutOf(r))
      BY <2>1, <3>1, <3>2, SMT
    <3>4. sub'[r].allowed = sub[r].allowed + 1 /\ sub'[r].processed = sub[r].processed
      BY <1>2, <2>2
    <3> QED
      BY <1>4, <1>7, <2>1, <3>3, <3>4
  <2>3. CASE r # s
    BY <1>2, <1>4, <1>6, <1>7, <2>1, <2>3
  <2> QED
    BY <2>2, <2>3
<1> QED
  BY <1>8 DEF CountsKept

(* RunJob: the job that has run is counted.                                *)
LEMMA CountsRun ==
  ASSUME SubInv, NEW t \in SubThreads, RunJob(t)
  PROVE  CountsKept'
<1> USE DEF SubInv
<1>0. PICK s \in Subs, j \in SubNames : s = worker[t].s /\ j = worker[t].job
  BY RunCounts
<1>1. /\ SubJobs[j] = s /\ subDone[j].ran = 0
      /\ subDone'[j].ran = 1 /\ subDone'[j].put = subDone[j].put
      /\ \A k \in SubNames : k # j => subDone'[k] = subDone[k]
  BY <1>0, RunCounts
<1>2. /\ sub'[s].allowed = sub[s].allowed /\ sub'[s].processed = sub[s].processed + 1
      /\ \A r \in Subs : r # s => sub'[r] = sub[r]
  <2>1. PICK a, b, c : a = sub[s].allowed /\ b = sub[s].processed + 1 /\ Becomes(s, a, b, c)
    BY <1>0, RunCounts
  <2>2. Becomes(s, a, b, c) /\ s \in Subs
    BY <1>1, <2>1
  <2>3. sub'[s].allowed = a /\ sub'[s].processed = b /\ \A r \in Subs : r # s => sub'[r] = sub[r]
    BY <2>2, SubFields
  <2> QED
    BY <2>1, <2>3
<1>3. worker'[t].pc = "loop" /\ \A u \in SubThreads : u # t => worker'[u] = worker[u]
  <2>1. Proceeds(t, "loop", worker[t].s, worker[t].took, 0)
    BY RunGoes
  <2>2. worker'[t].pc = "loop"
    BY <2>1, ThreadFields
  <2> QED
    BY <2>1, <2>2 DEF Proceeds
<1>4. jobQ' = jobQ /\ worker[t].pc = "run"
  BY DEF RunJob
<1>5. \A r \in Subs : NumberWith(r)' = NumberWith(r)
  BY <1>3, <1>4 DEF NumberWith
<1>6. \A r \in Subs : PutOf(r)' = PutOf(r)
  <2>1. \A k \in SubNames : subDone'[k].put = subDone[k].put
    BY <1>1
  <2> QED
    BY <2>1 DEF PutOf
<1>7. j \notin RanOf(s)
  <2>1. subDone[j].ran # 1
    BY <1>1, SMT
  <2> QED
    BY <2>1 DEF RanOf
<1>8. RanOf(s)' = RanOf(s) \cup {j} /\ \A r \in Subs : r # s => RanOf(r)' = RanOf(r)
  <2>1. ASSUME NEW k \in SubNames PROVE subDone'[k].ran = 1 <=> subDone[k].ran = 1 \/ k = j
    BY <1>1
  <2>2. {k \in SubNames : SubJobs[k] = s /\ subDone'[k].ran = 1}
          = {k \in SubNames : SubJobs[k] = s /\ subDone[k].ran = 1} \cup {j}
    BY <1>1, <2>1
  <2>3. ASSUME NEW r \in Subs, r # s
        PROVE  {k \in SubNames : SubJobs[k] = r /\ subDone'[k].ran = 1}
                 = {k \in SubNames : SubJobs[k] = r /\ subDone[k].ran = 1}
    BY <1>1, <2>1, <2>3
  <2> QED
    BY <2>2, <2>3 DEF RanOf
<1>9. ASSUME NEW r \in Subs PROVE sub'[r].processed = Cardinality(RanOf(r)')
  <2>1. sub[r].processed = Cardinality(RanOf(r))
    BY DEF CountsKept
  <2>2. CASE r = s
    <3>1. Cardinality(RanOf(s)') = Cardinality(RanOf(s)) + 1
      BY <1>7, <1>8, CountsFinite, FS_AddElement
    <3> QED
      BY <1>2, <2>1, <2>2, <3>1
  <2>3. CASE r # s
    BY <1>2, <1>8, <2>1, <2>3
  <2> QED
    BY <2>2, <2>3
<1>10. ASSUME NEW r \in Subs
       PROVE  sub'[r].allowed + Cardinality(NumberWith(r)') + Cardinality(NumbersIn(jobQ', r))
                = Cardinality(PutOf(r)')
  <2>1. sub'[r].allowed = sub[r].allowed
    BY <1>2
  <2> QED
    BY <1>4, <1>5, <1>6, <2>1 DEF CountsKept
<1> QED
  BY <1>9, <1>10 DEF CountsKept

(* The steps keep the counts.                                              *)
LEMMA CountsStep ==
  ASSUME SubInv, SubNext
  PROVE  CountsKept'
<1> USE DEF SubInv
<1>1. ASSUME NEW j \in DOMAIN SubJobs, PutJob(j) PROVE CountsKept'
  BY <1>1, CountsPut DEF SubNames
<1>2. ASSUME NEW j \in DOMAIN SubJobs, PutNumber(j) PROVE CountsKept'
  BY <1>2, CountsNumber DEF SubNames
<1>3. ASSUME NEW t \in SubThreads, PopNumber(t) PROVE CountsKept'
  BY <1>3, CountsPop
<1>4. ASSUME NEW t \in SubThreads, NEW pc \in SubPcs \ {"allow"}, Ahead(t, pc), worker[t].pc # "allow",
             jobQ' = jobQ, subDone' = subDone,
             \A r \in Subs : sub'[r].allowed = sub[r].allowed /\ sub'[r].processed = sub[r].processed
      PROVE  CountsKept'
  BY <1>4, CountsAhead DEF Ahead
<1>5. ASSUME NEW t \in SubThreads, Allow(t) PROVE CountsKept'
  BY <1>5, CountsAllow
<1>6. ASSUME NEW t \in SubThreads, TryLock(t) PROVE CountsKept'
  <2>1. PICK pc \in {"pop", "post", "wait", "loop"} : Ahead(t, pc)
    BY <1>6, LockGoes
  <2>2. worker[t].pc # "allow" /\ jobQ' = jobQ /\ subDone' = subDone /\ pc \in SubPcs \ {"allow"}
    BY <1>6 DEF TryLock, SubPcs
  <2>3. \A r \in Subs : sub'[r].allowed = sub[r].allowed /\ sub'[r].processed = sub[r].processed
    <3>1. CASE sub' = sub
      BY <3>1
    <3>2. CASE Becomes(worker[t].s, sub[worker[t].s].allowed, sub[worker[t].s].processed, TRUE)
      <4>1. PICK c : Becomes(worker[t].s, sub[worker[t].s].allowed, sub[worker[t].s].processed, c)
        BY <3>2
      <4>2. worker[t].s \in Subs
        BY <1>6, LockGoes
      <4> QED
        BY <4>1, <4>2, CountsLeft
    <3> QED
      BY <1>6, <3>1, <3>2, LockGoes
  <2> QED
    BY <1>4, <2>1, <2>2, <2>3
<1>7. ASSUME NEW t \in SubThreads, SemWait(t) PROVE CountsKept'
  <2>1. PICK pc \in {"loop", "wait"} : Proceeds(t, pc, worker[t].s, worker[t].took + 1, worker[t].job)
    BY <1>7, WaitGoes
  <2>2. worker[t].pc # "allow" /\ jobQ' = jobQ /\ subDone' = subDone /\ sub' = sub /\ pc # "allow"
    BY <1>7 DEF SemWait
  <2> QED
    BY <2>1, <2>2, CountsAhead
<1>8. ASSUME NEW t \in SubThreads, Loop(t) PROVE CountsKept'
  <2>1. worker[t].pc # "allow" /\ jobQ' = jobQ /\ subDone' = subDone /\ sub' = sub
    BY <1>8 DEF Loop
  <2> QED
    BY <1>4, <1>8, <2>1, LoopGoes DEF SubPcs
<1>9. ASSUME NEW t \in SubThreads, TakeJob(t) PROVE CountsKept'
  <2>1. worker[t].pc # "allow" /\ jobQ' = jobQ /\ subDone' = subDone /\ sub' = sub
    BY <1>9 DEF TakeJob
  <2>2. Proceeds(t, "run", worker[t].s, worker[t].took, Head(subQ[worker[t].s]))
    BY <1>9, TakeGoes
  <2> QED
    BY <2>1, <2>2, CountsAhead
<1>10. ASSUME NEW t \in SubThreads, RunJob(t) PROVE CountsKept'
  BY <1>10, CountsRun
<1>11. ASSUME NEW t \in SubThreads, Unlock(t) PROVE CountsKept'
  <2>1. worker[t].pc # "allow" /\ jobQ' = jobQ /\ subDone' = subDone
    BY <1>11 DEF Unlock
  <2>2. worker[t].s \in Subs /\ Ahead(t, "again")
    BY <1>11, UnlockGoes
  <2>3. PICK c : Becomes(worker[t].s, sub[worker[t].s].allowed, sub[worker[t].s].processed, c)
    BY <1>11, UnlockGoes
  <2>4. \A r \in Subs : sub'[r].allowed = sub[r].allowed /\ sub'[r].processed = sub[r].processed
    BY <2>2, <2>3, CountsLeft
  <2> QED
    BY <1>4, <2>1, <2>2, <2>4 DEF SubPcs
<1>12. ASSUME NEW t \in SubThreads, LookAgain(t) PROVE CountsKept'
  <2>1. worker[t].pc # "allow" /\ jobQ' = jobQ /\ subDone' = subDone /\ sub' = sub
    BY <1>12 DEF LookAgain
  <2> QED
    BY <1>4, <1>12, <2>1, AgainGoes DEF SubPcs
<1>13. ASSUME NEW t \in SubThreads, SemPostBack(t) PROVE CountsKept'
  <2>1. \/ Proceeds(t, "pop", 0, 0, 0)
        \/ Proceeds(t, "post", worker[t].s, worker[t].took - 1, worker[t].job)
    BY <1>13, PostGoes
  <2>2. worker[t].pc # "allow" /\ jobQ' = jobQ /\ subDone' = subDone /\ sub' = sub
    BY <1>13 DEF SemPostBack
  <2> QED
    BY <2>1, <2>2, CountsAhead
<1> HIDE DEF SubInv
<1> QED
  BY <1>1, <1>2, <1>3, <1>5, <1>6, <1>7, <1>8, <1>9, <1>10, <1>11, <1>12, <1>13 DEF SubNext

(* The steps keep the invariant.                                           *)
LEMMA SubInvStep ==
  ASSUME SubInv, SubNext
  PROVE  SubInv'
BY SubTypeStep, TokensStep, LocksStep, WorkStep, PlacesStep, CountsStep DEF SubInv

(* At the start nothing is put and every token is in the semaphore.        *)
LEMMA SubInvInit ==
  ASSUME SubInit
  PROVE  SubInv
<1>1. \A t \in SubThreads : worker[t] = AtRest
  BY DEF SubInit
<1>2. \A t \in SubThreads : worker[t].pc = "pop" /\ worker[t].s = 0 /\ worker[t].took = 0 /\ worker[t].job = 0
  BY <1>1, SMT DEF AtRest
<1>3. \A s \in Subs : subQ[s] = <<>> /\ sub[s].allowed = 0 /\ sub[s].processed = 0 /\ sub[s].locked = FALSE
  BY DEF SubInit
<1>4. \A j \in SubNames : subDone[j].put = 0 /\ subDone[j].ran = 0
  BY DEF SubInit, SubNames
<1>5. SubTypeOK
  <2>1. AtRest \in WorkerStates
    BY SMT DEF AtRest, WorkerStates, SubPcs
  <2>2. worker \in [SubThreads -> WorkerStates]
    BY <2>1 DEF SubInit
  <2>3. sub \in [Subs -> [allowed : Nat, processed : Nat, locked : BOOLEAN]]
    <3>1. [allowed |-> 0, processed |-> 0, locked |-> FALSE]
            \in [allowed : Nat, processed : Nat, locked : BOOLEAN]
      BY SMT
    <3> QED
      BY <3>1 DEF SubInit
  <2>4. subDone \in [SubNames -> [put : 0..2, ran : 0..1]]
    <3>1. [put |-> 0, ran |-> 0] \in [put : 0..2, ran : 0..1]
      BY SMT
    <3> QED
      BY <3>1 DEF SubInit, SubNames
  <2>5. jobQ \in Seq(Subs) /\ subQ \in [Subs -> Seq(SubNames)]
    <3>1. <<>> \in Seq(Subs) /\ <<>> \in Seq(SubNames)
      BY SMT
    <3> QED
      BY <3>1 DEF SubInit
  <2>6. tokens \in Nat
    BY SubAssumption DEF SubInit
  <2> QED
    BY <1>2, <2>2, <2>3, <2>4, <2>5, <2>6 DEF SubTypeOK, WorkerStates
<1>6. TokensKept
  <2>1. \A t \in SubThreads : TookRight(t)
    BY <1>2 DEF TookRight, TookAt
  <2>2. TokensTaken = {}
    <3>1. \A p \in SubThreads \X (1..Tokens) : ~ (p[2] <= worker[p[1]].took)
      <4>1. ASSUME NEW p \in SubThreads \X (1..Tokens) PROVE ~ (p[2] <= worker[p[1]].took)
        <5>1. p[1] \in SubThreads /\ p[2] \in 1..Tokens
          BY SMT
        <5>2. worker[p[1]].took = 0
          BY <1>2, <5>1
        <5> QED
          BY <5>1, <5>2, SMT
      <4> QED
        BY <4>1
    <3> QED
      BY <3>1 DEF TokensTaken
  <2>3. Cardinality(TokensTaken) = 0
    BY <2>2, FS_EmptySet
  <2>4. tokens + Cardinality(TokensTaken) = Tokens
    BY <2>3, SubAssumption, SMTT(30) DEF SubInit
  <2> QED
    BY <2>1, <2>4 DEF TokensKept
<1>7. LocksKept
  <2>1. \A t \in SubThreads, s \in Subs : ~ Inside(t, s)
    BY <1>2 DEF Inside, InsidePcs
  <2> QED
    BY <1>3, <2>1 DEF LocksKept
<1>8. WorkKept
  <2>1. \A s \in Subs : ~ MoreToRun(s)
    BY <1>3, SMT DEF MoreToRun
  <2> QED
    BY <1>2, <2>1 DEF WorkKept
<1>9. PlacesKept
  <2>1. \A j \in SubNames : ~ Waiting(j) /\ subDone[j].ran # 1
    BY <1>4, SMT DEF Waiting
  <2>2. \A t \in SubThreads : worker[t].pc # "run"
    BY <1>2
  <2>3. \A s \in Subs : DOMAIN subQ[s] = {}
    BY <1>3, SMT
  <2> QED
    BY <2>1, <2>2, <2>3
    DEF PlacesKept, QueuesDistinct, QueuedRight, RunningRight, RanRight, NoneLost, NoRepeats, Occurs, Runs
<1>10. CountsKept
  <2>1. ASSUME NEW s \in Subs PROVE NumberWith(s) = {} /\ PutOf(s) = {} /\ RanOf(s) = {} /\ NumbersIn(jobQ, s) = {}
    <3>1. DOMAIN jobQ = {}
      BY SMT DEF SubInit
    <3>2. \A j \in SubNames : subDone[j].put # 2 /\ subDone[j].ran # 1
      BY <1>4, SMT
    <3> QED
      BY <1>2, <3>1, <3>2 DEF NumberWith, PutOf, RanOf, NumbersIn
  <2>2. \A s \in Subs : sub[s].allowed = 0 /\ sub[s].processed = 0
    BY <1>3
  <2>3. Cardinality({}) = 0 /\ 0 + 0 + 0 = 0
    BY FS_EmptySet, SMT
  <2>4. ASSUME NEW s \in Subs
        PROVE  /\ sub[s].allowed + Cardinality(NumberWith(s)) + Cardinality(NumbersIn(jobQ, s)) = Cardinality(PutOf(s))
               /\ sub[s].processed = Cardinality(RanOf(s))
    BY <2>1, <2>2, <2>3
  <2> QED
    BY <2>4 DEF CountsKept
<1> QED
  BY <1>5, <1>6, <1>7, <1>8, <1>9, <1>10 DEF SubInv

(* No two jobs of a subclass at a time, and one that is alone is alone: it *)
(* has all the tokens.                                                     *)
LEMMA RunApart ==
  ASSUME SubInv, NEW t \in Running, NEW u \in Running, t # u
  PROVE  worker[t].s # worker[u].s /\ worker[t].s # Alone
<1> USE DEF SubInv
<1>1. t \in SubThreads /\ u \in SubThreads /\ worker[t].pc = "run" /\ worker[u].pc = "run"
  BY DEF Running
<1>2. worker[t].s \in Subs /\ worker[u].s \in Subs
  BY <1>1 DEF SubTypeOK
<1>3. worker[t].s # worker[u].s
  <2>1. Inside(t, worker[t].s) /\ Inside(u, worker[u].s)
    BY <1>1 DEF Inside, InsidePcs
  <2>2. \A v, w \in SubThreads : Inside(v, worker[t].s) /\ Inside(w, worker[t].s) => v = w
    BY <1>2 DEF LocksKept
  <2> QED
    BY <1>1, <2>1, <2>2
<1>4. ASSUME worker[t].s = Alone PROVE FALSE
  <2>1. worker[t].took = Wanted(worker[t].s) /\ worker[u].took = Wanted(worker[u].s)
    BY <1>1 DEF TokensKept, TookRight, TookAt
  <2>2. worker[t].took = Tokens /\ worker[u].took >= 1
    <3>1. Wanted(worker[u].s) \in 1..Tokens
      BY WantedRange
    <3>2. Wanted(worker[t].s) = Tokens
      BY <1>4 DEF Wanted
    <3> QED
      BY <2>1, <3>1, <3>2, SubAssumption, SMTT(30)
  <2> DEFINE All == {t} \X (1..Tokens)
             One2 == {<<u, 1>>}
  <2>3. All \cup One2 \subseteq TokensTaken
    <3>1. ASSUME NEW k \in 1..Tokens PROVE <<t, k>> \in TokensTaken
      <4>1. k <= worker[t].took
        BY <2>2, SubAssumption, SMTT(30)
      <4> QED
        BY <1>1, <4>1 DEF TokensTaken
    <3>2. <<u, 1>> \in TokensTaken
      <4>1. 1 \in 1..Tokens /\ 1 <= worker[u].took
        BY <2>2, SubAssumption, SMT
      <4> QED
        BY <1>1, <4>1 DEF TokensTaken
    <3>3. \A p \in All : \E k \in 1..Tokens : p = <<t, k>>
      BY SMT
    <3> QED
      BY <3>1, <3>2, <3>3
  <2>4. IsFiniteSet(All) /\ Cardinality(All) = Tokens
    <3>1. IsFiniteSet(1..Tokens) /\ Cardinality(1..Tokens) = Tokens
      BY SubAssumption, FS_Interval, SMT
    <3>2. IsFiniteSet({t}) /\ Cardinality({t}) = 1
      BY FS_Singleton
    <3>3. IsFiniteSet(All) /\ Cardinality(All) = 1 * Tokens
      BY <3>1, <3>2, FS_Product
    <3> QED
      BY <3>3, SubAssumption, SMT
  <2>5. <<u, 1>> \notin All
    <3>1. \A k \in 1..Tokens : <<u, 1>> # <<t, k>>
      BY SMT
    <3>2. \A p \in All : \E k \in 1..Tokens : p = <<t, k>>
      BY SMT
    <3> QED
      BY <3>1, <3>2
  <2>6. Cardinality(All \cup One2) = Tokens + 1
    BY <2>4, <2>5, FS_AddElement
  <2>7. Cardinality(All \cup One2) <= Cardinality(TokensTaken) /\ Cardinality(TokensTaken) \in Nat
    BY <2>3, TakenFinite, FS_Subset, FS_CardinalityType
  <2>8. tokens + Cardinality(TokensTaken) = Tokens /\ tokens \in Nat
    BY DEF TokensKept, SubTypeOK
  <2> QED
    BY <2>6, <2>7, <2>8, SubAssumption, SMTT(30)
<1> QED
  BY <1>3, <1>4

(* What has run was put.                                                   *)
LEMMA RanWasPut ==
  ASSUME SubInv, NEW s \in Subs, \A j \in SubNames : subDone[j].put # 1
  PROVE  RanOf(s) \subseteq PutOf(s)
<1>1. ASSUME NEW j \in SubNames, subDone[j].ran = 1 PROVE subDone[j].put = 2
  <2>1. subDone[j].put # 0 /\ subDone[j].put # 1
    BY <1>1 DEF SubInv, PlacesKept, RanRight
  <2>2. subDone[j].put \in 0..2
    BY DEF SubInv, SubTypeOK
  <2> QED
    BY <2>1, <2>2, SMT
<1> QED
  BY <1>1 DEF RanOf, PutOf

(* A thread that takes a job finds one.                                    *)
LEMMA TakeFinds ==
  ASSUME SubInv, NEW t \in SubThreads, worker[t].pc = "take"
  PROVE  subQ[worker[t].s] # <<>>
<1> USE DEF SubInv
<1>1. PICK s \in Subs : s = worker[t].s
  BY DEF SubTypeOK
<1>2. MoreToRun(s)
  BY <1>1 DEF WorkKept
<1>3. Cardinality(RanOf(s)) < Cardinality(PutOf(s))
  <2>1. /\ Cardinality(NumberWith(s)) \in Nat /\ Cardinality(NumbersIn(jobQ, s)) \in Nat
        /\ Cardinality(PutOf(s)) \in Nat /\ Cardinality(RanOf(s)) \in Nat /\ sub[s].allowed \in Nat
    BY CountsFinite DEF SubTypeOK
  <2>2. /\ sub[s].allowed + Cardinality(NumberWith(s)) + Cardinality(NumbersIn(jobQ, s)) = Cardinality(PutOf(s))
        /\ sub[s].processed = Cardinality(RanOf(s)) /\ sub[s].processed < sub[s].allowed
    BY <1>2 DEF CountsKept, MoreToRun
  <2> QED
    BY <2>1, <2>2, SMT
<1>4. PICK j \in PutOf(s) : j \notin RanOf(s)
  <2>1. ASSUME PutOf(s) \subseteq RanOf(s) PROVE FALSE
    <3>1. Cardinality(PutOf(s)) <= Cardinality(RanOf(s))
      BY <2>1, CountsFinite, FS_Subset
    <3>2. Cardinality(PutOf(s)) \in Nat /\ Cardinality(RanOf(s)) \in Nat
      BY CountsFinite
    <3> QED
      BY <1>3, <3>1, <3>2, SMTT(30)
  <2> QED
    BY <2>1
<1>5. j \in SubNames /\ SubJobs[j] = s /\ subDone[j].put = 2 /\ subDone[j].ran # 1
  BY <1>4 DEF PutOf, RanOf
<1>6. Waiting(j)
  <2>1. subDone[j].ran \in 0..1
    BY <1>5 DEF SubTypeOK
  <2>2. subDone[j].ran = 0 /\ subDone[j].put # 0
    BY <1>5, <2>1, SMT
  <2> QED
    BY <2>2 DEF Waiting
<1>7. ASSUME NEW u \in SubThreads, Runs(u, j) PROVE FALSE
  <2>1. Inside(u, s) /\ Inside(t, s)
    BY <1>1, <1>5, <1>7 DEF PlacesKept, RunningRight, Runs, Inside, InsidePcs
  <2>2. u = t
    BY <2>1 DEF LocksKept
  <2> QED
    BY <1>7, <2>2 DEF Runs
<1>8. Occurs(subQ[s], j)
  BY <1>5, <1>6, <1>7 DEF PlacesKept, NoneLost
<1>9. DOMAIN <<>> = {}
  BY SMT
<1> QED
  BY <1>1, <1>8, <1>9 DEF Occurs

(* The invariant gives what the class promises.                            *)
LEMMA SubInvRight ==
  ASSUME SubInv
  PROVE  SublistsRight
<1> USE DEF SubInv
<1>1. \A t, u \in Running : t # u => worker[t].s # worker[u].s /\ Alone \notin {worker[t].s, worker[u].s}
  BY RunApart
<1>2. \A t \in SubThreads : worker[t].pc = "take" => subQ[worker[t].s] # <<>>
  BY TakeFinds
<1>3. ASSUME NEW j \in DOMAIN SubJobs PROVE subDone[j].ran <= 1
  <2>1. subDone[j].ran \in 0..1
    BY DEF SubTypeOK, SubNames
  <2> QED
    BY <2>1, SMT
<1>4. ASSUME Resting PROVE tokens = Tokens
  <2>1. \A t \in SubThreads : worker[t].took = 0
    BY <1>4 DEF Resting, TokensKept, TookRight, TookAt
  <2>2. ASSUME NEW p \in SubThreads \X (1..Tokens) PROVE ~ (p[2] <= worker[p[1]].took)
    <3>1. p[1] \in SubThreads /\ p[2] \in 1..Tokens
      BY SMT
    <3>2. worker[p[1]].took = 0
      BY <2>1, <3>1
    <3> QED
      BY <3>1, <3>2, SMTT(30)
  <2>3. TokensTaken = {}
    BY <2>2 DEF TokensTaken
  <2>4. Cardinality(TokensTaken) = 0
    BY <2>3, FS_EmptySet
  <2>5. tokens + Cardinality(TokensTaken) = Tokens /\ tokens \in Nat
    BY DEF TokensKept, SubTypeOK
  <2> QED
    BY <2>4, <2>5, SubAssumption, SMTT(30)
<1>5. ASSUME Resting, \A j \in DOMAIN SubJobs : subDone[j].put # 1, NEW j \in DOMAIN SubJobs, subDone[j].put = 2
      PROVE  subDone[j].ran = 1
  <2> DEFINE s == SubJobs[j]
  <2>1. s \in Subs /\ j \in PutOf(s)
    BY <1>5 DEF Subs, PutOf, SubNames
  <2> HIDE DEF s
  <2>2. ~ MoreToRun(s)
    <3>1. \A t \in SubThreads : ~ Cares(t, s)
      BY <1>5 DEF Resting, Cares, CaringPcs, InsidePcs
    <3> QED
      BY <2>1, <3>1 DEF WorkKept
  <2>3. NumberWith(s) = {} /\ NumbersIn(jobQ, s) = {}
    <3>1. DOMAIN jobQ = {}
      BY <1>5, SMT DEF Resting
    <3> QED
      BY <1>5, <3>1 DEF Resting, NumberWith, NumbersIn
  <2>4. Cardinality(NumberWith(s)) = 0 /\ Cardinality(NumbersIn(jobQ, s)) = 0
    BY <2>3, FS_EmptySet
  <2>5. /\ sub[s].allowed + Cardinality(NumberWith(s)) + Cardinality(NumbersIn(jobQ, s)) = Cardinality(PutOf(s))
        /\ sub[s].processed = Cardinality(RanOf(s)) /\ sub[s].allowed \in Nat /\ sub[s].processed \in Nat
    BY <2>1 DEF CountsKept, SubTypeOK
  <2>6. RanOf(s) \subseteq PutOf(s) /\ IsFiniteSet(PutOf(s)) /\ Cardinality(PutOf(s)) \in Nat
    BY <1>5, <2>1, RanWasPut, CountsFinite DEF SubNames
  <2>7. Cardinality(RanOf(s)) <= Cardinality(PutOf(s))
    BY <2>6, FS_Subset
  <2>8. Cardinality(RanOf(s)) = Cardinality(PutOf(s))
    <3>1. ~ (sub[s].processed < sub[s].allowed)
      BY <2>2 DEF MoreToRun
    <3> QED
      BY <2>4, <2>5, <2>6, <2>7, <3>1, SMTT(30)
  <2>9. RanOf(s) = PutOf(s)
    BY <2>6, <2>8, FS_Subset
  <2> QED
    BY <2>1, <2>9 DEF RanOf
<1> QED
  BY <1>1, <1>2, <1>3, <1>4, <1>5 DEF SublistsRight

-----------------------------------------------------------------------------
(* The timer of a job *)

Times == {0} \cup Instants

TmRecord == [real : Times, wake : Times, heap : BOOLEAN]
TmTypeOK ==
  /\ tm \in TmRecord /\ entries \in Nat
  /\ alarm \in BOOLEAN /\ owner \in BOOLEAN /\ job \in {"idle", "queue", "alarm"}
  /\ mgr \in [pc : {"idle", "read", "insert", "fire"}, r : Times]
  /\ instant \in Nat /\ setsLeft \in Nat

(* The time that is wanted reaches the heap or the alarm.  A time the home *)
(* thread has read and that is not wanted any more will be corrected by an *)
(* entry that is queued or about to be.                                    *)
WakeKept ==
  /\ tm.real > 0 =>
       \/ entries > 0 \/ job # "idle" \/ mgr.pc = "read" \/ mgr = [pc |-> "insert", r |-> tm.real]
       \/ tm.wake = tm.real /\ (tm.heap \/ alarm \/ mgr.pc = "fire")
  /\ tm.heap => nextAt = tm.wake
  /\ mgr.pc = "insert" /\ mgr.r # tm.real => entries > 0 \/ job # "idle"

(* Every place has its reference; a handler that is about to queue the job *)
(* relies on the creator's.                                                *)
PlacesCounted ==
  timerRefs = One(owner) + One(tm.heap) + entries + One(alarm) + One(mgr.pc # "idle") + One(job = "alarm")
RefsKept == PlacesCounted /\ (job = "queue" => owner)

TimerInv == TmTypeOK /\ WakeKept /\ RefsKept

(* Times are natural numbers, and 0 is one.                                *)
LEMMA TimesNat == Times \subseteq Nat /\ 0 \in Times
BY TmAssumption, SMT DEF Times, Instants

(* The fields of a timer.                                                  *)
LEMMA TmFields ==
  ASSUME NEW x \in TmRecord
  PROVE  x.real \in Times /\ x.wake \in Times /\ x.heap \in BOOLEAN
BY DEF TmRecord

(* A timer after do_immediate_timer_insert is in the heap exactly when     *)
(* the time is not 0.                                                      *)
LEMMA InsertedFields ==
  ASSUME NEW x \in TmRecord, NEW r \in Times
  PROVE  /\ Inserted(x, r) \in TmRecord
         /\ Inserted(x, r).real = x.real /\ Inserted(x, r).wake = r /\ (Inserted(x, r).heap <=> r > 0)
<1>1. (r > 0) \in BOOLEAN
  BY TimesNat, SMT
<1> QED
  BY <1>1 DEF Inserted, TmRecord

(* A handler's change of the time it wants leaves the rest.                *)
LEMMA WantedFields ==
  ASSUME NEW x \in TmRecord, NEW r \in Times
  PROVE  /\ [x EXCEPT !.real = r] \in TmRecord
         /\ [x EXCEPT !.real = r].real = r /\ [x EXCEPT !.real = r].wake = x.wake
         /\ [x EXCEPT !.real = r].heap = x.heap
BY DEF TmRecord

(* A timer that is taken out of the heap keeps its times.                  *)
LEMMA OutFields ==
  ASSUME NEW x \in TmRecord
  PROVE  /\ [x EXCEPT !.heap = FALSE] \in TmRecord
         /\ [x EXCEPT !.heap = FALSE].real = x.real /\ [x EXCEPT !.heap = FALSE].wake = x.wake
         /\ [x EXCEPT !.heap = FALSE].heap = FALSE
BY DEF TmRecord

(* A condition counts for one reference or none.                           *)
LEMMA OneOf ==
  ASSUME NEW b
  PROVE  One(b) \in Nat /\ (b => One(b) = 1) /\ (~b => One(b) = 0)
<1>1. CASE b
  BY <1>1, SMT DEF One
<1>2. CASE ~b
  BY <1>2, SMT DEF One
<1> QED
  BY <1>1, <1>2

(* do_immediate_timer_insert keeps the heap's reference right.             *)
LEMMA RefsAfterCounts ==
  ASSUME NEW n \in Int, NEW x \in TmRecord, NEW r \in Times
  PROVE  RefsAfter(n, x, r) = n - One(x.heap) + One(Inserted(x, r).heap)
<1>1. r \in Nat
  BY TimesNat
<1>2. CASE x.heap /\ r > 0
  <2>1. One(x.heap) = 1 /\ One(Inserted(x, r).heap) = 1
    BY <1>2, OneOf, InsertedFields
  <2>2. RefsAfter(n, x, r) = n
    BY <1>1, <1>2, SMTT(30) DEF RefsAfter
  <2> QED
    BY <2>1, <2>2, SMT
<1>3. CASE x.heap /\ ~ (r > 0)
  <2>1. One(x.heap) = 1 /\ One(Inserted(x, r).heap) = 0
    BY <1>3, OneOf, InsertedFields
  <2>2. RefsAfter(n, x, r) = n - 1
    BY <1>1, <1>3, SMTT(30) DEF RefsAfter
  <2> QED
    BY <2>1, <2>2, SMT
<1>4. CASE ~ x.heap /\ r > 0
  <2>1. One(x.heap) = 0 /\ One(Inserted(x, r).heap) = 1
    BY <1>4, OneOf, InsertedFields
  <2>2. RefsAfter(n, x, r) = n + 1
    BY <1>1, <1>4, SMTT(30) DEF RefsAfter
  <2> QED
    BY <2>1, <2>2, SMT
<1>5. CASE ~ x.heap /\ ~ (r > 0)
  <2>1. One(x.heap) = 0 /\ One(Inserted(x, r).heap) = 0
    BY <1>5, OneOf, InsertedFields
  <2>2. RefsAfter(n, x, r) = n
    BY <1>1, <1>5, SMT DEF RefsAfter
  <2> QED
    BY <2>1, <2>2, SMT
<1> QED
  BY <1>2, <1>3, <1>4, <1>5

(* At the start no time is wanted.                                         *)
LEMMA TimerInvInit ==
  ASSUME TmInit
  PROVE  TimerInv
<1>1. tm \in TmRecord /\ mgr \in [pc : {"idle", "read", "insert", "fire"}, r : Times]
  BY TimesNat DEF TmInit, TmRecord
<1>2. entries \in Nat /\ instant \in Nat /\ setsLeft \in Nat
  BY TmAssumption, SMT DEF TmInit
<1>3. TmTypeOK
  BY <1>1, <1>2 DEF TmInit, TmTypeOK
<1>4. WakeKept
  BY SMT DEF TmInit, WakeKept
<1>5. RefsKept
  BY SMT DEF TmInit, RefsKept, PlacesCounted, One
<1> QED
  BY <1>3, <1>4, <1>5 DEF TimerInv

(* The times at hand.                                                      *)
LEMMA TimesAtHand ==
  ASSUME TimerInv
  PROVE  /\ tm \in TmRecord /\ tm.real \in Nat /\ tm.wake \in Nat /\ tm.real \in Times
         /\ mgr.r \in Times /\ mgr.r \in Nat /\ timerRefs \in Int /\ entries \in Nat
<1>1. tm \in TmRecord /\ entries \in Nat /\ mgr.r \in Times
  BY DEF TimerInv, TmTypeOK
<1>2. timerRefs = One(owner) + One(tm.heap) + entries + One(alarm) + One(mgr.pc # "idle") + One(job = "alarm")
  BY DEF TimerInv, RefsKept, PlacesCounted
<1>3. One(owner) \in Nat /\ One(tm.heap) \in Nat /\ One(alarm) \in Nat
  BY OneOf
<1>4. One(mgr.pc # "idle") \in Nat /\ One(job = "alarm") \in Nat
  BY OneOf
<1>5. timerRefs \in Int
  BY <1>1, <1>2, <1>3, <1>4, SMTT(30)
<1> QED
  BY <1>1, <1>5, TmFields, TimesNat

(* What a step does to the timer.                                          *)
LEMMA NearFields ==
  ASSUME TimerInv, NEW timeout \in Times, tm' = [Inserted(tm, timeout) EXCEPT !.real = timeout]
  PROVE  /\ tm' \in TmRecord /\ tm'.real = timeout /\ tm'.wake = timeout /\ (tm'.heap <=> timeout > 0)
         /\ tm'.heap = Inserted(tm, timeout).heap
<1>1. Inserted(tm, timeout) \in TmRecord
  BY TimesAtHand, InsertedFields
<1>2. /\ tm' \in TmRecord /\ tm'.real = timeout /\ tm'.wake = Inserted(tm, timeout).wake
      /\ tm'.heap = Inserted(tm, timeout).heap
  BY <1>1, WantedFields
<1>3. Inserted(tm, timeout).wake = timeout /\ (Inserted(tm, timeout).heap <=> timeout > 0)
  BY TimesAtHand, InsertedFields
<1> QED
  BY <1>2, <1>3

(* The steps keep the types.                                               *)
LEMMA TmTypeStep ==
  ASSUME TimerInv, TmNext
  PROVE  TmTypeOK'
<1>1. TmTypeOK
  BY DEF TimerInv
<1>2. tm' \in TmRecord
  <2>1. ASSUME NEW timeout \in {0} \cup Instants, SetTimer(timeout) PROVE tm' \in TmRecord
    <3>1. timeout \in Times
      BY DEF Times
    <3> QED
      BY <2>1, <3>1, NearFields, WantedFields, TimesAtHand DEF SetTimer, Far, Near
  <2>2. CASE HandleAlarm
    BY <2>2, NearFields, WantedFields, TimesAtHand, TimesNat DEF HandleAlarm
  <2>3. CASE InsertTime
    BY <2>3, InsertedFields, TimesAtHand DEF InsertTime
  <2>4. CASE RunTimers
    BY <2>4, OutFields, TimesAtHand DEF RunTimers
  <2> QED
    BY <2>1, <2>2, <2>3, <2>4, TimesAtHand
      DEF TmNext, QueueEntry, Release, PopEntry, ReadTime, Gateway, ClockTick
<1>3. entries' \in Nat /\ setsLeft' \in Nat /\ instant' \in Nat
  <2>1. entries \in Nat /\ setsLeft \in Nat /\ instant \in Nat
    BY <1>1 DEF TmTypeOK
  <2> QED
    BY <2>1, SMT DEF TmNext, SetTimer, QueueEntry, HandleAlarm, Release, PopEntry, ReadTime, InsertTime,
                     RunTimers, Gateway, ClockTick
<1>4. mgr' \in [pc : {"idle", "read", "insert", "fire"}, r : Times]
  <2>1. mgr \in [pc : {"idle", "read", "insert", "fire"}, r : Times]
    BY <1>1 DEF TmTypeOK
  <2>2. ASSUME NEW p \in {"idle", "read", "insert", "fire"}, NEW r \in Times
        PROVE  [pc |-> p, r |-> r] \in [pc : {"idle", "read", "insert", "fire"}, r : Times]
    OBVIOUS
  <2>3. CASE mgr' = mgr
    BY <2>1, <2>3
  <2>4. CASE PopEntry \/ InsertTime \/ RunTimers \/ Gateway
    BY <2>2, <2>4, TimesNat DEF PopEntry, InsertTime, RunTimers, Gateway
  <2>5. CASE ReadTime
    BY <2>2, <2>5, TimesAtHand DEF ReadTime
  <2> QED
    BY <2>3, <2>4, <2>5 DEF TmNext, SetTimer, QueueEntry, HandleAlarm, Release, ClockTick
<1>5. alarm' \in BOOLEAN /\ owner' \in BOOLEAN /\ job' \in {"idle", "queue", "alarm"}
  BY <1>1 DEF TmTypeOK, TmNext, SetTimer, Far, Near, QueueEntry, HandleAlarm, Release, PopEntry, ReadTime,
              InsertTime, RunTimers, Gateway, ClockTick
<1> QED
  BY <1>2, <1>3, <1>4, <1>5 DEF TmTypeOK

(* The steps keep the way to the alarm.                                    *)
LEMMA WakeStep ==
  ASSUME TimerInv, TmNext
  PROVE  WakeKept'
<1>0. /\ WakeKept /\ entries \in Nat /\ tm.real \in Nat /\ tm.wake \in Nat /\ mgr.r \in Nat
      /\ mgr.pc \in {"idle", "read", "insert", "fire"} /\ mgr = [pc |-> mgr.pc, r |-> mgr.r]
  BY TimesAtHand DEF TimerInv, TmTypeOK
<1>1. ASSUME NEW timeout \in {0} \cup Instants, SetTimer(timeout) PROVE WakeKept'
  <2>1. timeout \in Times /\ timeout \in Nat
    BY TimesNat DEF Times
  <2>2. CASE Far(timeout)
    <3>1. tm'.real = timeout /\ tm'.wake = tm.wake /\ tm'.heap = tm.heap /\ job' = "queue" /\ nextAt' = nextAt
      BY <2>1, <2>2, WantedFields, TimesAtHand DEF Far
    <3> QED
      BY <1>0, <3>1, SMT DEF WakeKept
  <2>3. CASE Near(timeout)
    <3>1. /\ tm'.real = timeout /\ tm'.wake = timeout /\ (tm'.heap <=> timeout > 0)
          /\ mgr.pc = "idle" /\ mgr' = mgr /\ nextAt' = FirstTime(tm')
      BY <1>1, <2>1, <2>3, NearFields DEF Near, SetTimer
    <3>2. tm'.heap => nextAt' = tm'.wake
      BY <3>1 DEF FirstTime
    <3> QED
      BY <1>0, <2>1, <3>1, <3>2, SMTT(30) DEF WakeKept
  <2> QED
    BY <1>1, <2>2, <2>3 DEF SetTimer
<1>2. CASE QueueEntry
  BY <1>0, <1>2, SMT DEF QueueEntry, WakeKept
<1>3. CASE HandleAlarm
  <2>1. CASE ~StillWanted /\ timerRefs' = timerRefs - 1 /\ UNCHANGED <<tm, job, nextAt>>
    BY <1>0, <1>3, <2>1, SMTT(30) DEF HandleAlarm, StillWanted, WakeKept
  <2>2. CASE tm'.real = 0 /\ job' = "alarm" /\ tm'.heap = tm.heap /\ tm'.wake = tm.wake /\ nextAt' = nextAt
    BY <1>0, <2>2, SMTT(30) DEF WakeKept
  <2>3. CASE mgr.pc = "idle" /\ tm'.real = 0 /\ ~ tm'.heap
    BY <1>0, <1>3, <2>3, SMTT(30) DEF HandleAlarm, WakeKept
  <2>4. ASSUME tm' = [tm EXCEPT !.real = 0]
        PROVE  tm'.real = 0 /\ tm'.heap = tm.heap /\ tm'.wake = tm.wake
    BY <2>4, WantedFields, TimesAtHand, TimesNat
  <2>5. ASSUME tm' = [Inserted(tm, 0) EXCEPT !.real = 0] PROVE tm'.real = 0 /\ ~ tm'.heap
    <3>1. ~ (0 > 0)
      BY SMT
    <3> QED
      BY <2>5, <3>1, NearFields, TimesNat
  <2> QED
    BY <1>3, <2>1, <2>2, <2>3, <2>4, <2>5 DEF HandleAlarm
<1>4. CASE Release
  BY <1>0, <1>4, SMTT(30) DEF Release, WakeKept
<1>5. CASE PopEntry
  BY <1>0, <1>5, SMTT(30) DEF PopEntry, WakeKept
<1>6. CASE ReadTime
  BY <1>0, <1>6, SMT DEF ReadTime, WakeKept
<1>7. CASE InsertTime
  <2>1. /\ tm'.real = tm.real /\ tm'.wake = mgr.r /\ (tm'.heap <=> mgr.r > 0)
        /\ mgr.pc = "insert" /\ mgr'.pc = "idle" /\ nextAt' = FirstTime(tm')
        /\ entries' = entries /\ job' = job
    BY <1>7, InsertedFields, TimesAtHand DEF InsertTime
  <2>2. tm'.heap => nextAt' = tm'.wake
    BY <2>1 DEF FirstTime
  <2>3. CASE mgr.r = tm.real
    BY <1>0, <2>1, <2>2, <2>3, SMTT(30) DEF WakeKept
  <2>4. CASE mgr.r # tm.real
    BY <1>0, <2>1, <2>2, <2>4, SMTT(30) DEF WakeKept
  <2> QED
    BY <2>3, <2>4
<1>8. CASE RunTimers
  <2>1. tm'.real = tm.real /\ tm'.wake = tm.wake /\ tm'.heap = FALSE /\ mgr'.pc = "fire" /\ mgr.pc = "idle"
    BY <1>8, OutFields, TimesAtHand DEF RunTimers
  <2> QED
    BY <1>0, <1>8, <2>1, SMTT(30) DEF RunTimers, WakeKept
<1>9. CASE Gateway
  <2>1. /\ mgr.pc = "fire" /\ mgr'.pc = "idle" /\ tm' = tm /\ entries' = entries /\ job' = job
        /\ nextAt' = nextAt
    BY <1>9 DEF Gateway
  <2>2. alarm' <=> alarm \/ tm.wake = tm.real
    BY <1>9 DEF Gateway
  <2>3. tm.real > 0 => entries > 0 \/ job # "idle" \/ tm.wake = tm.real
    BY <1>0, <2>1, SMT DEF WakeKept
  <2>4. tm.heap => nextAt = tm.wake
    BY <1>0 DEF WakeKept
  <2> QED
    BY <2>1, <2>2, <2>3, <2>4 DEF WakeKept
<1>10. CASE ClockTick
  BY <1>0, <1>10, SMTT(30) DEF ClockTick, WakeKept
<1> QED
  BY <1>1, <1>2, <1>3, <1>4, <1>5, <1>6, <1>7, <1>8, <1>9, <1>10 DEF TmNext

(* The steps keep the references.                                          *)
LEMMA RefsStep ==
  ASSUME TimerInv, TmNext
  PROVE  RefsKept'
<1>0. /\ PlacesCounted /\ entries \in Nat /\ timerRefs \in Int
      /\ One(owner) \in Nat /\ One(tm.heap) \in Nat /\ One(alarm) \in Nat
      /\ One(mgr.pc # "idle") \in Nat /\ One(job = "alarm") \in Nat
  BY OneOf, TimesAtHand DEF TimerInv, RefsKept
<1>q. job = "queue" => owner
  BY DEF TimerInv, RefsKept
<1>1. ASSUME NEW timeout \in {0} \cup Instants, SetTimer(timeout) PROVE RefsKept'
  <2>1. timeout \in Times
    BY DEF Times
  <2>0. owner /\ owner'
    BY <1>1 DEF SetTimer
  <2>2. /\ job = "idle" /\ entries' = entries /\ alarm' = alarm /\ mgr' = mgr /\ owner' = owner
        /\ One(job = "alarm") = 0
    BY <1>1, OneOf DEF SetTimer
  <2>3. CASE Far(timeout)
    <3>1. tm'.heap = tm.heap /\ job' = "queue" /\ timerRefs' = timerRefs
      BY <2>1, <2>3, WantedFields, TimesAtHand DEF Far
    <3>2. One((job = "alarm")') = 0
      BY <3>1, OneOf
    <3>3. PlacesCounted'
      BY <1>0, <2>2, <3>1, <3>2, SMTT(30) DEF PlacesCounted
    <3> QED
      BY <2>0, <3>3 DEF RefsKept
  <2>4. CASE Near(timeout)
    <3>1. timerRefs' = timerRefs - One(tm.heap) + One(tm'.heap) /\ job' = job /\ One(tm'.heap) \in Nat
      <4>1. RefsAfter(timerRefs, tm, timeout) = timerRefs - One(tm.heap) + One(Inserted(tm, timeout).heap)
        BY <2>1, RefsAfterCounts, TimesAtHand
      <4>2. tm'.heap = Inserted(tm, timeout).heap
        BY <2>1, <2>4, NearFields DEF Near
      <4>3. One(tm'.heap) \in Nat
        BY OneOf
      <4> QED
        BY <2>4, <4>1, <4>2, <4>3 DEF Near
    <3>2. PlacesCounted'
      BY <1>0, <2>2, <3>1, SMTT(30) DEF PlacesCounted
    <3> QED
      BY <2>0, <3>2 DEF RefsKept
  <2> QED
    BY <1>1, <2>3, <2>4 DEF SetTimer
<1>2. CASE QueueEntry
  BY <1>0, <1>2, <1>q, SMTT(30) DEF QueueEntry, PlacesCounted, RefsKept, One
<1>3. CASE HandleAlarm
  <2>1. /\ entries' = entries /\ mgr' = mgr /\ owner' = owner /\ job = "idle"
        /\ One(job = "alarm") = 0 /\ One(alarm) = 1 /\ One(alarm') = 0
    BY <1>3, OneOf DEF HandleAlarm
  <2>2. ASSUME timerRefs' = timerRefs - 1, tm' = tm, job' = job PROVE PlacesCounted'
    BY <1>0, <2>1, <2>2, SMTT(30) DEF PlacesCounted
  <2>3. ASSUME tm'.heap = tm.heap, job' = "alarm", timerRefs' = timerRefs PROVE PlacesCounted'
    <3>1. One((job = "alarm")') = 1
      BY <2>3, OneOf
    <3> QED
      BY <1>0, <2>1, <2>3, <3>1, SMTT(30) DEF PlacesCounted
  <2>4. ASSUME job' = job, timerRefs' = timerRefs - One(tm.heap) + One(tm'.heap) - 1 PROVE PlacesCounted'
    <3>1. One(tm'.heap) \in Nat
      BY OneOf
    <3> QED
      BY <1>0, <2>1, <2>4, <3>1, SMTT(30) DEF PlacesCounted
  <2>5. ASSUME tm' = [tm EXCEPT !.real = 0] PROVE tm'.heap = tm.heap
    BY <2>5, WantedFields, TimesAtHand, TimesNat
  <2>6. ASSUME tm' = [Inserted(tm, 0) EXCEPT !.real = 0]
        PROVE  RefsAfter(timerRefs, tm, 0) = timerRefs - One(tm.heap) + One(tm'.heap)
    BY <1>0, <2>6, NearFields, RefsAfterCounts, TimesAtHand, TimesNat
  <2>7. PlacesCounted'
    <3>1. CASE timerRefs' = timerRefs - 1 /\ tm' = tm /\ job' = job
      BY <2>2, <3>1
    <3>2. CASE tm' = [tm EXCEPT !.real = 0] /\ job' = "alarm" /\ timerRefs' = timerRefs
      BY <2>3, <2>5, <3>2
    <3>3. CASE /\ tm' = [Inserted(tm, 0) EXCEPT !.real = 0] /\ job' = job
               /\ timerRefs' = RefsAfter(timerRefs, tm, 0) - 1
      <4>1. RefsAfter(timerRefs, tm, 0) = timerRefs - One(tm.heap) + One(tm'.heap)
        BY <2>6, <3>3
      <4>2. PICK n : n = RefsAfter(timerRefs, tm, 0)
        OBVIOUS
      <4>3. timerRefs' = n - 1
        BY <3>3, <4>2
      <4>4. n = timerRefs - One(tm.heap) + One(tm'.heap)
        BY <4>1, <4>2
      <4>5. timerRefs' = timerRefs - One(tm.heap) + One(tm'.heap) - 1
        <5>1. One(tm'.heap) \in Nat
          BY OneOf
        <5> QED
          BY <1>0, <4>3, <4>4, <5>1, SMTT(30)
      <4> QED
        BY <2>4, <3>3, <4>5
    <3> QED
      BY <1>3, <3>1, <3>2, <3>3 DEF HandleAlarm
  <2>8. job' # "queue"
    BY <1>3, <2>1 DEF HandleAlarm
  <2> QED
    BY <2>7, <2>8 DEF RefsKept
<1>4. CASE Release
  BY <1>0, <1>4, <1>q, SMTT(30) DEF Release, PlacesCounted, RefsKept, One
<1>5. CASE PopEntry
  BY <1>0, <1>5, <1>q, SMTT(30) DEF PopEntry, PlacesCounted, RefsKept, One
<1>6. CASE ReadTime
  BY <1>0, <1>6, <1>q, SMTT(30) DEF ReadTime, PlacesCounted, RefsKept, One
<1>7. CASE InsertTime
  <2>1. timerRefs' = timerRefs - One(tm.heap) + One(tm'.heap) - 1 /\ One(tm'.heap) \in Nat
    <3>1. RefsAfter(timerRefs, tm, mgr.r) = timerRefs - One(tm.heap) + One(tm'.heap)
      BY <1>7, RefsAfterCounts, TimesAtHand DEF InsertTime
    <3>2. timerRefs' = RefsAfter(timerRefs, tm, mgr.r) - 1
      BY <1>7 DEF InsertTime
    <3>3. One(tm'.heap) \in Nat
      BY OneOf
    <3>4. PICK n : n = RefsAfter(timerRefs, tm, mgr.r)
      OBVIOUS
    <3>5. timerRefs' = n - 1
      BY <3>2, <3>4
    <3>6. n = timerRefs - One(tm.heap) + One(tm'.heap)
      BY <3>1, <3>4
    <3> QED
      BY <1>0, <3>3, <3>5, <3>6, SMTT(30)
  <2>2. One(mgr.pc # "idle") = 1 /\ One((mgr.pc # "idle")') = 0
    BY <1>7, OneOf DEF InsertTime
  <2>3. entries' = entries /\ alarm' = alarm /\ job' = job /\ owner' = owner
    BY <1>7 DEF InsertTime
  <2>4. PlacesCounted'
    BY <1>0, <2>1, <2>2, <2>3, SMTT(30) DEF PlacesCounted
  <2> QED
    BY <1>q, <2>3, <2>4 DEF RefsKept
<1>8. CASE RunTimers
  <2>1. One(tm.heap) = 1 /\ One(tm'.heap) = 0 /\ One(mgr.pc # "idle") = 0 /\ One((mgr.pc # "idle")') = 1
    BY <1>8, OneOf, OutFields, TimesAtHand DEF RunTimers
  <2>2. entries' = entries /\ alarm' = alarm /\ job' = job /\ owner' = owner /\ timerRefs' = timerRefs
    BY <1>8 DEF RunTimers
  <2>3. PlacesCounted'
    BY <1>0, <2>1, <2>2, SMTT(30) DEF PlacesCounted
  <2> QED
    BY <1>q, <2>2, <2>3 DEF RefsKept
<1>9. CASE Gateway
  <2>1. One(mgr.pc # "idle") = 1 /\ One((mgr.pc # "idle")') = 0
    BY <1>9, OneOf DEF Gateway
  <2>2. entries' = entries /\ tm' = tm /\ job' = job /\ owner' = owner
    BY <1>9 DEF Gateway
  <2>3. timerRefs' = timerRefs - 1 + One(alarm') - One(alarm)
    <3>1. CASE tm.wake = tm.real /\ ~alarm
      <4>1. One(alarm) = 0 /\ One(alarm') = 1 /\ timerRefs' = timerRefs
        BY <1>9, <3>1, OneOf DEF Gateway
      <4> QED
        BY <1>0, <4>1, SMTT(30)
    <3>2. CASE ~ (tm.wake = tm.real /\ ~alarm)
      <4>1. (alarm' <=> alarm) /\ timerRefs' = timerRefs - 1
        BY <1>9, <3>2 DEF Gateway
      <4>2. One(alarm') = One(alarm)
        BY <4>1, OneOf
      <4> QED
        BY <1>0, <4>1, <4>2, SMTT(30)
    <3> QED
      BY <3>1, <3>2
  <2>4. One(alarm') \in Nat
    BY OneOf
  <2>5. PlacesCounted'
    BY <1>0, <2>1, <2>2, <2>3, <2>4, SMTT(30) DEF PlacesCounted
  <2> QED
    BY <1>q, <2>2, <2>5 DEF RefsKept
<1>10. CASE ClockTick
  BY <1>0, <1>10, <1>q, SMTT(30) DEF ClockTick, PlacesCounted, RefsKept
<1> QED
  BY <1>1, <1>2, <1>3, <1>4, <1>5, <1>6, <1>7, <1>8, <1>9, <1>10 DEF TmNext

(* The invariant gives what the timer promises: with no reference left     *)
(* there is no place from which the job could be woken, and it wants no    *)
(* alarm.                                                                  *)
LEMMA TimerInvRight ==
  ASSUME TimerInv
  PROVE  TimerKept
<1>1. ASSUME timerRefs = 0 PROVE tm.real = 0
  <2>1. /\ entries = 0 /\ ~ owner /\ ~ tm.heap /\ ~ alarm /\ mgr.pc = "idle" /\ job # "alarm"
    BY <1>1, SMT DEF TimerInv, TmTypeOK, RefsKept, PlacesCounted, One
  <2>2. job = "idle"
    BY <2>1, SMT DEF TimerInv, TmTypeOK, RefsKept
  <2>3. tm.real \in Nat
    BY TimesAtHand
  <2>4. ~ (tm.real > 0)
    BY <2>1, <2>2, SMT DEF TimerInv, WakeKept
  <2> QED
    BY <2>3, <2>4, SMTT(30)
<1> QED
  BY <1>1 DEF TimerInv, WakeKept, RefsKept, PlacesCounted, TimerKept

-----------------------------------------------------------------------------
(* A job that is queued to a subclass runs once, in the company its        *)
(* subclass promises, and none is left behind, whichever way the threads   *)
(* interleave: for any threads, jobs, subclasses and tokens                *)
(* (process_one_sublist).                                                  *)
THEOREM SublistsAlwaysRight == SubSpec => []SublistsRight
<1>1. SubInv /\ UNCHANGED subVars => SubInv'
  <2> SUFFICES ASSUME SubInv, UNCHANGED subVars PROVE SubInv'
    OBVIOUS
  <2>1. /\ jobQ' = jobQ /\ subQ' = subQ /\ sub' = sub /\ tokens' = tokens /\ worker' = worker
        /\ subDone' = subDone
    BY DEF subVars
  <2>2. SubTypeOK' /\ TokensKept'
    BY <2>1 DEF SubInv, SubTypeOK, TokensKept, TookRight, TokensTaken
  <2>3. LocksKept' /\ WorkKept'
    BY <2>1 DEF SubInv, LocksKept, Inside, WorkKept, Cares, MoreToRun
  <2>4. QueuesDistinct' /\ QueuedRight' /\ RunningRight'
    BY <2>1 DEF SubInv, PlacesKept, QueuesDistinct, QueuedRight, RunningRight, Runs, Waiting
  <2>5. RanRight' /\ NoneLost'
    BY <2>1 DEF SubInv, PlacesKept, RanRight, NoneLost, Runs, Waiting
  <2>6. CountsKept'
    BY <2>1 DEF SubInv, CountsKept, NumberWith, PutOf, RanOf
  <2> QED
    BY <2>2, <2>3, <2>4, <2>5, <2>6 DEF SubInv, PlacesKept
<1>2. SubInv /\ [SubNext]_subVars => SubInv'
  BY <1>1, SubInvStep
<1>3. SubInit => SubInv
  BY SubInvInit
<1>4. SubInv => SublistsRight
  BY SubInvRight
<1> QED
  BY <1>2, <1>3, <1>4, PTL DEF SubSpec

(* A timer that is set wakes its job, and a job with no reference left     *)
(* wants no alarm, however handlers, alarms and the timer manager          *)
(* interleave: for any times and any number of changes (job_timer_insert,  *)
(* do_timer_manager_job, job_timer_wakeup_gateway).                        *)
THEOREM TimersAlwaysKept == TmSpec => []TimerKept
<1>1. TimerInv /\ UNCHANGED tmVars => TimerInv'
  <2> SUFFICES ASSUME TimerInv, UNCHANGED tmVars PROVE TimerInv'
    OBVIOUS
  <2>1. /\ tm' = tm /\ entries' = entries /\ alarm' = alarm /\ mgr' = mgr /\ job' = job /\ nextAt' = nextAt
        /\ timerRefs' = timerRefs /\ owner' = owner /\ instant' = instant /\ setsLeft' = setsLeft
    BY DEF tmVars
  <2>2. TmTypeOK' /\ WakeKept'
    BY <2>1 DEF TimerInv, TmTypeOK, WakeKept
  <2>3. RefsKept'
    BY <2>1 DEF TimerInv, RefsKept, PlacesCounted, One
  <2> QED
    BY <2>2, <2>3 DEF TimerInv
<1>2. TimerInv /\ [TmNext]_tmVars => TimerInv'
  BY <1>1, TmTypeStep, WakeStep, RefsStep DEF TimerInv
<1>3. TmInit => TimerInv
  BY TimerInvInit
<1>4. TimerInv => TimerKept
  BY TimerInvRight
<1> QED
  BY <1>2, <1>3, <1>4, PTL DEF TmSpec
=============================================================================
