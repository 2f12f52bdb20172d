-------------------------- MODULE JobSignalProofs --------------------------
(* Proofs about JobSignal, for any threads, classes, queues and signals.   *)
EXTENDS JobSignal, FiniteSetTheorems, TLAPS

(* Most leaves are first-order; the ones with arithmetic cite SMT.          *)
USE ZenonT(60)

Callers == Cardinality(Each(refs))
Entries == Cardinality(Each(queue))
Calls == Cardinality(Active)

Counts ==
  /\ IsFiniteSet(Each(refs)) /\ IsFiniteSet(Each(queue))
  /\ refcnt = Callers + Entries + Calls
  /\ ~ alive => refcnt = 0

(* One thread at most is in the unlock_job loop, and the lock says so.  A  *)
(* loop that is about to release saw no signal.                            *)
LockHeld ==
  /\ \A t, u \in Threads : th[t].pc \in Holding /\ th[u].pc \in Holding => t = u
  /\ flags.locked <=> \E t \in Threads : th[t].pc \in Holding
  /\ \A t \in Threads : th[t].pc = "release" => th[t].seen.sigs = {}

(* Thread u has popped the entry that class c was queued by, and has not   *)
(* cleared the class's queued flag.                                        *)
Takes(u, c) ==
  /\ Home[u] = QueueOf[c]
  /\ \/ th[u].pc = "process0"
     \/ th[u].pc \in {"process1", "process2"} /\ c \in th[u].seen.queued

(* A class flagged as queued has an entry, or a thread that popped it.     *)
QueuedKept ==
  \A c \in flags.queued : queue[QueueOf[c]] > 0 \/ \E u \in Threads : Takes(u, c)

(* A pending signal is in somebody's hands: the holder of the lock, a queue*)
(* entry, or a thread that will still try to lock.                         *)
Tries == {"send4", "process0", "process1", "process2", "process3"}
SignalsKept ==
  flags.sigs # {} => \/ flags.locked
                     \/ \E q \in Queues : queue[q] > 0
                     \/ \E t \in Threads : th[t].pc \in Tries

(* Thread t is ending the job.                                             *)
Ends(t) ==
  \/ th[t].pc \in {"last", "finish"}
  \/ th[t].pc \in {"send1", "send2", "run"} /\ th[t].sig = "FINISH"

(* Who ends the job has the only reference, and the signal JS_FINISH is    *)
(* never set beside another one or while a handler runs.                   *)
EndsAlone ==
  /\ \A t \in Threads : Ends(t) => refcnt = 1
  /\ \A t \in Threads : th[t].pc \in {"send3", "send4"} => th[t].sig # "FINISH"
  /\ \A t \in Threads : th[t].pc = "run" /\ th[t].sig = "FINISH" => flags.sigs = {}
  /\ "FINISH" \in flags.sigs =>
       /\ flags.sigs = {"FINISH"} /\ refcnt = 1
       /\ \A t \in Threads : th[t].pc \in {"idle", "unlock", "enqueue", "process0", "process1"}

JobInv == JobTypeOK /\ Counts /\ LockHeld /\ QueuedKept /\ SignalsKept /\ EndsAlone
-----------------------------------------------------------------------------
(* References one by one: the elements of Each.                            *)
LEMMA EachElements ==
  ASSUME NEW S, NEW f \in [S -> Nat], NEW r
  PROVE  r \in Each(f) <=> \E x \in S : \E i \in 1..f[x] : r = <<x, i>>
BY SMT DEF Each

(* One reference more.                                                     *)
LEMMA EachMore ==
  ASSUME NEW S, NEW f \in [S -> Nat], NEW x \in S, IsFiniteSet(Each(f))
  PROVE  LET g == [f EXCEPT ![x] = @ + 1]
         IN  IsFiniteSet(Each(g)) /\ Cardinality(Each(g)) = Cardinality(Each(f)) + 1
<1> DEFINE g == [f EXCEPT ![x] = @ + 1]
           new == <<x, f[x] + 1>>
<1>1. g \in [S -> Nat] /\ g[x] = f[x] + 1 /\ \A y \in S \ {x} : g[y] = f[y]
  BY SMT
<1>2. new \notin Each(f)
  BY EachElements, SMT
<1>3. Each(g) = Each(f) \cup {new}
  <2> HIDE DEF g
  <2>1. ASSUME NEW r \in Each(g) PROVE r \in Each(f) \cup {new}
    <3>1. PICK y \in S : \E i \in 1..g[y] : r = <<y, i>>
      BY <1>1, EachElements, SMT
    <3>2. PICK i \in 1..g[y] : r = <<y, i>>
      BY <3>1
    <3>3. i \in 1..f[y] \/ (y = x /\ i = f[x] + 1)
      BY <1>1, SMT
    <3> QED
      BY <3>2, <3>3, EachElements
  <2>2. ASSUME NEW r \in Each(f) PROVE r \in Each(g)
    <3>1. PICK y \in S : \E i \in 1..f[y] : r = <<y, i>>
      BY EachElements, SMT
    <3>2. PICK i \in 1..f[y] : r = <<y, i>>
      BY <3>1
    <3>3. i \in 1..g[y]
      BY <1>1, SMT
    <3> QED
      BY <1>1, <3>2, <3>3, EachElements
  <2>3. new \in Each(g)
    BY <1>1, EachElements, SMT
  <2> QED
    BY <2>1, <2>2, <2>3
<1>4. IsFiniteSet(Each(f) \cup {new}) /\ Cardinality(Each(f) \cup {new}) = Cardinality(Each(f)) + 1
  BY <1>2, FS_AddElement
<1> QED
  BY <1>3, <1>4

(* One reference less.                                                     *)
LEMMA EachLess ==
  ASSUME NEW S, NEW f \in [S -> Nat], NEW x \in S, f[x] > 0, IsFiniteSet(Each(f))
  PROVE  LET g == [f EXCEPT ![x] = @ - 1]
         IN  /\ g \in [S -> Nat] /\ IsFiniteSet(Each(g))
             /\ Cardinality(Each(g)) = Cardinality(Each(f)) - 1
<1> DEFINE g == [f EXCEPT ![x] = @ - 1]
           old == <<x, f[x]>>
<1>1. g \in [S -> Nat] /\ g[x] = f[x] - 1 /\ \A y \in S \ {x} : g[y] = f[y]
  BY SMT
<1>2. old \in Each(f)
  BY EachElements, SMT
<1>3. Each(g) = Each(f) \ {old}
  <2> HIDE DEF g
  <2>1. ASSUME NEW r \in Each(g) PROVE r \in Each(f) \ {old}
    <3>1. PICK y \in S : \E i \in 1..g[y] : r = <<y, i>>
      BY <1>1, EachElements, SMT
    <3>2. PICK i \in 1..g[y] : r = <<y, i>>
      BY <3>1
    <3>3. i \in 1..f[y] /\ ~ (y = x /\ i = f[x])
      BY <1>1, SMT
    <3> QED
      BY <3>2, <3>3, EachElements
  <2>2. ASSUME NEW r \in Each(f) \ {old} PROVE r \in Each(g)
    <3>1. PICK y \in S : \E i \in 1..f[y] : r = <<y, i>>
      BY EachElements, SMT
    <3>2. PICK i \in 1..f[y] : r = <<y, i>>
      BY <3>1
    <3>3. i \in 1..g[y]
      BY <1>1, <2>2, <3>2, SMT
    <3> QED
      BY <1>1, <3>2, <3>3, EachElements
  <2> QED
    BY <2>1, <2>2
<1>4. IsFiniteSet(Each(f) \ {old}) /\ Cardinality(Each(f) \ {old}) = Cardinality(Each(f)) - 1
  BY <1>2, FS_RemoveElement
<1> QED
  BY <1>1, <1>3, <1>4

(* None at all.                                                            *)
LEMMA EachNone ==
  ASSUME NEW S, NEW f \in [S -> Nat], IsFiniteSet(Each(f))
  PROVE  /\ Cardinality(Each(f)) \in Nat
         /\ Cardinality(Each(f)) = 0 <=> \A x \in S : f[x] = 0
<1>1. Each(f) = {} <=> \A x \in S : f[x] = 0
  <2>1. ASSUME Each(f) = {}, NEW x \in S PROVE f[x] = 0
    <3>1. f[x] > 0 => <<x, 1>> \in Each(f)
      BY EachElements, SMT
    <3> QED
      BY <2>1, <3>1, SMT
  <2>2. ASSUME \A x \in S : f[x] = 0 PROVE Each(f) = {}
    BY <2>2, EachElements, SMT
  <2> QED
    BY <2>1, <2>2
<1> QED
  BY <1>1, FS_EmptySet, FS_CardinalityType

(* What the count says about who may have a reference.                     *)
LEMMA CountFacts ==
  ASSUME JobTypeOK, Counts
  PROVE  /\ Callers \in Nat /\ Entries \in Nat /\ Calls \in Nat /\ IsFiniteSet(Active)
         /\ \A t \in Threads : refs[t] > 0 => Callers > 0
         /\ \A q \in Queues : queue[q] > 0 => Entries > 0
         /\ Entries = 0 => \A q \in Queues : queue[q] = 0
         /\ \A t \in Threads : th[t].pc # "idle" => Calls > 0
         /\ \A t, u \in Threads : th[t].pc # "idle" /\ th[u].pc # "idle" /\ t # u => Calls > 1
         /\ refcnt = Callers + Entries + Calls
<1>1. /\ Callers \in Nat /\ Entries \in Nat
      /\ \A t \in Threads : refs[t] > 0 => Callers > 0
      /\ \A q \in Queues : queue[q] > 0 => Entries > 0
      /\ Entries = 0 => \A q \in Queues : queue[q] = 0
  BY EachNone, SMT DEF JobTypeOK, Counts, Callers, Entries
<1>2. IsFiniteSet(Active) /\ Calls \in Nat
  BY JobConstants, FS_Subset, FS_CardinalityType DEF Active, Calls
<1>3. \A t \in Threads : th[t].pc # "idle" => Calls > 0
  BY <1>2, FS_EmptySet, SMT DEF Active, Calls
<1>4. ASSUME NEW t \in Threads, NEW u \in Threads, th[t].pc # "idle", th[u].pc # "idle", t # u
      PROVE  Calls > 1
  <2>1. t \in Active /\ u \in Active
    BY <1>4 DEF Active
  <2>2. Cardinality(Active) # 1
    BY <1>2, <1>4, <2>1, FS_Singleton, SMT
  <2> QED
    BY <1>2, <1>3, <1>4, <2>2, SMT DEF Calls
<1> QED
  BY <1>1, <1>2, <1>3, <1>4 DEF Counts

(* The thread that has the only reference is alone.                        *)
LEMMA Sole ==
  ASSUME JobTypeOK, Counts, refcnt = 1, NEW t \in Threads, th[t].pc # "idle"
  PROVE  /\ \A u \in Threads : refs[u] = 0
         /\ \A q \in Queues : queue[q] = 0
         /\ \A u \in Threads : u = t \/ th[u].pc = "idle"
BY CountFacts, SMT DEF JobTypeOK

(* JS_FINISH has the highest number.                                       *)
LEMMA HighestSignal ==
  ASSUME NEW S \in SUBSET Signals, S # {}
  PROVE  Highest(S) \in S /\ ("FINISH" \in S => Highest(S) = "FINISH")
<1>1. /\ DOMAIN Signo = {"RUN", "ALARM", "ABORT", "FINISH"}
      /\ Signo["RUN"] = 0 /\ Signo["ALARM"] = 4 /\ Signo["ABORT"] = 5 /\ Signo["FINISH"] = 7
  BY DEF Signo
<1>2. S \subseteq {"RUN", "ALARM", "ABORT", "FINISH"}
  BY <1>1, JobConstants
<1>3. \E s \in S : \A r \in S : Signo[r] <= Signo[s]
  <2>1. CASE "FINISH" \in S
    BY <1>1, <1>2, <2>1, SMT
  <2>2. CASE "FINISH" \notin S /\ "ABORT" \in S
    BY <1>1, <1>2, <2>2, SMT
  <2>3. CASE "FINISH" \notin S /\ "ABORT" \notin S /\ "ALARM" \in S
    BY <1>1, <1>2, <2>3, SMT
  <2>4. CASE "FINISH" \notin S /\ "ABORT" \notin S /\ "ALARM" \notin S
    <3>1. S = {"RUN"}
      BY <1>2, <2>4
    <3> QED
      BY <1>1, <3>1, SMT
  <2> QED
    BY <2>1, <2>2, <2>3, <2>4
<1>4. Highest(S) \in S /\ \A r \in S : Signo[r] <= Signo[Highest(S)]
  BY <1>3 DEF Highest
<1>5. \A r \in S : r # "FINISH" => Signo[r] < 7
  BY <1>1, <1>2, SMT
<1>6. "FINISH" \in S => 7 <= Signo[Highest(S)]
  BY <1>1, <1>4
<1>7. \A r \in S : Signo[r] \in Nat
  BY <1>1, <1>2, SMT
<1> QED
  BY <1>4, <1>5, <1>6, <1>7, SMT
-----------------------------------------------------------------------------
ThreadType == [pc : Pcs, sig : Signals, seen : Flags, busy : BOOLEAN]

(* Only thread t moves.                                                    *)
Moves(t) ==
  /\ th' \in [Threads -> ThreadType]
  /\ \A u \in Threads : u # t => th'[u] = th[u]

(* A thread is given a new record.                                         *)
LEMMA SetMoves ==
  ASSUME th \in [Threads -> ThreadType], NEW t \in Threads, NEW r \in ThreadType,
         th' = [th EXCEPT ![t] = r]
  PROVE  Moves(t) /\ th'[t] = r
BY DEF Moves

(* A thread that begins something.                                         *)
LEMMA DoingRecord ==
  ASSUME NEW pc \in Pcs, NEW s \in Signals, NEW b \in BOOLEAN
  PROVE  Doing(pc, s, b) \in ThreadType /\ Doing(pc, s, b).pc = pc /\ Doing(pc, s, b).sig = s
<1>1. NoFlags \in Flags
  BY DEF NoFlags, Flags
<1> QED
  BY <1>1 DEF Doing, ThreadType

(* A thread that has nothing to do.                                        *)
LEMMA IdleRecord == Idle \in ThreadType /\ Idle.pc = "idle"
<1>1. "RUN" \in Signals /\ "idle" \in Pcs
  BY JobConstants DEF Pcs
<1> QED
  BY <1>1, DoingRecord DEF Idle

(* A thread goes on to another place, with nothing read yet.               *)
LEMMA GoMoves ==
  ASSUME th \in [Threads -> ThreadType], NEW t \in Threads, NEW pc \in Pcs, Go(t, pc)
  PROVE  Moves(t) /\ th'[t].pc = pc
<1>1. th[t].busy \in BOOLEAN /\ "RUN" \in Signals
  BY JobConstants DEF ThreadType
<1>2. Doing(pc, "RUN", th[t].busy) \in ThreadType /\ Doing(pc, "RUN", th[t].busy).pc = pc
  BY <1>1, DoingRecord
<1> QED
  BY <1>2, SetMoves DEF Go

(* A thread goes on and keeps its signal and the flags it read.            *)
LEMMA StayMoves ==
  ASSUME th \in [Threads -> ThreadType], NEW t \in Threads, NEW pc \in Pcs, Stay(t, pc)
  PROVE  Moves(t) /\ th'[t].pc = pc /\ th'[t].sig = th[t].sig /\ th'[t].seen = th[t].seen
BY DEF Stay, Moves, ThreadType

(* A thread that was under way and still is keeps its reference.           *)
LEMMA KeepsCall ==
  ASSUME JobTypeOK, Counts, NEW t \in Threads, Moves(t), th[t].pc # "idle", th'[t].pc # "idle",
         UNCHANGED <<refcnt, alive, queue, refs>>
  PROVE  Counts'
<1>1. Active' = Active
  BY DEF Active, Moves
<1> QED
  BY <1>1 DEF Counts, Callers, Entries, Calls

(* One that goes idle has given its reference away.                        *)
LEMMA EndsCall ==
  ASSUME JobTypeOK, Counts, NEW t \in Threads, Moves(t), th[t].pc # "idle", th'[t].pc = "idle"
  PROVE  Calls' = Calls - 1 /\ Calls' \in Nat
<1>1. Active' = Active \ {t} /\ t \in Active
  BY DEF Active, Moves
<1>2. IsFiniteSet(Active)
  BY CountFacts
<1> QED
  BY <1>1, <1>2, FS_RemoveElement, FS_CardinalityType DEF Calls

(* One that was idle has been given one.                                   *)
LEMMA BeginsCall ==
  ASSUME JobTypeOK, Counts, NEW t \in Threads, Moves(t), th[t].pc = "idle", th'[t].pc # "idle"
  PROVE  Calls' = Calls + 1 /\ Calls' \in Nat
<1>1. Active' = Active \cup {t} /\ t \notin Active
  BY DEF Active, Moves
<1>2. IsFiniteSet(Active)
  BY CountFacts
<1> QED
  BY <1>1, <1>2, FS_AddElement, FS_CardinalityType DEF Calls
-----------------------------------------------------------------------------
(* A step outside the unlock_job loop that leaves the flags alone.         *)
LEMMA StaysOutside ==
  ASSUME JobInv, NEW t \in Threads, Moves(t), UNCHANGED <<flags, refcnt, alive, queue, refs>>,
         left' \in 0..MaxLeft,
         th[t].pc # "idle", th'[t].pc # "idle", th[t].pc \notin Holding, th'[t].pc \notin Holding,
         th[t].pc \in Tries => flags.locked \/ th'[t].pc \in Tries,
         \A c \in flags.queued : Takes(t, c) => Takes(t, c)',
         Ends(t)' => refcnt = 1,
         th'[t].pc \in {"send3", "send4"} => th'[t].sig # "FINISH",
         "FINISH" \in flags.sigs => th'[t].pc \in {"process0", "process1"}
  PROVE  JobInv'
<1> USE DEF JobInv
<1>1. JobTypeOK'
  BY DEF JobTypeOK, Moves, ThreadType
<1>2. Counts'
  BY KeepsCall
<1>3. LockHeld'
  BY DEF LockHeld, Moves, Holding
<1>4. QueuedKept'
  <2>1. \A c, u : u \in Threads /\ u # t /\ Takes(u, c) => Takes(u, c)'
    BY DEF Moves, Takes
  <2> QED
    BY <2>1 DEF QueuedKept
<1>5. SignalsKept'
  BY DEF SignalsKept, Moves
<1>6. EndsAlone'
  <2>1. \A u \in Threads : u # t => (Ends(u)' <=> Ends(u))
    BY DEF Moves, Ends
  <2>2. th'[t].pc # "run"
    BY DEF Holding
  <2> QED
    BY <2>1, <2>2 DEF EndsAlone, Moves
<1> QED
  BY <1>1, <1>2, <1>3, <1>4, <1>5, <1>6

(* A thread takes the lock, perhaps with a signal, and clears the flags of *)
(* classes queued by entries it has popped.                                *)
LEMMA TakesLock ==
  ASSUME JobInv, NEW t \in Threads, Moves(t), UNCHANGED <<refcnt, alive, queue, refs, left>>,
         ~ flags.locked, th[t].pc # "idle", th'[t].pc = "unlock",
         flags' \in Flags, flags'.locked, flags'.queued \subseteq flags.queued,
         \A c \in flags'.queued : ~ Takes(t, c),
         flags'.sigs = flags.sigs \/ \E s \in Signals : flags'.sigs = flags.sigs \cup {s} /\ (s = "FINISH" => Ends(t)),
         "FINISH" \in flags.sigs => flags'.sigs = flags.sigs
  PROVE  JobInv'
<1> USE DEF JobInv
<1>1. JobTypeOK'
  BY DEF JobTypeOK, Moves, ThreadType
<1>2. Counts'
  BY KeepsCall
<1>3. LockHeld'
  BY SMT DEF LockHeld, Moves, Holding
<1>4. QueuedKept'
  <2>1. \A c, u : u \in Threads /\ u # t /\ Takes(u, c) => Takes(u, c)'
    BY DEF Moves, Takes
  <2> QED
    BY <2>1 DEF QueuedKept
<1>5. SignalsKept'
  BY DEF SignalsKept
<1>6. EndsAlone'
  <2>1. \A u \in Threads : th[u].pc \notin Holding
    BY DEF LockHeld
  <2>2. \A u \in Threads : th'[u].pc # "run" /\ (Ends(u)' => Ends(u))
    BY <2>1 DEF Moves, Ends, Holding
  <2>3. ASSUME "FINISH" \in flags'.sigs, "FINISH" \notin flags.sigs
        PROVE  /\ flags'.sigs = {"FINISH"} /\ refcnt = 1
               /\ \A u \in Threads : u # t => th[u].pc = "idle"
    <3>1. Ends(t) /\ flags'.sigs = flags.sigs \cup {"FINISH"}
      BY <2>3
    <3>2. refcnt = 1
      BY <3>1 DEF EndsAlone
    <3>3. /\ \A q \in Queues : queue[q] = 0
          /\ \A u \in Threads : u = t \/ th[u].pc = "idle"
      BY <3>2, Sole
    <3>4. flags.sigs = {}
      BY <3>1, <3>3, <2>1, SMT DEF SignalsKept, Tries, Ends
    <3> QED
      BY <3>1, <3>2, <3>3, <3>4
  <2>4. \A u \in Threads : u # t => th'[u] = th[u]
    BY DEF Moves
  <2>5. CASE "FINISH" \in flags.sigs
    BY <2>2, <2>4, <2>5 DEF EndsAlone
  <2>6. CASE "FINISH" \notin flags.sigs
    BY <2>2, <2>3, <2>4, <2>6 DEF EndsAlone
  <2> QED
    BY <2>5, <2>6
<1> QED
  BY <1>1, <1>2, <1>3, <1>4, <1>5, <1>6

(* A step inside the unlock_job loop.                                      *)
LEMMA StaysInside ==
  ASSUME JobInv, NEW t \in Threads, Moves(t), UNCHANGED <<refcnt, alive, queue, refs>>,
         left' \in 0..MaxLeft, flags' \in Flags,
         th[t].pc \in Holding, th'[t].pc \in Holding,
         flags'.locked = flags.locked, flags'.queued = flags.queued,
         th'[t].pc = "release" => th'[t].seen.sigs = {},
         th'[t].pc = "run" /\ th'[t].sig = "FINISH" => flags'.sigs = {} /\ refcnt = 1,
         "FINISH" \in flags'.sigs => flags'.sigs = flags.sigs /\ th'[t].pc \in {"unlock", "enqueue"}
  PROVE  JobInv'
<1> USE DEF JobInv
<1>0. th[t].pc # "idle" /\ th'[t].pc # "idle" /\ flags.locked
  BY DEF Holding, LockHeld
<1>1. JobTypeOK'
  BY DEF JobTypeOK, Moves, ThreadType
<1>2. Counts'
  BY <1>0, KeepsCall
<1>3. LockHeld'
  BY <1>0 DEF LockHeld, Moves, Holding
<1>4. QueuedKept'
  <2>1. \A c, u : u \in Threads /\ Takes(u, c) => Takes(u, c)'
    BY DEF Moves, Takes, Holding
  <2> QED
    BY <2>1 DEF QueuedKept
<1>5. SignalsKept'
  BY <1>0 DEF SignalsKept
<1>6. EndsAlone'
  <2>1. \A u \in Threads : u # t => th[u].pc # "run" /\ th'[u] = th[u] /\ (Ends(u)' <=> Ends(u))
    BY DEF LockHeld, Moves, Holding, Ends
  <2>2. Ends(t)' => refcnt = 1
    BY DEF Ends, Holding
  <2>3. th'[t].pc \notin {"send3", "send4"}
    BY DEF Holding
  <2> QED
    BY <2>1, <2>2, <2>3 DEF EndsAlone
<1> QED
  BY <1>1, <1>2, <1>3, <1>4, <1>5, <1>6
-----------------------------------------------------------------------------
(* The steps of job_send_signals.                                          *)
LEMMA SendStep ==
  ASSUME JobInv, NEW t \in Threads, job_send_signals(t)
  PROVE  JobInv'
<1> USE DEF JobInv
<1>0. /\ th \in [Threads -> ThreadType] /\ flags \in Flags /\ left' \in 0..MaxLeft
      /\ UNCHANGED <<refcnt, alive, queue, refs, left>>
  BY DEF JobTypeOK, job_send_signals, ThreadType
<1>1. CASE th[t].pc = "send1"
  <2>1. /\ Moves(t) /\ flags' = flags
        /\ \/ th'[t].pc = "decref1"
           \/ th'[t].pc = "send2" /\ th'[t].sig = th[t].sig
    BY <1>0, <1>1, GoMoves, StayMoves DEF job_send_signals, Pcs, Holding
  <2>2. Ends(t)' => refcnt = 1
    BY <1>1, <2>1 DEF Ends, EndsAlone
  <2>3. "FINISH" \notin flags.sigs
    BY <1>1 DEF EndsAlone
  <2>4. \A c \in flags.queued : ~ Takes(t, c)
    BY <1>1 DEF Takes
  <2> QED
    BY <1>0, <1>1, <2>1, <2>2, <2>3, <2>4, StaysOutside DEF Holding, Tries
<1>2. CASE th[t].pc = "send2"
  <2>1. CASE flags.locked
    <3>1. Moves(t) /\ flags' = flags /\ th'[t].pc = "send3" /\ th'[t].sig = th[t].sig
      BY <1>0, <1>2, <2>1, SMT DEF job_send_signals, try_lock_job, Moves, Stay, ThreadType, Pcs, Holding
    <3>2. th[t].sig # "FINISH"
      BY <1>2, <2>1, Sole DEF EndsAlone, Ends, LockHeld, Holding
    <3>3. "FINISH" \notin flags.sigs
      BY <1>2 DEF EndsAlone
    <3>4. \A c \in flags.queued : ~ Takes(t, c)
      BY <1>2 DEF Takes
    <3>5. ~ Ends(t)'
      BY <3>1 DEF Ends
    <3> QED
      BY <1>0, <1>2, <3>1, <3>2, <3>3, <3>4, <3>5, StaysOutside DEF Holding, Tries
  <2>2. CASE ~ flags.locked
    <3>1. /\ Moves(t) /\ th'[t].pc = "unlock"
          /\ flags' \in Flags /\ flags'.locked /\ flags'.sigs = flags.sigs \cup {th[t].sig}
          /\ flags'.queued = flags.queued /\ th[t].sig \in Signals
      <4>1. Moves(t) /\ th'[t].pc = "unlock" /\ th[t].sig \in Signals
        BY <1>0, <1>2, <2>2, GoMoves DEF job_send_signals, try_lock_job, ThreadType, Pcs, Holding
      <4>2. flags' = [locked |-> TRUE, sigs |-> flags.sigs \cup {th[t].sig}, queued |-> flags.queued \ {}]
        BY <1>2, <2>2 DEF job_send_signals, try_lock_job
      <4> QED
        BY <1>0, <4>1, <4>2 DEF Flags
    <3>2. "FINISH" \notin flags.sigs
      BY <1>2 DEF EndsAlone
    <3>3. \A c \in flags.queued : ~ Takes(t, c)
      BY <1>2 DEF Takes
    <3>4. th[t].sig = "FINISH" => Ends(t)
      BY <1>2 DEF Ends
    <3> QED
      BY <1>0, <1>2, <2>2, <3>1, <3>2, <3>3, <3>4, TakesLock
  <2> QED
    BY <2>1, <2>2
<1>3. CASE th[t].pc = "send3"
  <2>1. /\ Moves(t) /\ th'[t].pc = "send4" /\ th'[t].sig = th[t].sig
        /\ flags' \in Flags /\ flags'.locked = flags.locked /\ flags'.queued = flags.queued
        /\ flags'.sigs = flags.sigs \cup {th[t].sig}
    BY <1>0, <1>3, SMT DEF job_send_signals, Moves, Stay, ThreadType, Flags, Pcs, Holding
  <2>2. JobTypeOK'
    BY <1>0, <2>1 DEF JobTypeOK, Moves, ThreadType
  <2>3. Counts'
    BY <1>0, <1>3, <2>1, KeepsCall
  <2>4. LockHeld'
    BY <1>3, <2>1 DEF LockHeld, Moves, Holding
  <2>5. QueuedKept'
    <3>1. \A c, u : u \in Threads /\ Takes(u, c) => Takes(u, c)'
      BY <1>3, <2>1 DEF Moves, Takes
    <3> QED
      BY <1>0, <2>1, <3>1 DEF QueuedKept
  <2>6. SignalsKept'
    BY <2>1 DEF SignalsKept, Tries
  <2>7. EndsAlone'
    <3>1. \A u \in Threads : u # t => th'[u] = th[u] /\ (Ends(u)' <=> Ends(u))
      BY <2>1 DEF Moves, Ends
    <3>2. \A u \in Threads : u # t => ~ (th[u].pc = "run" /\ th[u].sig = "FINISH")
      BY <1>3, Sole DEF EndsAlone, Ends
    <3>3. "FINISH" \notin flags'.sigs
      BY <1>3, <2>1 DEF EndsAlone
    <3> QED
      BY <1>0, <1>3, <2>1, <3>1, <3>2, <3>3, SMT DEF EndsAlone, Ends
  <2> QED
    BY <2>2, <2>3, <2>4, <2>5, <2>6, <2>7
<1>4. CASE th[t].pc = "send4"
  <2>1. CASE flags.locked
    <3>1. Moves(t) /\ flags' = flags /\ th'[t].pc = "decref1"
      BY <1>0, <1>4, <2>1, SMT DEF job_send_signals, try_lock_job, Moves, Stay, ThreadType, Pcs, Holding
    <3>2. "FINISH" \notin flags.sigs
      BY <1>4 DEF EndsAlone
    <3>3. \A c \in flags.queued : ~ Takes(t, c)
      BY <1>4 DEF Takes
    <3>4. ~ Ends(t)'
      BY <3>1 DEF Ends
    <3> QED
      BY <1>0, <1>4, <2>1, <3>1, <3>2, <3>3, <3>4, StaysOutside DEF Holding
  <2>2. CASE ~ flags.locked
    <3>1. /\ Moves(t) /\ th'[t].pc = "unlock"
          /\ flags' \in Flags /\ flags'.locked /\ flags'.sigs = flags.sigs
          /\ flags'.queued = flags.queued
      <4>1. Moves(t) /\ th'[t].pc = "unlock"
        BY <1>0, <1>4, <2>2, GoMoves DEF job_send_signals, try_lock_job, Pcs, Holding
      <4>2. flags' = [locked |-> TRUE, sigs |-> flags.sigs \cup {}, queued |-> flags.queued \ {}]
        BY <1>4, <2>2 DEF job_send_signals, try_lock_job
      <4> QED
        BY <1>0, <4>1, <4>2 DEF Flags
    <3>2. \A c \in flags.queued : ~ Takes(t, c)
      BY <1>4 DEF Takes
    <3> QED
      BY <1>0, <1>4, <2>2, <3>1, <3>2, TakesLock
  <2> QED
    BY <2>1, <2>2
<1> QED
  BY <1>1, <1>2, <1>3, <1>4 DEF job_send_signals

(* The choice of the unlock_job loop, and its release of the lock.         *)
LEMMA LoopStep ==
  ASSUME JobInv, NEW t \in Threads, unlock_job(t) \/ Release(t)
  PROVE  JobInv'
<1> USE DEF JobInv
<1>0. /\ th \in [Threads -> ThreadType] /\ flags \in Flags /\ left' \in 0..MaxLeft
      /\ UNCHANGED <<refcnt, alive, queue, refs, left>>
  BY DEF JobTypeOK, unlock_job, Release, ThreadType
<1>1. CASE unlock_job(t)
  <2>0. th[t].pc = "unlock"
    BY <1>1 DEF unlock_job
  <2>1. CASE flags.sigs = {}
    <3>1. Moves(t) /\ flags' = flags /\ th'[t].pc = "release" /\ th'[t].seen = flags
      BY <1>0, <1>1, <2>1, SMT DEF unlock_job, Moves, ThreadType, Pcs, Holding
    <3> QED
      BY <1>0, <2>0, <2>1, <3>1, StaysInside DEF Holding
  <2>2. CASE flags.sigs # {}
    <3> DEFINE s == Highest(flags.sigs)
    <3>1. s \in flags.sigs /\ s \in Signals /\ ("FINISH" \in flags.sigs => s = "FINISH")
      BY <1>0, <2>2, HighestSignal DEF Flags
    <3> HIDE DEF s
    <3>2. CASE CanRun(t, s)
      <4>1. /\ Moves(t) /\ th'[t].pc = "run" /\ th'[t].sig = s
            /\ flags' \in Flags /\ flags'.locked = flags.locked /\ flags'.queued = flags.queued
            /\ flags'.sigs = flags.sigs \ {s}
        <5>1. flags' = [flags EXCEPT !.sigs = @ \ {s}] /\ th' = [th EXCEPT ![t].pc = "run", ![t].sig = s]
          BY <1>1, <2>2, <3>2 DEF unlock_job, s
        <5>2. Moves(t) /\ th'[t].pc = "run" /\ th'[t].sig = s
          BY <1>0, <3>1, <5>1 DEF Moves, ThreadType, Pcs, Holding
        <5> QED
          BY <1>0, <5>1, <5>2 DEF Flags
      <4>2. s = "FINISH" => flags'.sigs = {} /\ refcnt = 1
        BY <3>1, <4>1 DEF EndsAlone
      <4>3. "FINISH" \notin flags'.sigs
        BY <3>1, <4>1
      <4> QED
        BY <1>0, <2>0, <4>1, <4>2, <4>3, StaysInside DEF Holding
    <3>3. CASE ~ CanRun(t, s)
      <4>1. Moves(t) /\ flags' = flags /\ th'[t].pc = "enqueue"
        BY <1>0, <1>1, <2>2, <3>1, <3>3, SMT DEF unlock_job, Moves, ThreadType, Pcs, Holding, s
      <4> QED
        BY <1>0, <2>0, <4>1, StaysInside DEF Holding
    <3> QED
      BY <3>2, <3>3
  <2> QED
    BY <2>1, <2>2
<1>2. CASE Release(t)
  <2>0. th[t].pc = "release"
    BY <1>2 DEF Release
  <2>1. CASE flags = th[t].seen
    <3>1. /\ Moves(t) /\ th'[t].pc = "drop1"
          /\ flags' \in Flags /\ ~ flags'.locked /\ flags'.queued = flags.queued
          /\ flags'.sigs = flags.sigs
      <4>1. Moves(t) /\ th'[t].pc = "drop1"
        BY <1>0, <1>2, <2>1, GoMoves DEF Release, Pcs
      <4> QED
        BY <1>0, <1>2, <2>1, <4>1 DEF Release, Flags
    <3>2. flags.sigs = {}
      BY <2>0, <2>1 DEF LockHeld
    <3>3. JobTypeOK'
      BY <1>0, <3>1 DEF JobTypeOK, Moves, ThreadType
    <3>4. Counts'
      BY <1>0, <2>0, <3>1, KeepsCall
    <3>5. LockHeld'
      BY <2>0, <3>1 DEF LockHeld, Moves, Holding
    <3>6. QueuedKept'
      <4>1. \A c, u : u \in Threads /\ Takes(u, c) => Takes(u, c)'
        BY <2>0, <3>1 DEF Moves, Takes
      <4> QED
        BY <1>0, <3>1, <4>1 DEF QueuedKept
    <3>7. SignalsKept'
      BY <3>1, <3>2 DEF SignalsKept
    <3>8. EndsAlone'
      BY <1>0, <2>0, <3>1, <3>2 DEF EndsAlone, Ends, Moves
    <3> QED
      BY <3>3, <3>4, <3>5, <3>6, <3>7, <3>8
  <2>2. CASE flags # th[t].seen
    <3>1. Moves(t) /\ flags' = flags /\ th'[t].pc = "unlock"
      BY <1>0, <1>2, <2>2, GoMoves DEF Release, Pcs, Holding
    <3> QED
      BY <1>0, <2>0, <3>1, StaysInside DEF Holding
  <2> QED
    BY <2>1, <2>2
<1> QED
  BY <1>1, <1>2

(* A reference is dropped in two steps: the count is read.                 *)
LEMMA ReadStep ==
  ASSUME JobInv, NEW t \in Threads, NEW from \in {"drop1", "decref1"}, NEW to \in {"drop2", "decref2"},
         NEW last \in {"last", "finish"}, ReadCount(t, from, to, last)
  PROVE  JobInv'
<1> USE DEF JobInv
<1>1. /\ th \in [Threads -> ThreadType] /\ th[t].pc = from /\ left' \in 0..MaxLeft /\ refcnt \in Nat
      /\ UNCHANGED <<flags, refcnt, alive, queue, refs>>
  BY DEF JobTypeOK, ReadCount, ThreadType
<1>2. Moves(t) /\ th'[t].pc = IF refcnt >= 2 THEN to ELSE last
  <2>1. (IF refcnt >= 2 THEN to ELSE last) \in Pcs
    BY DEF Pcs
  <2> QED
    BY <1>1, <2>1, GoMoves DEF ReadCount
<1>3. refcnt < 2 => refcnt = 1
  BY <1>1, CountFacts, SMT
<1>4. Ends(t)' => refcnt = 1
  BY <1>1, <1>2, <1>3, SMT DEF Ends
<1>5. "FINISH" \notin flags.sigs
  BY <1>1 DEF EndsAlone
<1>6. \A c \in flags.queued : ~ Takes(t, c)
  BY <1>1 DEF Takes
<1>7. th[t].pc \in {"drop1", "decref1"} /\ th'[t].pc \in {"drop2", "decref2", "last", "finish"}
  BY <1>1, <1>2
<1> QED
  BY <1>1, <1>2, <1>4, <1>5, <1>6, <1>7, StaysOutside DEF Holding, Tries

(* Then one is subtracted, unless the count has become one meanwhile.      *)
LEMMA SubtractStep ==
  ASSUME JobInv, NEW t \in Threads, NEW from \in {"drop2", "decref2"}, NEW last \in {"last", "finish"},
         Subtract(t, from, last)
  PROVE  JobInv'
<1> USE DEF JobInv
<1>1. /\ th \in [Threads -> ThreadType] /\ th[t].pc = from /\ left' \in 0..MaxLeft /\ refcnt \in Nat
      /\ UNCHANGED <<flags, alive, queue, refs, left>>
  BY DEF JobTypeOK, Subtract, ThreadType
<1>2. "FINISH" \notin flags.sigs
  BY <1>1 DEF EndsAlone
<1>3. \A c \in flags.queued : ~ Takes(t, c)
  BY <1>1 DEF Takes
<1>4. CASE refcnt = 1
  <2>1. Moves(t) /\ th'[t].pc = last /\ refcnt' = refcnt
    <3>1. last \in Pcs
      BY DEF Pcs
    <3> QED
      BY <1>1, <1>4, <3>1, GoMoves DEF Subtract
  <2>2. th[t].pc \in {"drop2", "decref2"} /\ th'[t].pc \in {"last", "finish"}
    BY <1>1, <2>1
  <2> QED
    BY <1>1, <1>2, <1>3, <1>4, <2>1, <2>2, StaysOutside DEF Holding, Tries
<1>5. CASE refcnt # 1
  <2>1. Moves(t) /\ th'[t].pc = "idle" /\ refcnt' = refcnt - 1
    BY <1>1, <1>5, IdleRecord, SetMoves DEF Subtract
  <2>2. refcnt > 1
    BY <1>1, <1>5, CountFacts, SMT
  <2>3. JobTypeOK'
    BY <1>1, <2>1, <2>2, SMT DEF JobTypeOK, Moves, ThreadType
  <2>4. Counts'
    <3>1. Calls' = Calls - 1
      BY <1>1, <2>1, EndsCall
    <3>2. Callers' = Callers /\ Entries' = Entries
      BY <1>1 DEF Callers, Entries
    <3> QED
      BY <1>1, <2>1, <2>2, <3>1, <3>2, CountFacts, SMT DEF Counts
  <2>5. LockHeld'
    BY <1>1, <2>1 DEF LockHeld, Moves, Holding
  <2>6. QueuedKept'
    <3>1. \A c, u : u \in Threads /\ u # t /\ Takes(u, c) => Takes(u, c)'
      BY <2>1 DEF Moves, Takes
    <3> QED
      BY <1>1, <1>3, <3>1 DEF QueuedKept
  <2>7. SignalsKept'
    BY <1>1, <2>1 DEF SignalsKept, Moves, Tries
  <2>8. EndsAlone'
    <3>1. \A u \in Threads : ~ Ends(u)
      BY <1>5 DEF EndsAlone
    <3>2. \A u \in Threads : ~ Ends(u)'
      BY <2>1, <3>1 DEF Moves, Ends
    <3> QED
      BY <1>1, <1>2, <2>1, <3>2 DEF EndsAlone, Ends, Moves
  <2> QED
    BY <2>3, <2>4, <2>5, <2>6, <2>7, <2>8
<1> QED
  BY <1>4, <1>5

(* Whoever has the last reference sends JS_FINISH.                         *)
LEMMA FinishStep ==
  ASSUME JobInv, NEW t \in Threads, SendFinish(t) \/ DecrefLast(t)
  PROVE  JobInv'
<1> USE DEF JobInv
<1>0. /\ th \in [Threads -> ThreadType] /\ flags \in Flags /\ left' \in 0..MaxLeft
      /\ UNCHANGED <<refcnt, alive, queue, refs, left>> /\ th[t].pc \in {"last", "finish"}
  BY DEF JobTypeOK, SendFinish, DecrefLast, ThreadType
<1>1. Ends(t) /\ refcnt = 1 /\ "FINISH" \notin flags.sigs /\ \A c \in flags.queued : ~ Takes(t, c)
  BY <1>0 DEF Ends, EndsAlone, Takes
<1>2. CASE SendFinish(t)
  <2>1. /\ Moves(t) /\ th'[t].pc = "unlock" /\ "FINISH" \in Signals
        /\ flags' \in Flags /\ flags'.locked /\ flags'.queued = flags.queued
        /\ flags'.sigs = flags.sigs \cup {"FINISH"}
    <3>1. Moves(t) /\ th'[t].pc = "unlock" /\ "FINISH" \in Signals
      BY <1>0, <1>2, GoMoves, JobConstants DEF SendFinish, Pcs, Holding
    <3> QED
      BY <1>0, <1>2, <3>1 DEF SendFinish, Flags
  <2>2. ~ flags.locked
    BY <1>0, <1>1, Sole DEF LockHeld, Holding
  <2> QED
    BY <1>0, <1>1, <2>1, <2>2, TakesLock
<1>3. CASE DecrefLast(t)
  <2>1. Moves(t) /\ th'[t].pc = "send1" /\ flags' = flags
    <3>1. "FINISH" \in Signals /\ "send1" \in Pcs
      BY JobConstants DEF Pcs
    <3> QED
      BY <1>0, <1>3, <3>1 DEF DecrefLast, Moves, ThreadType
  <2> QED
    BY <1>0, <1>1, <2>1, StaysOutside DEF Holding, Tries
<1> QED
  BY <1>2, <1>3

(* A handler returns.                                                      *)
LEMMA ExecuteStep ==
  ASSUME JobInv, NEW t \in Threads, j_execute(t)
  PROVE  JobInv'
<1> USE DEF JobInv
<1>0. /\ th \in [Threads -> ThreadType] /\ flags \in Flags /\ left \in 0..MaxLeft /\ MaxLeft \in Nat
      /\ UNCHANGED <<queue, refs>> /\ th[t].pc = "run"
  BY JobConstants DEF JobTypeOK, j_execute, ThreadType
<1>1. CASE th[t].sig = "FINISH"
  <2>1. /\ Moves(t) /\ th'[t].pc = "idle" /\ refcnt' = refcnt - 1 /\ alive' = FALSE /\ left' = 0
        /\ flags' \in Flags /\ ~ flags'.locked /\ flags'.queued = flags.queued /\ flags'.sigs = flags.sigs
    <3>1. Moves(t) /\ th'[t].pc = "idle"
      BY <1>0, <1>1, IdleRecord, SetMoves DEF j_execute
    <3> QED
      BY <1>0, <1>1, <3>1 DEF j_execute, Flags
  <2>2. refcnt = 1 /\ flags.sigs = {}
    BY <1>0, <1>1 DEF EndsAlone, Ends
  <2>3. (\A q \in Queues : queue[q] = 0) /\ \A u \in Threads : th'[u].pc = "idle"
    BY <1>0, <2>1, <2>2, Sole DEF Moves
  <2>4. flags.queued = {}
    <3>1. \A c \in flags.queued : QueueOf[c] \in Queues
      BY <1>0, JobConstants DEF Flags
    <3>2. \A u \in Threads : u = t \/ th[u].pc = "idle"
      BY <1>0, <2>2, Sole
    <3>3. \A c : \A u \in Threads : ~ Takes(u, c)
      BY <1>0, <3>2 DEF Takes
    <3> QED
      BY <2>3, <3>1, <3>3, SMT DEF QueuedKept
  <2>5. JobTypeOK'
    <3>1. alive' \in BOOLEAN
      BY <2>1
    <3>2. refcnt' = 0 /\ left' = 0
      BY <2>1, <2>2, SMT
    <3> QED
      BY <1>0, <2>1, <3>1, <3>2, SMT DEF JobTypeOK, Moves, ThreadType
  <2>6. Counts'
    <3>1. Calls' = Calls - 1
      BY <1>0, <2>1, EndsCall
    <3>2. Callers' = Callers /\ Entries' = Entries
      BY <1>0 DEF Callers, Entries
    <3> QED
      BY <1>0, <2>1, <2>2, <3>1, <3>2, CountFacts, SMT DEF Counts
  <2>7. LockHeld' /\ EndsAlone'
    BY <2>1, <2>2, <2>3 DEF LockHeld, EndsAlone, Ends, Holding
  <2>8. QueuedKept' /\ SignalsKept'
    BY <2>1, <2>2, <2>4 DEF QueuedKept, SignalsKept
  <2> QED
    BY <2>5, <2>6, <2>7, <2>8
<1>2. CASE th[t].sig # "FINISH"
  <2>1. /\ Moves(t) /\ th'[t].pc = "unlock" /\ UNCHANGED <<refcnt, alive>> /\ left' \in 0..MaxLeft
        /\ flags' \in Flags /\ flags'.locked = flags.locked /\ flags'.queued = flags.queued
        /\ flags'.sigs \in {flags.sigs, flags.sigs \cup {"RUN"}}
    <3>1. Moves(t) /\ th'[t].pc = "unlock" /\ UNCHANGED <<refcnt, alive>> /\ left' \in 0..MaxLeft
      BY <1>0, <1>2, GoMoves, SMT DEF j_execute, Pcs, Holding
    <3>2. flags' = flags \/ flags' = [flags EXCEPT !.sigs = @ \cup {"RUN"}]
      BY <1>0, <1>2 DEF j_execute
    <3> QED
      BY <1>0, <3>1, <3>2, JobConstants DEF Flags
  <2>2. "FINISH" \notin flags'.sigs
    BY <1>0, <2>1, SMT DEF EndsAlone
  <2> QED
    BY <1>0, <2>1, <2>2, StaysInside DEF Holding
<1> QED
  BY <1>1, <1>2

(* The job is queued for another class of threads.                         *)
LEMMA EnqueueStep ==
  ASSUME JobInv, NEW t \in Threads, Enqueue(t)
  PROVE  JobInv'
<1> USE DEF JobInv
<1> DEFINE c == QueueClass(th[t].sig)
<1>0. /\ th \in [Threads -> ThreadType] /\ flags \in Flags /\ left' \in 0..MaxLeft
      /\ UNCHANGED <<refcnt, alive, refs, left>> /\ th[t].pc = "enqueue"
      /\ queue \in [Queues -> Nat] /\ refcnt \in Nat
  BY DEF JobTypeOK, Enqueue, ThreadType
<1>1. c \in Classes /\ QueueOf[c] \in Queues
  BY <1>0, JobConstants DEF QueueClass, ThreadType
<1>2. CASE flags # th[t].seen
  <2>1. Moves(t) /\ flags' = flags /\ queue' = queue /\ th'[t].pc = "unlock"
    BY <1>0, <1>2, GoMoves DEF Enqueue, Pcs, Holding
  <2> QED
    BY <1>0, <2>1, StaysInside DEF Holding
<1>3. CASE flags = th[t].seen
  <2>1. /\ flags' \in Flags /\ ~ flags'.locked /\ flags'.sigs = flags.sigs
        /\ flags'.queued = flags.queued \cup {c}
    <3>1. flags' = [flags EXCEPT !.locked = FALSE, !.queued = @ \cup {c}]
      BY <1>3 DEF Enqueue
    <3> QED
      BY <1>0, <1>1, <3>1 DEF Flags
  <2>2. \A u \in Threads : u # t => th[u].pc \notin Holding
    BY <1>0 DEF LockHeld, Holding
  <2>3. CASE c \in flags.queued
    <3>1. Moves(t) /\ queue' = queue /\ th'[t].pc = "decref1"
      BY <1>0, <1>3, <2>3, GoMoves DEF Enqueue, Pcs
    <3>2. JobTypeOK'
      BY <1>0, <2>1, <3>1 DEF JobTypeOK, Moves, ThreadType
    <3>3. Counts'
      BY <1>0, <3>1, KeepsCall
    <3>4. LockHeld'
      BY <1>0, <2>1, <2>2, <3>1 DEF LockHeld, Moves, Holding
    <3>5. \A d, u : u \in Threads /\ Takes(u, d) => u # t /\ Takes(u, d)' /\ th[u].pc \in Tries
      BY <1>0, <3>1 DEF Moves, Takes, Tries
    <3>6. QueuedKept'
      BY <2>1, <2>3, <3>1, <3>5 DEF QueuedKept
    <3>7. queue[QueueOf[c]] > 0 \/ \E u \in Threads : u # t /\ th[u].pc \in Tries
      BY <2>3, <3>5 DEF QueuedKept
    <3>8. SignalsKept'
      BY <1>1, <3>1, <3>7 DEF SignalsKept, Moves
    <3>9. "FINISH" \notin flags.sigs
      <4>1. refcnt # 1
        BY <1>0, <1>1, <3>7, Sole, SMT DEF Tries
      <4> QED
        BY <4>1 DEF EndsAlone
    <3>10. EndsAlone'
      BY <1>0, <2>1, <2>2, <3>1, <3>9 DEF EndsAlone, Ends, Moves, Holding
    <3> QED
      BY <3>2, <3>3, <3>4, <3>6, <3>8, <3>10
  <2>4. CASE c \notin flags.queued
    <3>1. /\ Moves(t) /\ th'[t].pc = "idle"
          /\ queue' = [queue EXCEPT ![QueueOf[c]] = @ + 1]
      BY <1>0, <1>3, <2>4, IdleRecord, SetMoves DEF Enqueue
    <3>2. /\ queue' \in [Queues -> Nat] /\ queue'[QueueOf[c]] > 0
          /\ \A q \in Queues : queue[q] > 0 => queue'[q] > 0
      BY <1>0, <1>1, <3>1, SMT
    <3>3. JobTypeOK'
      BY <1>0, <2>1, <3>1, <3>2 DEF JobTypeOK, Moves, ThreadType
    <3>4. Counts'
      <4>1. Calls' = Calls - 1
        BY <1>0, <3>1, EndsCall
      <4>2. IsFiniteSet(Each(queue')) /\ Entries' = Entries + 1
        BY <1>0, <1>1, <3>1, EachMore DEF Counts, Entries
      <4>3. Callers' = Callers
        BY <1>0 DEF Callers
      <4> QED
        BY <1>0, <4>1, <4>2, <4>3, CountFacts, SMT DEF Counts
    <3>5. LockHeld'
      BY <1>0, <2>1, <2>2, <3>1 DEF LockHeld, Moves, Holding
    <3>6. QueuedKept'
      <4>1. \A d, u : u \in Threads /\ Takes(u, d) => Takes(u, d)'
        BY <1>0, <3>1 DEF Moves, Takes
      <4>2. \A d \in flags.queued : QueueOf[d] \in Queues
        BY <1>0, JobConstants DEF Flags
      <4> QED
        BY <2>1, <3>2, <4>1, <4>2 DEF QueuedKept
    <3>7. SignalsKept'
      BY <1>1, <3>2 DEF SignalsKept
    <3>8. EndsAlone'
      BY <1>0, <2>1, <2>2, <3>1 DEF EndsAlone, Ends, Moves, Holding
    <3> QED
      BY <3>3, <3>4, <3>5, <3>6, <3>7, <3>8
  <2> QED
    BY <2>3, <2>4
<1> QED
  BY <1>2, <1>3

(* A thread that popped an entry tries to lock the job.                    *)
LEMMA ProcessStep ==
  ASSUME JobInv, NEW t \in Threads, process_one_job(t)
  PROVE  JobInv'
<1> USE DEF JobInv
<1> DEFINE queued_flag == th[t].seen.queued \cap job_class_mask(t)
<1>0. /\ th \in [Threads -> ThreadType] /\ flags \in Flags /\ left' \in 0..MaxLeft
      /\ UNCHANGED <<refcnt, alive, queue, refs, left>>
  BY DEF JobTypeOK, process_one_job, ThreadType
<1>1. CASE th[t].pc = "process0"
  <2>1. Moves(t) /\ flags' = flags /\ th'[t].pc = "process1" /\ th'[t].seen = flags
    BY <1>0, <1>1, SMT DEF process_one_job, Moves, ThreadType, Pcs, Holding
  <2>2. \A c \in flags.queued : Takes(t, c) => Takes(t, c)'
    BY <1>1, <2>1 DEF Takes
  <2>3. ~ Ends(t)'
    BY <2>1 DEF Ends
  <2> QED
    BY <1>0, <1>1, <2>1, <2>2, <2>3, StaysOutside DEF Holding, Tries
<1>2. CASE th[t].pc = "process1" /\ flags.locked
  <2>1. Moves(t) /\ flags' = flags /\ th'[t].pc = "process2" /\ th'[t].seen = th[t].seen
    BY <1>0, <1>2, SMT DEF process_one_job, try_lock_job, Stay, Moves, ThreadType, Pcs, Holding
  <2>2. \A c \in flags.queued : Takes(t, c) => Takes(t, c)'
    BY <1>2, <2>1 DEF Takes
  <2>3. "FINISH" \notin flags.sigs
    BY <1>2, Sole DEF EndsAlone, LockHeld, Holding
  <2>4. ~ Ends(t)'
    BY <2>1 DEF Ends
  <2> QED
    BY <1>0, <1>2, <2>1, <2>2, <2>3, <2>4, StaysOutside DEF Holding, Tries
<1>3. \A c \in flags.queued : Takes(t, c) /\ th[t].pc \in {"process1", "process2"} => c \in queued_flag
  BY <1>0 DEF Takes, job_class_mask, Flags
<1>4. CASE th[t].pc = "process1" /\ ~ flags.locked
  <2>1. /\ Moves(t) /\ th'[t].pc = "unlock" /\ flags' \in Flags /\ flags'.locked
        /\ flags'.sigs = flags.sigs /\ flags'.queued = flags.queued \ queued_flag
    <3>1. Moves(t) /\ th'[t].pc = "unlock"
      BY <1>0, <1>4, GoMoves DEF process_one_job, try_lock_job, Pcs, Holding
    <3>2. flags' = [locked |-> TRUE, sigs |-> flags.sigs \cup {}, queued |-> flags.queued \ queued_flag]
      BY <1>4 DEF process_one_job, try_lock_job
    <3> QED
      BY <1>0, <3>1, <3>2 DEF Flags
  <2>2. \A c \in flags'.queued : ~ Takes(t, c)
    BY <1>3, <1>4, <2>1
  <2> QED
    BY <1>0, <1>4, <2>1, <2>2, TakesLock
<1>5. CASE th[t].pc = "process2"
  <2>1. /\ Moves(t) /\ th'[t].pc = "process3" /\ flags' \in Flags /\ flags'.locked = flags.locked
        /\ flags'.sigs = flags.sigs /\ flags'.queued = flags.queued \ queued_flag
    <3>1. Moves(t) /\ th'[t].pc = "process3"
      BY <1>0, <1>5, GoMoves DEF process_one_job, Pcs
    <3>2. flags' = [flags EXCEPT !.queued = @ \ queued_flag]
      BY <1>5 DEF process_one_job
    <3> QED
      BY <1>0, <3>1, <3>2 DEF Flags
  <2>2. JobTypeOK'
    BY <1>0, <2>1 DEF JobTypeOK, Moves, ThreadType
  <2>3. Counts'
    BY <1>0, <1>5, <2>1, KeepsCall
  <2>4. LockHeld'
    BY <1>5, <2>1 DEF LockHeld, Moves, Holding
  <2>5. QueuedKept'
    <3>1. \A c, u : u \in Threads /\ u # t /\ Takes(u, c) => Takes(u, c)'
      BY <2>1 DEF Moves, Takes
    <3>2. \A c \in flags'.queued : c \in flags.queued /\ ~ Takes(t, c)
      BY <1>3, <1>5, <2>1
    <3> QED
      BY <1>0, <3>1, <3>2 DEF QueuedKept
  <2>6. SignalsKept'
    BY <2>1 DEF SignalsKept, Tries
  <2>7. EndsAlone'
    BY <1>0, <1>5, <2>1 DEF EndsAlone, Ends, Moves
  <2> QED
    BY <2>2, <2>3, <2>4, <2>5, <2>6, <2>7
<1>6. CASE th[t].pc = "process3"
  <2>1. "FINISH" \notin flags.sigs /\ \A c \in flags.queued : ~ Takes(t, c)
    BY <1>6 DEF EndsAlone, Takes
  <2>2. CASE flags.locked
    <3>1. Moves(t) /\ flags' = flags /\ th'[t].pc = "decref1"
      BY <1>0, <1>6, <2>2, SMT DEF process_one_job, try_lock_job, Stay, Moves, ThreadType, Pcs, Holding
    <3>2. ~ Ends(t)'
      BY <3>1 DEF Ends
    <3> QED
      BY <1>0, <1>6, <2>1, <2>2, <3>1, <3>2, StaysOutside DEF Holding
  <2>3. CASE ~ flags.locked
    <3>1. /\ Moves(t) /\ th'[t].pc = "unlock" /\ flags' \in Flags /\ flags'.locked
          /\ flags'.sigs = flags.sigs /\ flags'.queued = flags.queued
      <4>1. Moves(t) /\ th'[t].pc = "unlock"
        BY <1>0, <1>6, <2>3, GoMoves DEF process_one_job, try_lock_job, Pcs, Holding
      <4>2. flags' = [locked |-> TRUE, sigs |-> flags.sigs \cup {}, queued |-> flags.queued \ {}]
        BY <1>6, <2>3 DEF process_one_job, try_lock_job
      <4> QED
        BY <1>0, <4>1, <4>2 DEF Flags
    <3> QED
      BY <1>0, <1>6, <2>1, <2>3, <3>1, TakesLock
  <2> QED
    BY <2>2, <2>3
<1> QED
  BY <1>1, <1>2, <1>4, <1>5, <1>6 DEF process_one_job

(* A job is created where none is left.                                    *)
LEMMA CreateStep ==
  ASSUME JobInv, NEW t \in Threads, create_async_job(t)
  PROVE  JobInv'
<1> USE DEF JobInv
<1>1. PICK r \in [Threads -> 0..MaxRefs], s \in SUBSET {"RUN"}, b \in BOOLEAN :
        /\ refs' = r /\ refcnt' = 1 + Cardinality(Each(r))
        /\ flags' = [NoFlags EXCEPT !.locked = TRUE, !.sigs = s]
        /\ th' = [th EXCEPT ![t] = Doing("unlock", "RUN", b)]
  BY DEF create_async_job
<1>2. /\ th \in [Threads -> ThreadType] /\ MaxLeft \in Nat /\ MaxRefs \in Nat
      /\ ~ alive /\ alive' /\ left' = MaxLeft /\ queue' = queue
  BY JobConstants DEF JobTypeOK, create_async_job, ThreadType
<1>3. /\ Moves(t) /\ th'[t].pc = "unlock" /\ flags' \in Flags /\ flags'.locked
      /\ flags'.sigs = s /\ flags'.queued = {}
  <2>1. "RUN" \in Signals /\ "unlock" \in Pcs
    BY JobConstants DEF Pcs, Holding
  <2>2. Moves(t) /\ th'[t].pc = "unlock"
    <3>1. Doing("unlock", "RUN", b) \in ThreadType /\ Doing("unlock", "RUN", b).pc = "unlock"
      BY <2>1, DoingRecord, SMT
    <3> QED
      BY <1>1, <1>2, <3>1, SetMoves
  <2>3. flags' = [locked |-> TRUE, sigs |-> s, queued |-> {}]
    BY <1>1 DEF NoFlags
  <2>4. s \in SUBSET Signals
    BY <2>1
  <2> QED
    BY <2>2, <2>3, <2>4 DEF Flags
<1>4. \A u \in Threads : th[u].pc = "idle"
  BY <1>2, CountFacts, SMT DEF Counts
<1>5. IsFiniteSet(Each(r)) /\ Cardinality(Each(r)) \in Nat
  <2>1. r \in [Threads -> Nat]
    BY <1>2, SMT
  <2>2. Each(r) \subseteq Threads \X (1..MaxRefs)
    BY <1>2, <2>1, EachElements, SMT
  <2>3. IsFiniteSet(Threads \X (1..MaxRefs))
    <3>1. IsFiniteSet(1..MaxRefs)
      BY <1>2, FS_Interval, SMT
    <3> QED
      BY <3>1, JobConstants, FS_Product
  <2> QED
    BY <2>2, <2>3, FS_Subset, FS_CardinalityType
<1>6. JobTypeOK'
  BY <1>1, <1>2, <1>3, <1>5, SMT DEF JobTypeOK, Moves, ThreadType
<1>7. Counts'
  <2>1. Calls = 0 /\ Entries = 0 /\ Calls' = Calls + 1
    BY <1>2, <1>3, <1>4, CountFacts, BeginsCall, SMT DEF Counts
  <2>2. Entries' = Entries /\ Callers' = Cardinality(Each(r))
    BY <1>1, <1>2 DEF Entries, Callers
  <2> QED
    BY <1>1, <1>2, <1>5, <2>1, <2>2, SMTT(30) DEF Counts
<1>8. LockHeld'
  BY <1>3, <1>4 DEF LockHeld, Moves, Holding
<1>9. QueuedKept' /\ SignalsKept'
  BY <1>3 DEF QueuedKept, SignalsKept
<1>10. EndsAlone'
  BY <1>3, <1>4 DEF EndsAlone, Ends, Moves
<1> QED
  BY <1>6, <1>7, <1>8, <1>9, <1>10

(* While a caller has a reference, nobody is ending the job.               *)
LEMMA NotEnding ==
  ASSUME JobInv, NEW t \in Threads, refs[t] > 0 \/ (th[t].pc = "run" /\ th[t].sig # "FINISH")
  PROVE  alive /\ "FINISH" \notin flags.sigs /\ \A u \in Threads : ~ Ends(u)
<1> USE DEF JobInv
<1>1. refcnt > 0 /\ alive
  <2>1. Callers + Entries + Calls > 0
    BY CountFacts, SMT
  <2> QED
    BY <2>1, SMT DEF Counts
<1>2. CASE refs[t] > 0
  <2>1. \A u \in Threads : th[u].pc # "idle" => refcnt # 1
    BY <1>2, Sole, SMT
  <2>2. \A q \in Queues : queue[q] > 0 => refcnt # 1
    BY <1>2, CountFacts, SMT
  <2>3. \A u \in Threads : ~ Ends(u)
    BY <2>1 DEF EndsAlone, Ends
  <2>4. refcnt = 1 => flags.sigs = {}
    BY <2>1, <2>2 DEF SignalsKept, LockHeld, Holding, Tries
  <2> QED
    BY <1>1, <2>3, <2>4 DEF EndsAlone
<1>3. CASE th[t].pc = "run" /\ th[t].sig # "FINISH"
  <2>1. \A u \in Threads : ~ Ends(u)
    BY <1>3, Sole DEF EndsAlone, Ends
  <2> QED
    BY <1>1, <1>3, <2>1 DEF EndsAlone
<1> QED
  BY <1>2, <1>3

(* A reference is made.                                                    *)
LEMMA IncrefStep ==
  ASSUME JobInv, NEW t \in Threads, job_incref(t)
  PROVE  JobInv'
<1> USE DEF JobInv
<1>1. PICK u \in Threads : refs' = [refs EXCEPT ![u] = @ + 1]
  BY DEF job_incref
<1>2. /\ refs[t] > 0 \/ (th[t].pc = "run" /\ th[t].sig # "FINISH")
      /\ refcnt' = refcnt + 1 /\ left > 0 /\ left' = left - 1 /\ UNCHANGED <<flags, alive, queue, th>>
      /\ refs \in [Threads -> Nat] /\ MaxLeft \in Nat /\ left \in 0..MaxLeft
  BY JobConstants DEF job_incref, JobTypeOK
<1>3. alive /\ "FINISH" \notin flags.sigs /\ \A v \in Threads : ~ Ends(v)
  BY <1>2, NotEnding
<1>4. JobTypeOK'
  BY <1>1, <1>2, SMT DEF JobTypeOK
<1>5. Counts'
  <2>1. IsFiniteSet(Each(refs')) /\ Callers' = Callers + 1
    BY <1>1, <1>2, EachMore DEF Counts, Callers
  <2>2. Entries' = Entries /\ Calls' = Calls
    BY <1>2 DEF Entries, Calls, Active
  <2> QED
    BY <1>2, <1>3, <2>1, <2>2, CountFacts, SMT DEF Counts
<1>6. LockHeld' /\ SignalsKept'
  BY <1>2 DEF LockHeld, SignalsKept
<1>7. QueuedKept'
  BY <1>2 DEF QueuedKept, Takes
<1>8. EndsAlone'
  BY <1>2, <1>3 DEF EndsAlone, Ends
<1> QED
  BY <1>4, <1>5, <1>6, <1>7, <1>8

(* A caller uses its reference for a call.                                 *)
LEMMA CallStep ==
  ASSUME JobInv, NEW t \in Threads, Call(t)
  PROVE  JobInv'
<1> USE DEF JobInv
<1>1. /\ th \in [Threads -> ThreadType] /\ th[t].pc = "idle" /\ refs[t] > 0
      /\ refs' = [refs EXCEPT ![t] = @ - 1] /\ UNCHANGED <<flags, refcnt, alive, queue, left>>
      /\ refs \in [Threads -> Nat]
  BY DEF Call, JobTypeOK, ThreadType
<1>2. Moves(t) /\ (th'[t].pc = "decref1" \/ (th'[t].pc = "send1" /\ th'[t].sig # "FINISH"))
  <2>1. PICK b \in BOOLEAN :
          \/ \E s \in Signals \ {"FINISH"} :
               th' = [th EXCEPT ![t] = Doing("send1", s, b)]
          \/ th' = [th EXCEPT ![t] = Doing("decref1", "RUN", b)]
    BY DEF Call
  <2> QED
    <3>0. "RUN" \in Signals /\ "send1" \in Pcs /\ "decref1" \in Pcs
      BY JobConstants DEF Pcs
    <3>1. ASSUME NEW s \in Signals \ {"FINISH"}, th' = [th EXCEPT ![t] = Doing("send1", s, b)]
          PROVE  Moves(t) /\ th'[t].pc = "send1" /\ th'[t].sig # "FINISH"
      <4>1. /\ Doing("send1", s, b) \in ThreadType
            /\ Doing("send1", s, b).pc = "send1" /\ Doing("send1", s, b).sig = s
        BY <3>0, DoingRecord, SMT
      <4> QED
        BY <1>1, <3>1, <4>1, SetMoves
    <3>2. ASSUME th' = [th EXCEPT ![t] = Doing("decref1", "RUN", b)]
          PROVE  Moves(t) /\ th'[t].pc = "decref1"
      <4>1. Doing("decref1", "RUN", b) \in ThreadType /\ Doing("decref1", "RUN", b).pc = "decref1"
        BY <3>0, DoingRecord, SMT
      <4> QED
        BY <1>1, <3>2, <4>1, SetMoves
    <3> QED
      BY <2>1, <3>1, <3>2
<1>3. alive /\ "FINISH" \notin flags.sigs /\ \A v \in Threads : ~ Ends(v)
  BY <1>1, NotEnding
<1>4. refs' \in [Threads -> Nat] /\ IsFiniteSet(Each(refs')) /\ Callers' = Callers - 1
  BY <1>1, EachLess DEF Counts, Callers
<1>5. JobTypeOK'
  BY <1>1, <1>2, <1>4 DEF JobTypeOK, Moves, ThreadType
<1>6. Counts'
  <2>1. Calls' = Calls + 1
    BY <1>1, <1>2, BeginsCall
  <2>2. Entries' = Entries /\ IsFiniteSet(Each(queue))'
    BY <1>1 DEF Entries, Counts
  <2>3. refcnt = Callers + Entries + Calls /\ Callers \in Nat /\ Entries \in Nat /\ Calls \in Nat
    BY CountFacts
  <2> QED
    BY <1>1, <1>3, <1>4, <2>1, <2>2, <2>3, SMT DEF Counts
<1>7. LockHeld'
  BY <1>1, <1>2 DEF LockHeld, Moves, Holding
<1>8. QueuedKept'
  <2>1. \A c, u : u \in Threads /\ Takes(u, c) => Takes(u, c)'
    BY <1>1, <1>2 DEF Moves, Takes
  <2> QED
    BY <1>1, <2>1 DEF QueuedKept
<1>9. SignalsKept'
  BY <1>1, <1>2 DEF SignalsKept, Moves, Tries
<1>10. EndsAlone'
  <2>1. \A u \in Threads : ~ Ends(u)'
    BY <1>2, <1>3 DEF Moves, Ends
  <2>2. \A u \in Threads : th'[u].pc \in {"send3", "send4"} => th'[u].sig # "FINISH"
    BY <1>2 DEF EndsAlone, Moves
  <2> QED
    BY <1>1, <1>3, <2>1, <2>2 DEF EndsAlone, Ends
<1> QED
  BY <1>5, <1>6, <1>7, <1>8, <1>9, <1>10

(* A queue entry is popped.                                                *)
LEMMA PopStep ==
  ASSUME JobInv, NEW t \in Threads, PopJob(t)
  PROVE  JobInv'
<1> USE DEF JobInv
<1>1. /\ th \in [Threads -> ThreadType] /\ th[t].pc = "idle" /\ queue[Home[t]] > 0
      /\ queue' = [queue EXCEPT ![Home[t]] = @ - 1] /\ UNCHANGED <<flags, refcnt, alive, refs, left>>
      /\ queue \in [Queues -> Nat] /\ Home[t] \in Queues /\ flags \in Flags
  BY JobConstants DEF PopJob, JobTypeOK, ThreadType
<1>2. Moves(t) /\ th'[t].pc = "process0"
  <2>1. "RUN" \in Signals /\ "process0" \in Pcs
    BY JobConstants DEF Pcs
  <2> QED
    BY <1>1, <2>1, DoingRecord, SetMoves DEF PopJob
<1>3. queue' \in [Queues -> Nat] /\ IsFiniteSet(Each(queue')) /\ Entries' = Entries - 1
  <2>1. IsFiniteSet(Each(queue))
    BY DEF Counts
  <2>2. /\ queue' \in [Queues -> Nat] /\ IsFiniteSet(Each(queue'))
        /\ Cardinality(Each(queue')) = Cardinality(Each(queue)) - 1
    BY <1>1, <2>1, EachLess
  <2> QED
    BY <2>2 DEF Entries
<1>4. JobTypeOK'
  BY <1>1, <1>2, <1>3 DEF JobTypeOK, Moves, ThreadType
<1>5. Counts'
  <2>1. Calls' = Calls + 1
    BY <1>1, <1>2, BeginsCall
  <2>2. Callers' = Callers
    BY <1>1 DEF Callers
  <2> QED
    BY <1>1, <1>3, <2>1, <2>2, CountFacts, SMT DEF Counts
<1>6. LockHeld'
  BY <1>1, <1>2 DEF LockHeld, Moves, Holding
<1>7. QueuedKept'
  <2>1. \A c, u : u \in Threads /\ Takes(u, c) => Takes(u, c)'
    BY <1>1, <1>2 DEF Moves, Takes
  <2>2. \A c \in flags.queued : QueueOf[c] = Home[t] => Takes(t, c)'
    BY <1>2 DEF Takes
  <2>3. \A c \in flags.queued : QueueOf[c] # Home[t] => queue'[QueueOf[c]] = queue[QueueOf[c]]
    BY <1>1, JobConstants DEF Flags
  <2> QED
    BY <1>1, <2>1, <2>2, <2>3 DEF QueuedKept
<1>8. SignalsKept'
  BY <1>2 DEF SignalsKept, Tries
<1>9. EndsAlone'
  BY <1>1, <1>2 DEF EndsAlone, Ends, Moves
<1> QED
  BY <1>4, <1>5, <1>6, <1>7, <1>8, <1>9
-----------------------------------------------------------------------------
(* What the invariant is for.                                              *)
LEMMA InvariantSuffices ==
  ASSUME JobInv
  PROVE  JobsAccounted
<1> USE DEF JobInv
<1> DEFINE H == {t \in Threads : th[t].pc \in Holding}
<1>1. Cardinality(H) = IF flags.locked THEN 1 ELSE 0
  <2>1. CASE flags.locked
    <3>1. PICK t \in Threads : th[t].pc \in Holding
      BY <2>1 DEF LockHeld
    <3>2. H = {t}
      BY <3>1 DEF LockHeld
    <3> QED
      BY <2>1, <3>2, FS_Singleton
  <2>2. CASE ~ flags.locked
    BY <2>2, FS_EmptySet DEF LockHeld
  <2> QED
    BY <2>1, <2>2
<1>2. ASSUME NEW t \in Threads, th[t].pc = "run", th[t].sig = "FINISH"
      PROVE  refcnt = 1 /\ flags.sigs = {} /\ \A q \in Queues : queue[q] = 0
  BY <1>2, Sole DEF EndsAlone, Ends
<1> QED
  BY <1>1, <1>2 DEF JobsAccounted, Counts, Callers, Entries, Calls

(* The lock of a job, its reference count and its end are right in every   *)
(* reachable state, whatever the threads, classes, queues and bounds       *)
(* (unlock_job, job_decref, process_one_job).                              *)
THEOREM JobsAlwaysAccounted == JobSpec => [](JobTypeOK /\ JobsAccounted)
<1>1. JobInit => JobInv
  <2> SUFFICES ASSUME JobInit PROVE JobInv
    OBVIOUS
  <2> USE DEF JobInit
  <2>1. JobTypeOK
    <3>1. NoFlags \in Flags
      BY DEF NoFlags, Flags
    <3>2. "RUN" \in Signals /\ "idle" \in Pcs /\ MaxLeft \in Nat
      BY JobConstants DEF Pcs
    <3>3. th \in [Threads -> ThreadType]
      BY <3>2, IdleRecord
    <3> QED
      <4>1. alive \in BOOLEAN
        OBVIOUS
      <4> QED
        BY <3>1, <3>2, <3>3, <4>1, SMT DEF JobTypeOK, ThreadType
  <2>2. \A t \in Threads : th[t].pc = "idle"
    BY IdleRecord
  <2>3. Counts
    <3>1. refs \in [Threads -> Nat] /\ queue \in [Queues -> Nat]
      OBVIOUS
    <3>2. Each(refs) = {} /\ Each(queue) = {}
      BY <3>1, EachElements, SMT
    <3>3. Active = {}
      BY <2>2 DEF Active
    <3> QED
      BY <3>2, <3>3, FS_EmptySet, SMT DEF Counts, Callers, Entries, Calls
  <2>4. LockHeld /\ QueuedKept /\ SignalsKept /\ EndsAlone
    BY <2>2 DEF LockHeld, QueuedKept, SignalsKept, EndsAlone, Ends, NoFlags, Holding
  <2> QED
    BY <2>1, <2>3, <2>4 DEF JobInv
<1>2. JobInv /\ [JobNext]_jobVars => JobInv'
  <2>1. ASSUME JobInv, UNCHANGED jobVars PROVE JobInv'
    <3>0. UNCHANGED <<flags, refcnt, alive, queue, th, refs, left>>
      BY <2>1 DEF jobVars
    <3>1. JobTypeOK'
      BY <2>1, <3>0 DEF JobInv, JobTypeOK
    <3>2. Counts'
      BY <2>1, <3>0 DEF JobInv, Counts, Callers, Entries, Calls, Active
    <3>3. LockHeld' /\ SignalsKept'
      BY <2>1, <3>0 DEF JobInv, LockHeld, SignalsKept
    <3>4. QueuedKept'
      BY <2>1, <3>0 DEF JobInv, QueuedKept, Takes
    <3>5. EndsAlone'
      BY <2>1, <3>0 DEF JobInv, EndsAlone, Ends
    <3> QED
      BY <3>1, <3>2, <3>3, <3>4, <3>5 DEF JobInv
  <2>2. ASSUME JobInv, NEW t \in Threads, Step(t) PROVE JobInv'
    BY <2>2, SendStep, LoopStep, ReadStep, SubtractStep, FinishStep, ExecuteStep, EnqueueStep, ProcessStep DEF Step
  <2> QED
    BY <2>1, <2>2, CreateStep, IncrefStep, CallStep, PopStep DEF JobNext
<1>3. JobInv => JobTypeOK /\ JobsAccounted
  BY InvariantSuffices DEF JobInv
<1> QED
  BY <1>1, <1>2, <1>3, PTL DEF JobSpec
=============================================================================
