-------------------------- MODULE ConnTargetProofs --------------------------
(***************************************************************************)
(* Targets count their connections, for any addresses, any number of       *)
(* target jobs and connections, and any limits.                            *)
(***************************************************************************)
EXTENDS ConnTarget, FiniteSetTheorems, TLAPS

(* Most leaves are first-order; the ones with arithmetic cite SMT.         *)
USE ZenonT(60)

(* A target in the table has a reference for each entry of its address; one *)
(* that has left it has no connections.                                     *)
Held(j) ==
  /\ tgt[j].hashed => /\ tgt[j].addr \in Addrs /\ ~ tgt[j].completed
                      /\ tgt[j].global_refcnt = conf[tgt[j].addr]
  /\ ~ tgt[j].hashed => tgt[j].global_refcnt = 0 /\ tgt[j].tree = {} /\ tgt[j].ready = 0
  /\ ~ tgt[j].hashed /\ ~ tgt[j].completed => tgt[j] = FreeTarget

(* An address that the configuration names is in the table.                *)
Named == \A a \in Addrs : conf[a] > 0 => \E j \in Jobs : tgt[j].hashed /\ tgt[j].addr = a

(* A connection refers to its target until it is closed, and is in no tree *)
(* but that target's unless it has failed.                                 *)
Linked(c) ==
  /\ con[c].failed => con[c].error
  /\ con[c].status = "none" => con[c] = FreeConn
  /\ con[c].status # "none" /\ ~ con[c].failed => con[c].target \in Jobs
  /\ con[c].target \in Jobs => tgt[con[c].target].hashed \/ tgt[con[c].target].completed
  /\ con[c].status # "none" /\ ~ con[c].error =>
       tgt[con[c].target].hashed /\ c \in tgt[con[c].target].tree
  /\ \A j \in Jobs : c \in tgt[j].tree =>
       con[c].status # "none" /\ (con[c].error \/ con[c].target = j)

Counts(j) ==
  /\ tgt[j].outbound = Cardinality(tgt[j].tree)
  /\ tgt[j].active = Cardinality({c \in tgt[j].tree : connection_is_active(c)})

Hashed == {j \in Jobs : tgt[j].hashed}
Readied == {j \in Jobs : tgt[j].ready > 0}
StatsRight ==
  /\ stat.inactive = Cardinality(Unused(tgt))
  /\ stat.active = Cardinality(Hashed) - stat.inactive
  /\ stat.ready_targets = Cardinality(Readied)

TargetInv ==
  /\ TargetTypeOK /\ Named /\ StatsRight
  /\ \A j \in Jobs : Held(j) /\ Counts(j)
  /\ \A c \in Conns : Linked(c)
-----------------------------------------------------------------------------
(* Sets of jobs and of connections are finite.                             *)
LEMMA FiniteSets ==
  /\ \A S \in SUBSET Conns : IsFiniteSet(S) /\ Cardinality(S) \in Nat
  /\ \A S \in SUBSET Jobs : IsFiniteSet(S) /\ Cardinality(S) \in Nat
<1>1. NJobs \in Int /\ NConns \in Int
  BY TargetConstants, SMT
<1>2. IsFiniteSet(Conns) /\ IsFiniteSet(Jobs)
  <2>1. 1 \in Int
    BY SMT
  <2> QED
    BY <1>1, <2>1, FS_Interval DEF Conns, Jobs
<1> QED
  BY <1>2, FS_Subset, FS_CardinalityType

(* Elements leave a set.                                                   *)
LEMMA CountLess ==
  ASSUME NEW S, IsFiniteSet(S), NEW T \in SUBSET S
  PROVE  Cardinality(S \ T) = Cardinality(S) - Cardinality(T)
<1>1. IsFiniteSet(T) /\ IsFiniteSet(S \ T)
  BY FS_Subset
<1>2. Cardinality(S) \in Nat /\ Cardinality(T) \in Nat /\ Cardinality(S \ T) \in Nat
  BY <1>1, FS_CardinalityType
<1>3. (S \ T) \cup T = S /\ (S \ T) \cap T = {}
  OBVIOUS
<1>4. Cardinality(S) = Cardinality(S \ T) + Cardinality(T) - Cardinality({})
  BY <1>1, <1>3, FS_Union, SMT
<1> QED
  BY <1>2, <1>4, FS_EmptySet, SMT

(* Others join it.                                                         *)
LEMMA CountJoin ==
  ASSUME NEW S, IsFiniteSet(S), NEW U, IsFiniteSet(U), S \cap U = {}
  PROVE  Cardinality(S \cup U) = Cardinality(S) + Cardinality(U)
<1>1. Cardinality(S) \in Nat /\ Cardinality(U) \in Nat
  BY FS_CardinalityType
<1>2. Cardinality(S \cup U) = Cardinality(S) + Cardinality(U) - Cardinality({})
  BY FS_Union, SMT
<1> QED
  BY <1>1, <1>2, FS_EmptySet, SMT

(* One element joins a set.                                                *)
LEMMA CountOneMore ==
  ASSUME NEW S, IsFiniteSet(S), NEW x, x \notin S
  PROVE  Cardinality(S \cup {x}) = Cardinality(S) + 1
BY FS_AddElement

(* A free job is a target that is nowhere, a free connection likewise.     *)
LEMMA FreeTypes ==
  /\ FreeTarget \in TargetType /\ FreeConn \in ConnType
  /\ ~ FreeTarget.hashed /\ ~ FreeTarget.completed /\ FreeTarget.global_refcnt = 0
  /\ FreeTarget.tree = {} /\ FreeTarget.outbound = 0 /\ FreeTarget.active = 0 /\ FreeTarget.ready = 0
  /\ FreeTarget.addr = None
  /\ FreeConn.status = "none" /\ FreeConn.target = None /\ ~ FreeConn.error /\ ~ FreeConn.failed
<1>1. (CHOOSE l \in Limits : TRUE) \in Limits
  BY TargetConstants
<1>2. 0 \in Nat /\ None \in Addrs \cup {None}
  BY SMT
<1> QED
  BY <1>1, <1>2 DEF FreeTarget, FreeConn, TargetType, ConnType

(* Jobs have numbers from 1.                                               *)
LEMMA NoneIsNoJob == None \notin Jobs
BY SMT DEF None, Jobs
-----------------------------------------------------------------------------
(* What a step leaves of a target when it only sets timers and signals.    *)
Like(r, q) ==
  /\ q.addr = r.addr /\ q.hashed = r.hashed /\ q.completed = r.completed
  /\ q.global_refcnt = r.global_refcnt /\ q.tree = r.tree /\ q.outbound = r.outbound
  /\ q.active = r.active /\ q.ready = r.ready

(* The statistics stay right if no target enters or leaves the table.      *)
LEMMA StatsStay ==
  ASSUME StatsRight, stat' = stat,
         \A j \in Jobs : /\ tgt'[j].hashed = tgt[j].hashed
                         /\ tgt'[j].global_refcnt = tgt[j].global_refcnt
                         /\ tgt'[j].ready = tgt[j].ready
  PROVE  StatsRight'
<1>1. Hashed' = Hashed
  BY DEF Hashed
<1>2. Unused(tgt)' = Unused(tgt)
  BY DEF Unused
<1>3. Readied' = Readied
  BY DEF Readied
<1> QED
  BY <1>1, <1>2, <1>3 DEF StatsRight

(* A target whose tree stays counts right as long as its connections are   *)
(* as active as before.                                                    *)
LEMMA CountsStay ==
  ASSUME NEW j \in Jobs, Counts(j), tgt'[j].tree = tgt[j].tree,
         tgt'[j].outbound = tgt[j].outbound, tgt'[j].active = tgt[j].active,
         \A c \in tgt[j].tree : connection_is_active(c)' <=> connection_is_active(c)
  PROVE  Counts(j)'
<1>1. {c \in tgt[j].tree : connection_is_active(c)}' = {c \in tgt[j].tree : connection_is_active(c)}
  OBVIOUS
<1> QED
  BY <1>1 DEF Counts

(* Timers and signals of targets matter to nothing that is counted.        *)
LEMMA MarkStep ==
  ASSUME TargetInv, UNCHANGED <<conf, con, stat>>, epoll' \in BOOLEAN,
         tgt' \in [Jobs -> TargetType],
         \A j \in Jobs : Like(tgt[j], tgt'[j]) /\ (tgt[j] = FreeTarget => tgt'[j] = FreeTarget)
  PROVE  TargetInv'
<1> USE DEF TargetInv
<1>0. conf' = conf /\ con' = con /\ stat' = stat
  OBVIOUS
<1>1. TargetTypeOK'
  BY <1>0 DEF TargetTypeOK
<1>2. StatsRight'
  BY <1>0, StatsStay DEF Like
<1>3. Named'
  BY <1>0, SMT DEF Named, Like
<1>4. ASSUME NEW j \in Jobs PROVE Held(j)' /\ Counts(j)'
  <2>1. Held(j)'
    <3>1. /\ tgt'[j].addr = tgt[j].addr /\ tgt'[j].hashed = tgt[j].hashed
          /\ tgt'[j].completed = tgt[j].completed /\ tgt'[j].global_refcnt = tgt[j].global_refcnt
          /\ tgt'[j].tree = tgt[j].tree /\ tgt'[j].ready = tgt[j].ready
          /\ tgt[j] = FreeTarget => tgt'[j] = FreeTarget
      BY <1>4 DEF Like
    <3>2. Held(j)
      BY <1>4
    <3> QED BY <1>0, <3>1, <3>2 DEF Held
  <2>2. \A c \in Conns : connection_is_active(c)' <=> connection_is_active(c)
    BY <1>0 DEF connection_is_active
  <2>3. tgt[j].tree \subseteq Conns
    BY <1>4, SMT DEF TargetTypeOK, TargetType
  <2>4. Counts(j)'
    BY <1>4, <2>2, <2>3, CountsStay DEF Like
  <2> QED
    BY <2>1, <2>4
<1>5. ASSUME NEW c \in Conns PROVE Linked(c)'
  BY <1>0, <1>5, SMT DEF Linked, Like
<1> QED
  BY <1>1, <1>2, <1>3, <1>4, <1>5

(* init_epoll *)
LEMMA EpollStep ==
  ASSUME TargetInv, init_epoll
  PROVE  TargetInv'
<1>1. tgt' = tgt /\ UNCHANGED <<conf, con, stat>> /\ epoll' \in BOOLEAN
  BY DEF init_epoll
<1>2. tgt \in [Jobs -> TargetType]
  BY DEF TargetInv, TargetTypeOK
<1> QED
  BY <1>1, <1>2, MarkStep DEF Like

(* next_reconnect passes.                                                  *)
LEMMA DueStep ==
  ASSUME TargetInv, NEW j \in Jobs, ReconnectDue(j)
  PROVE  TargetInv'
<1>1. tgt \in [Jobs -> TargetType] /\ epoll \in BOOLEAN
  BY DEF TargetInv, TargetTypeOK
<1>2. tgt' = [tgt EXCEPT ![j] = [tgt[j] EXCEPT !.due = TRUE]] /\ UNCHANGED <<conf, con, stat, epoll>>
  BY SMT DEF ReconnectDue
<1>3. [tgt[j] EXCEPT !.due = TRUE] \in TargetType /\ Like(tgt[j], [tgt[j] EXCEPT !.due = TRUE])
  BY <1>1 DEF TargetType, Like
<1>4. tgt[j] # FreeTarget
  BY FreeTypes DEF ReconnectDue
<1>5. tgt' \in [Jobs -> TargetType]
  BY <1>1, <1>2, <1>3
<1>6. \A k \in Jobs : Like(tgt[k], tgt'[k]) /\ (tgt[k] = FreeTarget => tgt'[k] = FreeTarget)
  BY <1>1, <1>2, <1>3, <1>4 DEF Like
<1> QED
  BY <1>1, <1>2, <1>5, <1>6, MarkStep

(* A completed target is freed.                                            *)
LEMMA FinishStep ==
  ASSUME TargetInv, NEW j \in Jobs, FinishTarget(j)
  PROVE  TargetInv'
<1> USE DEF TargetInv
<1>1. /\ tgt \in [Jobs -> TargetType] /\ tgt' = [tgt EXCEPT ![j] = FreeTarget]
      /\ epoll' = epoll /\ conf' = conf /\ con' = con /\ stat' = stat
  BY DEF FinishTarget, TargetTypeOK
<1>2. tgt'[j] = FreeTarget /\ \A k \in Jobs \ {j} : tgt'[k] = tgt[k]
  BY <1>1
<1>3. ~ tgt[j].hashed /\ tgt[j].global_refcnt = 0 /\ tgt[j].tree = {} /\ tgt[j].ready = 0
  BY DEF FinishTarget, Held
<1>4. TargetTypeOK'
  BY <1>1, FreeTypes DEF TargetTypeOK
<1>5. \A k \in Jobs : /\ tgt'[k].hashed = tgt[k].hashed /\ tgt'[k].global_refcnt = tgt[k].global_refcnt
                      /\ tgt'[k].tree = tgt[k].tree /\ tgt'[k].ready = tgt[k].ready
  <2>1. tgt[j].hashed \in BOOLEAN
    BY <1>1 DEF TargetType
  <2>2. tgt[j].hashed = FALSE
    BY <1>3, <2>1
  <2>3. FreeTarget.hashed = FALSE
    BY DEF FreeTarget
  <2> QED BY <1>2, <1>3, <2>2, <2>3, FreeTypes
<1>6. StatsRight'
  BY <1>1, <1>5, StatsStay
<1>7. Named'
  BY <1>1, <1>2, <1>3 DEF Named
<1>8. ASSUME NEW k \in Jobs PROVE Held(k)' /\ Counts(k)'
  <2>1. CASE k = j
    <3>1. Held(k)'
      BY <1>2, <2>1, FreeTypes DEF Held
    <3>2. {c \in {} : connection_is_active(c)'} = {}
      OBVIOUS
    <3>3. Counts(k)'
      BY <1>2, <2>1, <3>2, FreeTypes, FS_EmptySet DEF Counts
    <3> QED BY <3>1, <3>3
  <2>2. CASE k # j
    <3>1. tgt'[k] = tgt[k]
      BY <1>2, <2>2
    <3>2. Held(k)'
      BY <1>1, <3>1 DEF Held
    <3>3. \A c \in tgt[k].tree : connection_is_active(c)' <=> connection_is_active(c)
      BY <1>1 DEF connection_is_active
    <3>4. Counts(k)'
      BY <3>1, <3>3, CountsStay
    <3> QED BY <3>2, <3>4
  <2> QED BY <2>1, <2>2
<1>9. ASSUME NEW c \in Conns PROVE Linked(c)'
  <2>1. con[c].target # j
    BY DEF FinishTarget
  <2>2. con[c].target \in Jobs => tgt'[con[c].target] = tgt[con[c].target]
    BY <1>2, <2>1
  <2>3. con[c].status # "none" /\ ~ con[c].error => con[c].target \in Jobs
    BY <1>9 DEF Linked
  <2>4. \A k \in Jobs : tgt'[k].tree = tgt[k].tree
    BY <1>5
  <2> QED BY <1>1, <1>9, <2>2, <2>3, <2>4, SMT DEF Linked
<1> QED
  BY <1>4, <1>6, <1>7, <1>8, <1>9
-----------------------------------------------------------------------------
(* A connection moves on and is as active as before.                       *)
LEMMA ConnStep ==
  ASSUME TargetInv, NEW c \in Conns, NEW r \in ConnType,
         con' = [con EXCEPT ![c] = r], UNCHANGED <<epoll, conf, tgt, stat>>,
         con[c].status # "none", r.status # "none",
         connection_is_active(c)' <=> connection_is_active(c),
         r.failed = con[c].failed, r.target = con[c].target, con[c].error => r.error
  PROVE  TargetInv'
<1> USE DEF TargetInv
<1>1. /\ con \in [Conns -> ConnType]
      /\ epoll' = epoll /\ conf' = conf /\ tgt' = tgt /\ stat' = stat
  BY DEF TargetTypeOK
<1>2. con'[c] = r /\ \A d \in Conns \ {c} : con'[d] = con[d]
  BY <1>1
<1>3. TargetTypeOK'
  BY <1>1 DEF TargetTypeOK
<1>4. Named' /\ StatsRight'
  BY <1>1, StatsStay DEF Named
<1>5. \A d \in Conns : connection_is_active(d)' <=> connection_is_active(d)
  BY <1>2 DEF connection_is_active
<1>6. ASSUME NEW k \in Jobs PROVE Held(k)' /\ Counts(k)'
  <2>1. Held(k)'
    BY <1>1 DEF Held
  <2>2. tgt[k].tree \subseteq Conns
    BY <1>6, SMT DEF TargetTypeOK, TargetType
  <2>3. Counts(k)'
    BY <1>1, <1>5, <2>2, CountsStay
  <2> QED BY <2>1, <2>3
<1>7. ASSUME NEW d \in Conns PROVE Linked(d)'
  <2>1. CASE d = c
    <3>1. Linked(c)
      OBVIOUS
    <3> QED BY <1>1, <1>2, <2>1, <3>1, SMT DEF Linked
  <2>2. CASE d # c
    BY <1>1, <1>2, <2>2 DEF Linked
  <2> QED BY <2>1, <2>2
<1> QED
  BY <1>3, <1>4, <1>6, <1>7

(* The socket is connected, the handshake is over, or either has failed.   *)
LEMMA MoveStep ==
  ASSUME TargetInv, NEW c \in Conns, socket_connected(c) \/ HandshakeDone(c) \/ fail_connection(c)
  PROVE  TargetInv'
<1>1. con \in [Conns -> ConnType] /\ con[c] \in ConnType
  BY DEF TargetInv, TargetTypeOK
<1>2. CASE socket_connected(c)
  <2> DEFINE r == [con[c] EXCEPT !.status = "pending"]
  <2>1. /\ con' = [con EXCEPT ![c] = r] /\ UNCHANGED <<epoll, conf, tgt, stat>>
        /\ con[c].status = "connecting"
    BY <1>2, SMT DEF socket_connected
  <2>2. /\ r \in ConnType /\ r.status = "pending" /\ r.failed = con[c].failed
        /\ r.target = con[c].target /\ r.error = con[c].error
    BY <1>1 DEF ConnType
  <2>3. connection_is_active(c)' <=> connection_is_active(c)
    BY <1>1, <2>1, <2>2 DEF connection_is_active
  <2> QED BY <2>1, <2>2, <2>3, ConnStep
<1>3. CASE HandshakeDone(c)
  <2> DEFINE r == [con[c] EXCEPT !.status = "ok"]
  <2>1. /\ con' = [con EXCEPT ![c] = r] /\ UNCHANGED <<epoll, conf, tgt, stat>>
        /\ con[c].status = "working"
    BY <1>3, SMT DEF HandshakeDone
  <2>2. /\ r \in ConnType /\ r.status = "ok" /\ r.failed = con[c].failed
        /\ r.target = con[c].target /\ r.error = con[c].error
    BY <1>1 DEF ConnType
  <2>3. connection_is_active(c)' <=> connection_is_active(c)
    BY <1>1, <2>1, <2>2 DEF connection_is_active
  <2> QED BY <2>1, <2>2, <2>3, ConnStep
<1>4. CASE fail_connection(c)
  <2> DEFINE r == [con[c] EXCEPT !.error = TRUE]
  <2>1. /\ con' = [con EXCEPT ![c] = r] /\ UNCHANGED <<epoll, conf, tgt, stat>>
        /\ con[c].status # "none"
    BY <1>4, SMT DEF fail_connection
  <2>2. /\ r \in ConnType /\ r.status = con[c].status /\ r.failed = con[c].failed
        /\ r.target = con[c].target /\ r.error
    BY <1>1 DEF ConnType
  <2>3. connection_is_active(c)' <=> connection_is_active(c)
    BY <1>1, <2>1, <2>2 DEF connection_is_active
  <2> QED BY <2>1, <2>2, <2>3, ConnStep
<1> QED
  BY <1>2, <1>3, <1>4

(* A connection that has become ready is counted by its target, the only   *)
(* one that has it in its tree.                                            *)
LEMMA ReadyStep ==
  ASSUME TargetInv, NEW c \in Conns, ConnectionReady(c)
  PROVE  TargetInv'
<1> USE DEF TargetInv
<1>0. Linked(c)
  OBVIOUS
<1>1. PICK j \in Jobs : j = con[c].target
  BY <1>0 DEF Linked, ConnectionReady
<1>2. /\ tgt \in [Jobs -> TargetType] /\ con \in [Conns -> ConnType]
      /\ con[c].status = "pending" /\ ~ con[c].error
      /\ con' = [con EXCEPT ![c] = [con[c] EXCEPT !.status = "working"]]
      /\ tgt' = [tgt EXCEPT ![j] = [tgt[j] EXCEPT !.active = tgt[j].active + 1]]
      /\ epoll' = epoll /\ conf' = conf /\ stat' = stat
  BY <1>1, SMT DEF ConnectionReady, TargetTypeOK
<1>3. tgt[j] \in TargetType /\ tgt[j].active + 1 \in Nat
  BY <1>2, SMT DEF TargetType
<1> DEFINE r == [con[c] EXCEPT !.status = "working"]
           q == [tgt[j] EXCEPT !.active = tgt[j].active + 1]
<1>4. /\ r \in ConnType /\ r.status = "working" /\ r.failed = con[c].failed
      /\ r.target = con[c].target /\ r.error = con[c].error
  BY <1>2 DEF ConnType
<1>5. /\ q \in TargetType /\ q.addr = tgt[j].addr /\ q.hashed = tgt[j].hashed
      /\ q.completed = tgt[j].completed /\ q.global_refcnt = tgt[j].global_refcnt
      /\ q.tree = tgt[j].tree /\ q.outbound = tgt[j].outbound /\ q.ready = tgt[j].ready
      /\ q.active = tgt[j].active + 1
  BY <1>3 DEF TargetType
<1> HIDE DEF r, q
<1>6. con'[c] = r /\ \A d \in Conns \ {c} : con'[d] = con[d]
  BY <1>2 DEF r
<1>7. tgt'[j] = q /\ \A k \in Jobs \ {j} : tgt'[k] = tgt[k]
  BY <1>2 DEF q
<1>8. TargetTypeOK'
  BY <1>2, <1>4, <1>5 DEF TargetTypeOK, r, q
<1>9. \A k \in Jobs : /\ tgt'[k].addr = tgt[k].addr /\ tgt'[k].hashed = tgt[k].hashed
                      /\ tgt'[k].completed = tgt[k].completed
                      /\ tgt'[k].global_refcnt = tgt[k].global_refcnt
                      /\ tgt'[k].tree = tgt[k].tree /\ tgt'[k].outbound = tgt[k].outbound
                      /\ tgt'[k].ready = tgt[k].ready
  BY <1>5, <1>7
<1>10. Named' /\ StatsRight'
  BY <1>2, <1>9, StatsStay, SMT DEF Named
<1>11. c \in tgt[j].tree /\ tgt[j].hashed /\ \A k \in Jobs : c \in tgt[k].tree => k = j
  BY <1>0, <1>1, <1>2 DEF Linked
<1>12. ASSUME NEW k \in Jobs PROVE Held(k)' /\ Counts(k)'
  <2>1. Held(k)'
    <3>1. tgt[k] # FreeTarget => k # j \/ tgt[j].hashed
      BY <1>11
    <3>2. k # j => tgt'[k] = tgt[k]
      BY <1>7
    <3> QED BY <1>2, <1>9, <1>11, <1>12, <3>2, SMT DEF Held
  <2>2. tgt[k].tree \subseteq Conns
    BY <1>2, <1>12, SMT DEF TargetType
  <2>3. \A d \in Conns : d # c => (connection_is_active(d)' <=> connection_is_active(d))
    BY <1>6 DEF connection_is_active
  <2>4. CASE k # j
    <3>1. tgt'[k] = tgt[k] /\ c \notin tgt[k].tree
      BY <1>7, <1>11, <2>4
    <3>2. \A d \in tgt[k].tree : connection_is_active(d)' <=> connection_is_active(d)
      BY <2>2, <2>3, <3>1
    <3>3. Counts(k)'
      BY <3>1, <3>2, CountsStay
    <3> QED BY <2>1, <3>3
  <2>5. CASE k = j
    <3> DEFINE S == {d \in tgt[j].tree : connection_is_active(d)}
    <3>1. ~ connection_is_active(c) /\ connection_is_active(c)'
      BY <1>2, <1>4, <1>6 DEF connection_is_active
    <3>2. {d \in tgt[j].tree : connection_is_active(d)}' = S \cup {c}
      BY <1>9, <1>11, <2>2, <2>3, <2>5, <3>1
    <3>3. IsFiniteSet(S) /\ c \notin S
      BY <2>2, <2>5, <3>1, FiniteSets
    <3>4. Cardinality(S \cup {c}) = Cardinality(S) + 1
      BY <3>3, CountOneMore
    <3>5. tgt'[j].active = Cardinality(S \cup {c})
      BY <1>5, <1>7, <3>4 DEF Counts
    <3>6. tgt'[j].outbound = Cardinality(tgt'[j].tree)
      BY <1>9 DEF Counts
    <3> QED BY <2>1, <2>5, <3>2, <3>5, <3>6 DEF Counts
  <2> QED BY <2>1, <2>4, <2>5
<1>13. ASSUME NEW d \in Conns PROVE Linked(d)'
  <2>1. CASE d = c
    BY <1>0, <1>1, <1>2, <1>4, <1>6, <1>9, <1>11, <2>1, SMTT(30) DEF Linked
  <2>2. CASE d # c
    <3>1. Linked(d) /\ con'[d] = con[d]
      BY <1>6, <1>13, <2>2
    <3> QED BY <1>9, <3>1, SMT DEF Linked
  <2> QED BY <2>1, <2>2
<1> QED
  BY <1>8, <1>10, <1>12, <1>13

(* A failed connection is closed and signals its target.                   *)
LEMMA CloseStep ==
  ASSUME TargetInv, NEW c \in Conns, cpu_server_close_connection(c)
  PROVE  TargetInv'
<1> USE DEF TargetInv
<1>0. Linked(c)
  OBVIOUS
<1>1. con[c].error /\ ~ con[c].failed /\ con[c].status # "none"
  BY <1>0, FreeTypes DEF Linked, cpu_server_close_connection
<1>2. PICK j \in Jobs : j = con[c].target
  BY <1>0, <1>1 DEF Linked
<1>3. /\ tgt \in [Jobs -> TargetType] /\ con \in [Conns -> ConnType]
      /\ con' = [con EXCEPT ![c] = [con[c] EXCEPT !.failed = TRUE, !.target = None]]
      /\ tgt' = [tgt EXCEPT ![j] = [tgt[j] EXCEPT !.run = TRUE]]
      /\ epoll' = epoll /\ conf' = conf /\ stat' = stat
  BY <1>2, SMT DEF cpu_server_close_connection, TargetTypeOK
<1> DEFINE r == [con[c] EXCEPT !.failed = TRUE, !.target = None]
           q == [tgt[j] EXCEPT !.run = TRUE]
<1>4. /\ r \in ConnType /\ r.status = con[c].status /\ r.failed
      /\ r.target = None /\ r.error = con[c].error
  BY <1>3 DEF ConnType
<1>5. q \in TargetType /\ Like(tgt[j], q)
  BY <1>3 DEF TargetType, Like
<1> HIDE DEF r, q
<1>6. con'[c] = r /\ \A d \in Conns \ {c} : con'[d] = con[d]
  BY <1>3 DEF r
<1>7. tgt'[j] = q /\ \A k \in Jobs \ {j} : tgt'[k] = tgt[k]
  BY <1>3 DEF q
<1>8. TargetTypeOK'
  BY <1>3, <1>4, <1>5 DEF TargetTypeOK, r, q
<1>9. \A k \in Jobs : Like(tgt[k], tgt'[k])
  BY <1>5, <1>7 DEF Like
<1>10. Named' /\ StatsRight'
  BY <1>3, <1>9, StatsStay, SMT DEF Named, Like
<1>11. ASSUME NEW k \in Jobs PROVE Held(k)' /\ Counts(k)'
  <2>1. tgt[j].hashed \/ tgt[j].completed
    BY <1>0, <1>2 DEF Linked
  <2>2. k # j => tgt'[k] = tgt[k]
    BY <1>7
  <2>3. Held(k)'
    BY <1>3, <1>9, <1>11, <2>1, <2>2, SMT DEF Held, Like
  <2>4. tgt[k].tree \subseteq Conns
    BY <1>3, <1>11, SMT DEF TargetType
  <2>5. \A d \in Conns : connection_is_active(d)' <=> connection_is_active(d)
    BY <1>4, <1>6 DEF connection_is_active
  <2>6. Counts(k)'
    BY <1>9, <1>11, <2>4, <2>5, CountsStay DEF Like
  <2> QED BY <2>3, <2>6
<1>12. ASSUME NEW d \in Conns PROVE Linked(d)'
  <2>1. CASE d = c
    <3>1. /\ con'[d].failed /\ con'[d].error /\ con'[d].status = con[c].status
          /\ con'[d].target \notin Jobs /\ con'[d].status # "none"
      BY <1>1, <1>4, <1>6, <2>1, NoneIsNoJob
    <3> QED BY <3>1 DEF Linked
  <2>2. CASE d # c
    <3>1. Linked(d) /\ con'[d] = con[d]
      BY <1>6, <1>12, <2>2
    <3> QED BY <1>9, <3>1, SMT DEF Linked, Like
  <2> QED BY <2>1, <2>2
<1> QED
  BY <1>8, <1>10, <1>11, <1>12

(* A closed connection that is in no tree is freed.                        *)
LEMMA FreeStep ==
  ASSUME TargetInv, NEW c \in Conns, cpu_server_free_connection(c)
  PROVE  TargetInv'
<1> USE DEF TargetInv
<1>1. /\ con \in [Conns -> ConnType] /\ con' = [con EXCEPT ![c] = FreeConn]
      /\ \A j \in Jobs : c \notin tgt[j].tree
      /\ epoll' = epoll /\ conf' = conf /\ tgt' = tgt /\ stat' = stat
  BY DEF cpu_server_free_connection, TargetTypeOK
<1>2. con'[c] = FreeConn /\ \A d \in Conns \ {c} : con'[d] = con[d]
  BY <1>1
<1>3. TargetTypeOK'
  BY <1>1, FreeTypes DEF TargetTypeOK
<1>4. Named' /\ StatsRight'
  BY <1>1, StatsStay DEF Named
<1>5. ASSUME NEW k \in Jobs PROVE Held(k)' /\ Counts(k)'
  <2>1. Held(k)'
    BY <1>1 DEF Held
  <2>2. tgt[k].tree \subseteq Conns
    BY <1>5, SMT DEF TargetTypeOK, TargetType
  <2>3. \A d \in tgt[k].tree : connection_is_active(d)' <=> connection_is_active(d)
    BY <1>1, <1>2, <1>5, <2>2 DEF connection_is_active
  <2>4. Counts(k)'
    BY <1>1, <2>3, CountsStay
  <2> QED BY <2>1, <2>4
<1>6. ASSUME NEW d \in Conns PROVE Linked(d)'
  <2>1. CASE d = c
    BY <1>1, <1>2, <2>1, FreeTypes, NoneIsNoJob DEF Linked
  <2>2. CASE d # c
    BY <1>1, <1>2, <2>2 DEF Linked
  <2> QED BY <2>1, <2>2
<1> QED
  BY <1>3, <1>4, <1>5, <1>6
-----------------------------------------------------------------------------
(* The target after destroy_dead_target_connections.                       *)
Cleaned(j, t) ==
  /\ t \in TargetType
  /\ t.addr = tgt[j].addr /\ t.hashed = tgt[j].hashed /\ t.completed = tgt[j].completed
  /\ t.global_refcnt = tgt[j].global_refcnt /\ t.lim = tgt[j].lim
  /\ t.tree = tgt[j].tree \ DeadIn(j)
  /\ t.outbound = Cardinality(t.tree) /\ t.outbound <= tgt[j].outbound
  /\ t.active = Cardinality({c \in t.tree : connection_is_active(c)})
  /\ t.ready = Cardinality({c \in t.tree : con[c].status = "ok"})

(* The counters follow the connections that are taken out of the tree.     *)
LEMMA DeadGone ==
  ASSUME TargetInv, NEW j \in Jobs, NEW op \in {"timer", "run"}, NEW t,
         t = [destroy_dead_target_connections(j) EXCEPT ![op] = FALSE]
  PROVE  Cleaned(j, t)
<1> DEFINE r == tgt[j]
           dead == DeadIn(j)
           tree == r.tree \ dead
           out == r.outbound - Cardinality(dead)
           act == r.active - Cardinality({c \in dead : connection_is_active(c)})
           rdy == Cardinality({c \in tree : con[c].status = "ok"})
<1>1. r \in TargetType /\ Counts(j)
  BY DEF TargetInv, TargetTypeOK
<1>2. r.tree \in SUBSET Conns /\ dead \in SUBSET r.tree /\ tree \in SUBSET Conns
  BY <1>1, SMT DEF TargetType, DeadIn
<1>3. IsFiniteSet(r.tree) /\ IsFiniteSet({}) /\ Cardinality(tree) \in Nat /\ Cardinality(dead) \in Nat
  BY <1>2, FiniteSets, FS_EmptySet
<1>4. out = Cardinality(tree) /\ out \in Nat /\ out <= r.outbound
  <2>1. Cardinality(tree) = Cardinality(r.tree) - Cardinality(dead) /\ Cardinality(r.tree) \in Nat
    BY <1>2, <1>3, CountLess, FiniteSets
  <2>2. r.outbound = Cardinality(r.tree)
    BY <1>1 DEF Counts
  <2> HIDE DEF tree, dead, r
  <2> QED BY <1>3, <2>1, <2>2, SMT
<1>5. act = Cardinality({c \in tree : connection_is_active(c)}) /\ act \in Nat
  <2> DEFINE S == {c \in r.tree : connection_is_active(c)}
             T == {c \in dead : connection_is_active(c)}
  <2>1. S \in SUBSET Conns /\ T \in SUBSET S /\ S \ T \in SUBSET Conns
    BY <1>2
  <2>2. {c \in tree : connection_is_active(c)} = S \ T
    OBVIOUS
  <2>3. Cardinality(S \ T) = Cardinality(S) - Cardinality(T)
    BY <2>1, FiniteSets, CountLess
  <2>4. Cardinality(S \ T) \in Nat
    BY <2>1, FiniteSets
  <2>5. r.active = Cardinality(S)
    BY <1>1 DEF Counts
  <2> QED BY <2>2, <2>3, <2>4, <2>5
<1>6. rdy \in Nat
  <2>1. {c \in tree : con[c].status = "ok"} \in SUBSET Conns
    BY <1>2
  <2> QED BY <2>1, FiniteSets
<1> DEFINE d == [r EXCEPT !.tree = tree, !.outbound = out, !.active = act, !.ready = rdy]
<1>7. destroy_dead_target_connections(j) = d
  BY DEF destroy_dead_target_connections
<1> HIDE DEF tree, out, act, rdy, r
<1>8. /\ d \in TargetType /\ d.tree = tree /\ d.outbound = out /\ d.active = act /\ d.ready = rdy
      /\ d.addr = r.addr /\ d.hashed = r.hashed /\ d.completed = r.completed
      /\ d.global_refcnt = r.global_refcnt /\ d.lim = r.lim
  BY <1>1, <1>2, <1>4, <1>5, <1>6 DEF TargetType
<1> HIDE DEF d
<1>9. /\ t \in TargetType /\ t.tree = d.tree /\ t.outbound = d.outbound /\ t.active = d.active
      /\ t.ready = d.ready /\ t.addr = d.addr /\ t.hashed = d.hashed /\ t.completed = d.completed
      /\ t.global_refcnt = d.global_refcnt /\ t.lim = d.lim
  <2>1. CASE op = "timer"
    <3>1. t = [d EXCEPT !.timer = FALSE]
      BY <1>7, <2>1
    <3> QED BY <1>8, <3>1 DEF TargetType
  <2>2. CASE op = "run"
    <3>1. t = [d EXCEPT !.run = FALSE]
      BY <1>7, <2>2
    <3> QED BY <1>8, <3>1 DEF TargetType
  <2> QED BY <2>1, <2>2
<1> QED
  BY <1>4, <1>5, <1>8, <1>9 DEF Cleaned, tree, rdy, r

(* The job of a target accounts for a change of its ready connections.     *)
LEMMA ReadyCounted ==
  ASSUME TargetInv, NEW j \in Jobs, NEW t \in TargetType, tgt'[j].ready = t.ready,
         \A k \in Jobs \ {j} : tgt'[k] = tgt[k]
  PROVE  LET s == ReadyStat(j, t)
         IN  /\ s \in [active : Int, inactive : Int, ready_targets : Int, ready : Int]
             /\ s.active = stat.active /\ s.inactive = stat.inactive
             /\ s.ready_targets = Cardinality(Readied')
<1> DEFINE was == tgt[j].ready
           up == IF was = 0 /\ t.ready > 0 THEN 1 ELSE 0
           down == IF was > 0 /\ t.ready = 0 THEN 1 ELSE 0
           s == ReadyStat(j, t)
<1>1. /\ stat \in [active : Int, inactive : Int, ready_targets : Int, ready : Int]
      /\ was \in Nat /\ t.ready \in Nat
  BY SMT DEF TargetInv, TargetTypeOK, TargetType
<1>2. stat.ready + t.ready - was \in Int /\ stat.ready_targets + up - down \in Int
  BY <1>1, SMT
<1>3. s = [stat EXCEPT !.ready = stat.ready + t.ready - was, !.ready_targets = stat.ready_targets + up - down]
  BY DEF ReadyStat
<1> HIDE DEF was, up, down
<1>4. /\ s \in [active : Int, inactive : Int, ready_targets : Int, ready : Int]
      /\ s.active = stat.active /\ s.inactive = stat.inactive
      /\ s.ready_targets = stat.ready_targets + up - down
  BY <1>1, <1>2, <1>3
<1>5. /\ stat.ready_targets = Cardinality(Readied) /\ IsFiniteSet(Readied) /\ Cardinality(Readied) \in Nat
      /\ j \in Readied <=> was > 0
  BY FiniteSets DEF TargetInv, StatsRight, Readied, was
<1>6. j \in Readied' <=> t.ready > 0
  BY DEF Readied
<1>7. \A k \in Jobs \ {j} : k \in Readied' <=> k \in Readied
  BY DEF Readied
<1>8. Readied \subseteq Jobs /\ Readied' \subseteq Jobs
  BY DEF Readied
<1>9. CASE was = 0 /\ t.ready > 0
  <2>1. Readied' = Readied \cup {j} /\ j \notin Readied
    <3>1. ~ (was > 0)
      BY <1>9, SMT
    <3> QED BY <1>5, <1>6, <1>7, <1>8, <1>9, <3>1
  <2>2. Cardinality(Readied') = Cardinality(Readied) + 1
    BY <1>5, <2>1, CountOneMore
  <2>3. up = 1 /\ down = 0
    BY <1>9, SMT DEF up, down
  <2> QED BY <1>4, <1>5, <2>2, <2>3, SMT
<1>10. CASE was > 0 /\ t.ready = 0
  <2>1. Readied' = Readied \ {j} /\ j \in Readied
    <3>1. ~ (t.ready > 0)
      BY <1>10, SMT
    <3> QED BY <1>5, <1>6, <1>7, <1>8, <1>10, <3>1
  <2>2. Cardinality(Readied') = Cardinality(Readied) - 1
    BY <1>5, <2>1, FS_RemoveElement
  <2>3. up = 0 /\ down = 1
    BY <1>10, SMT DEF up, down
  <2> QED BY <1>4, <1>5, <2>2, <2>3, SMT
<1>11. CASE was > 0 <=> t.ready > 0
  <2>1. Readied' = Readied
    <3>1. j \in Readied' <=> j \in Readied
      BY <1>5, <1>6, <1>11
    <3> QED BY <1>7, <1>8, <3>1, SMT
  <2>2. up = 0 /\ down = 0
    BY <1>1, <1>11, SMT DEF up, down
  <2> QED BY <1>4, <1>5, <2>1, <2>2, SMT
<1> QED
  BY <1>1, <1>9, <1>10, <1>11, SMT

(* What the job makes of the connections: some fail, some are opened.      *)
Opened(j) == [FreeConn EXCEPT !.status = "connecting", !.target = j]
Worked(j, late, new) == [c \in Conns |-> IF c \in new THEN Opened(j) ELSE FailAll(late)[c]]

(* Connections fail without changing their status.                         *)
WorkedConns(j, late, new) ==
  /\ con' \in [Conns -> ConnType]
  /\ \A c \in new : con'[c].status = "connecting" /\ con'[c].target = j
                    /\ ~ con'[c].error /\ ~ con'[c].failed
  /\ \A c \in Conns \ new : /\ con'[c].status = con[c].status /\ con'[c].target = con[c].target
                            /\ con'[c].failed = con[c].failed /\ (con[c].error => con'[c].error)
                            /\ c \notin late => con'[c] = con[c]

(* That is what the job does.                                              *)
LEMMA WorkedAll ==
  ASSUME TargetInv, NEW j \in Jobs, NEW late \in SUBSET Conns, NEW new \in SUBSET Conns,
         con' = Worked(j, late, new)
  PROVE  WorkedConns(j, late, new)
<1>1. con \in [Conns -> ConnType]
  BY DEF TargetInv, TargetTypeOK
<1>2. /\ Opened(j) \in ConnType /\ Opened(j).status = "connecting" /\ Opened(j).target = j
      /\ ~ Opened(j).error /\ ~ Opened(j).failed
  BY DEF Opened, FreeConn, ConnType
<1>3. ASSUME NEW c \in Conns
      PROVE  LET r == [con[c] EXCEPT !.error = TRUE]
             IN  r \in ConnType /\ r.status = con[c].status /\ r.target = con[c].target
                 /\ r.failed = con[c].failed /\ r.error
  BY <1>1 DEF ConnType
<1>4. \A c \in Conns : FailAll(late)[c] = IF c \in late THEN [con[c] EXCEPT !.error = TRUE] ELSE con[c]
  BY DEF FailAll
<1>5. \A c \in Conns : con'[c] = IF c \in new THEN Opened(j) ELSE FailAll(late)[c]
  BY DEF Worked
<1>6. \A c \in new : con'[c] = Opened(j)
  BY <1>5
<1>7. \A c \in Conns \ new : con'[c] = IF c \in late THEN [con[c] EXCEPT !.error = TRUE] ELSE con[c]
  BY <1>4, <1>5
<1>8. \A c \in Conns : con'[c] \in ConnType
  BY <1>1, <1>2, <1>3, <1>6, <1>7
<1>9. con' \in [Conns -> ConnType]
  BY <1>8 DEF Worked
<1> QED
  BY <1>2, <1>3, <1>6, <1>7, <1>9 DEF WorkedConns

(* The job takes the dead out of its tree, fails some and opens others.    *)
LEMMA WorkStep ==
  ASSUME TargetInv, NEW j \in Jobs, NEW t, Cleaned(j, t), tgt[j] # FreeTarget,
         NEW late \in SUBSET t.tree, NEW new \in SUBSET FreeConns, new # {} => tgt[j].hashed,
         NEW q \in TargetType, q.addr = t.addr, q.hashed = t.hashed, q.completed = t.completed,
         q.global_refcnt = t.global_refcnt, q.tree = t.tree \cup new,
         q.outbound = t.outbound + Cardinality(new), q.active = t.active, q.ready = t.ready,
         tgt' = [tgt EXCEPT ![j] = q], con' = Worked(j, late, new), stat' = ReadyStat(j, t),
         UNCHANGED <<epoll, conf>>
  PROVE  TargetInv'
<1>0. tgt \in [Jobs -> TargetType] /\ epoll' = epoll /\ conf' = conf
  BY DEF TargetInv, TargetTypeOK
<1>1. /\ tgt'[j] = q /\ \A k \in Jobs \ {j} : tgt'[k] = tgt[k]
      /\ tgt' \in [Jobs -> TargetType]
  BY <1>0
<1>2. /\ new \in SUBSET Conns /\ \A c \in new : con[c] = FreeConn /\ con[c].status = "none"
      /\ late \in SUBSET Conns /\ \A c \in late : con[c].status # "none"
  <2>1. tgt[j].tree \subseteq Conns
    BY <1>0, SMT DEF TargetType
  <2>2. \A c \in tgt[j].tree : con[c].status # "none"
    BY <2>1 DEF TargetInv, Linked
  <2>3. t.tree \subseteq tgt[j].tree
    BY DEF Cleaned
  <2> QED BY <2>1, <2>2, <2>3, FreeTypes DEF FreeConns
<1>3. WorkedConns(j, late, new)
  BY <1>2, WorkedAll
<1> USE DEF TargetInv, WorkedConns
<1>4. /\ q.addr = tgt[j].addr /\ q.hashed = tgt[j].hashed /\ q.completed = tgt[j].completed
      /\ q.global_refcnt = tgt[j].global_refcnt /\ q.tree = (tgt[j].tree \ DeadIn(j)) \cup new
      /\ t \in TargetType
  BY DEF Cleaned
<1>5. \A k \in Jobs : tgt[k].tree \subseteq Conns /\ \A c \in new : c \notin tgt[k].tree
  <2>1. \A k \in Jobs : tgt[k].tree \subseteq Conns
    BY <1>0, SMT DEF TargetType
  <2> QED BY <1>2, <2>1 DEF Linked
<1>6. /\ ReadyStat(j, t) \in [active : Int, inactive : Int, ready_targets : Int, ready : Int]
      /\ ReadyStat(j, t).active = stat.active /\ ReadyStat(j, t).inactive = stat.inactive
      /\ ReadyStat(j, t).ready_targets = Cardinality(Readied')
  BY <1>1, <1>4, ReadyCounted
<1>7. TargetTypeOK'
  BY <1>0, <1>1, <1>3, <1>6 DEF TargetTypeOK
<1>8. \A k \in Jobs : /\ tgt'[k].addr = tgt[k].addr /\ tgt'[k].hashed = tgt[k].hashed
                      /\ tgt'[k].completed = tgt[k].completed
                      /\ tgt'[k].global_refcnt = tgt[k].global_refcnt
  BY <1>1, <1>4
<1>9. Named'
  BY <1>0, <1>8, SMT DEF Named
<1>10. StatsRight'
  <2>1. Hashed' = Hashed /\ Unused(tgt)' = Unused(tgt)
    BY <1>8 DEF Hashed, Unused
  <2> QED BY <1>6, <2>1 DEF StatsRight
<1>11. \A c \in Conns \ new : connection_is_active(c)' <=> connection_is_active(c)
  BY <1>3 DEF connection_is_active
<1>12. Held(j)'
  <2>1. Held(j) /\ (tgt[j].hashed \/ tgt[j].completed)
    BY DEF Held
  <2>2. ~ tgt[j].hashed => q.tree = {} /\ q.ready = 0
    <3>1. SUFFICES ASSUME ~ tgt[j].hashed PROVE q.tree = {} /\ q.ready = 0
      OBVIOUS
    <3>2. tgt[j].tree = {} /\ new = {}
      BY <2>1, <3>1 DEF Held
    <3>3. t.tree = {}
      BY <3>2 DEF Cleaned
    <3>4. {c \in t.tree : con[c].status = "ok"} = {}
      BY <3>3
    <3>5. t.ready = 0
      BY <3>4, FS_EmptySet DEF Cleaned
    <3> QED BY <3>2, <3>3, <3>5
  <2> QED BY <1>0, <1>1, <1>4, <2>1, <2>2, SMT DEF Held
<1>13. Counts(j)'
  <2> DEFINE S == {c \in t.tree : connection_is_active(c)}
  <2>1. t.tree \subseteq Conns /\ t.tree \cap new = {}
    BY <1>5 DEF Cleaned
  <2>2. IsFiniteSet(t.tree) /\ IsFiniteSet(new)
    BY <1>2, <2>1, FiniteSets
  <2>3. Cardinality(t.tree \cup new) = Cardinality(t.tree) + Cardinality(new)
    BY <2>1, <2>2, CountJoin
  <2>4. \A c \in new : ~ connection_is_active(c)'
    BY <1>3 DEF connection_is_active
  <2>5. \A c \in t.tree : connection_is_active(c)' <=> connection_is_active(c)
    BY <1>11, <2>1
  <2>6. {c \in q.tree : connection_is_active(c)'} = S
    BY <2>4, <2>5
  <2>7. q.active = Cardinality({c \in q.tree : connection_is_active(c)'})
    BY <2>6 DEF Cleaned
  <2>8. q.outbound = Cardinality(q.tree)
    BY <2>3 DEF Cleaned
  <2> QED BY <1>1, <2>7, <2>8 DEF Counts
<1>14. ASSUME NEW k \in Jobs, k # j PROVE Held(k)' /\ Counts(k)'
  <2>1. tgt'[k] = tgt[k]
    BY <1>1, <1>14
  <2>2. Held(k)'
    BY <1>0, <1>14, <2>1 DEF Held
  <2>3. \A c \in tgt[k].tree : connection_is_active(c)' <=> connection_is_active(c)
    BY <1>5, <1>11, <1>14
  <2>4. Counts(k)'
    BY <1>14, <2>1, <2>3, CountsStay
  <2> QED BY <2>2, <2>4
<1>15. ASSUME NEW c \in new PROVE Linked(c)'
  <2>1. c \in tgt'[j].tree /\ tgt'[j].hashed
    BY <1>1, <1>4, <1>15
  <2>2. \A k \in Jobs : c \in tgt'[k].tree => k = j
    BY <1>1, <1>5, <1>15
  <2>3. con'[c].status = "connecting" /\ con'[c].target = j /\ ~ con'[c].error /\ ~ con'[c].failed
    BY <1>3, <1>15
  <2> QED BY <2>1, <2>2, <2>3 DEF Linked
<1>16. ASSUME NEW c \in Conns \ new PROVE Linked(c)'
  <2>1. Linked(c)
    BY <1>16
  <2>2. \A k \in Jobs : c \in tgt'[k].tree => c \in tgt[k].tree
    BY <1>1, <1>4, <1>16
  <2>3. \A k \in Jobs : c \in tgt[k].tree /\ ~ con[c].error => c \in tgt'[k].tree
    BY <1>1, <1>4, <1>16 DEF DeadIn
  <2>4. /\ con'[c].status = con[c].status /\ con'[c].target = con[c].target
        /\ con'[c].failed = con[c].failed /\ (con[c].error => con'[c].error)
    BY <1>3, <1>16
  <2>5. con[c].status = "none" => con'[c] = FreeConn
    <3>1. con[c].status = "none" => c \notin late /\ con[c] = FreeConn
      BY <1>2, <2>1 DEF Linked
    <3> QED BY <1>3, <1>16, <3>1
  <2> QED BY <1>8, <2>1, <2>2, <2>3, <2>4, <2>5, SMT DEF Linked
<1> QED
  BY <1>7, <1>9, <1>10, <1>12, <1>13, <1>14, <1>15, <1>16

(* A target without entries and connections leaves the table.              *)
LEMMA LeaveStep ==
  ASSUME TargetInv, NEW j \in Jobs, NEW t, Cleaned(j, t), tgt[j] # FreeTarget,
         t.global_refcnt = 0, t.tree = {},
         tgt' = [tgt EXCEPT ![j] = [t EXCEPT !.due = FALSE, !.timer = FALSE,
                                             !.hashed = FALSE, !.completed = TRUE]],
         stat' = [ReadyStat(j, t) EXCEPT !.inactive = @ - (IF t.completed THEN 0 ELSE 1)],
         UNCHANGED <<epoll, conf, con>>
  PROVE  TargetInv'
<1> DEFINE q == [t EXCEPT !.due = FALSE, !.timer = FALSE, !.hashed = FALSE, !.completed = TRUE]
           s == ReadyStat(j, t)
<1>0. tgt \in [Jobs -> TargetType] /\ epoll' = epoll /\ conf' = conf /\ con' = con
  BY DEF TargetInv, TargetTypeOK
<1>1. /\ q \in TargetType /\ ~ q.hashed /\ q.completed /\ q.global_refcnt = 0 /\ q.tree = {}
      /\ q.outbound = t.outbound /\ q.active = t.active /\ q.ready = t.ready
  BY DEF Cleaned, TargetType
<1> HIDE DEF q
<1>2. /\ tgt'[j] = q /\ \A k \in Jobs \ {j} : tgt'[k] = tgt[k]
      /\ tgt' \in [Jobs -> TargetType]
  BY <1>0, <1>1 DEF q
<1>3. t.outbound = 0 /\ t.active = 0 /\ t.ready = 0
  <2>1. {c \in t.tree : connection_is_active(c)} = {} /\ {c \in t.tree : con[c].status = "ok"} = {}
    OBVIOUS
  <2> QED BY <2>1, FS_EmptySet DEF Cleaned
<1>4. /\ s \in [active : Int, inactive : Int, ready_targets : Int, ready : Int]
      /\ s.active = stat.active /\ s.inactive = stat.inactive
      /\ s.ready_targets = Cardinality(Readied')
  BY <1>1, <1>2, ReadyCounted DEF Cleaned
<1> DEFINE n == IF t.completed THEN 0 ELSE 1
<1>5. s.inactive - n \in Int
  BY <1>4, SMT
<1> HIDE DEF s, n
<1>6. /\ stat' \in [active : Int, inactive : Int, ready_targets : Int, ready : Int]
      /\ stat'.active = s.active /\ stat'.inactive = s.inactive - n
      /\ stat'.ready_targets = s.ready_targets
  BY <1>4, <1>5 DEF s, n
<1> USE DEF TargetInv
<1>7. TargetTypeOK'
  BY <1>0, <1>2, <1>6 DEF TargetTypeOK
<1>8. Held(j) /\ (tgt[j].hashed \/ tgt[j].completed) /\ tgt[j].global_refcnt = 0
  BY DEF Held, Cleaned
<1>9. StatsRight'
  <2>1. CASE tgt[j].hashed
    <3>1. n = 1
      BY <1>8, <2>1 DEF n, Held, Cleaned
    <3>2. Hashed' = Hashed \ {j} /\ j \in Hashed
      BY <1>1, <1>2, <2>1 DEF Hashed
    <3>3. Unused(tgt)' = Unused(tgt) \ {j} /\ j \in Unused(tgt)
      BY <1>1, <1>2, <1>8, <2>1 DEF Unused
    <3>4. /\ IsFiniteSet(Hashed) /\ IsFiniteSet(Unused(tgt))
          /\ Cardinality(Hashed) \in Nat /\ Cardinality(Unused(tgt)) \in Nat
      <4>1. Hashed \in SUBSET Jobs /\ Unused(tgt) \in SUBSET Jobs
        BY DEF Hashed, Unused
      <4> QED BY <4>1, FiniteSets
    <3>5. Cardinality(Hashed') = Cardinality(Hashed) - 1
      BY <3>2, <3>4, FS_RemoveElement
    <3>6. Cardinality(Unused(tgt)') = Cardinality(Unused(tgt)) - 1
      BY <3>3, <3>4, FS_RemoveElement
    <3>7. stat.inactive = Cardinality(Unused(tgt)) /\ stat.active = Cardinality(Hashed) - stat.inactive
      BY DEF StatsRight
    <3>8. stat'.inactive = Cardinality(Unused(tgt)') /\ stat'.active = Cardinality(Hashed') - stat'.inactive
      BY <1>4, <1>6, <3>1, <3>4, <3>5, <3>6, <3>7, SMT
    <3> QED BY <1>4, <1>6, <3>8 DEF StatsRight
  <2>2. CASE ~ tgt[j].hashed
    <3>1. n = 0
      BY <1>8, <2>2 DEF n, Cleaned
    <3>2. Hashed' = Hashed
      BY <1>1, <1>2, <2>2 DEF Hashed
    <3>3. Unused(tgt)' = Unused(tgt)
      BY <1>1, <1>2, <2>2 DEF Unused
    <3>4. s.inactive - 0 = s.inactive
      BY <1>4, SMT
    <3> QED BY <1>4, <1>6, <3>1, <3>2, <3>3, <3>4 DEF StatsRight
  <2> QED BY <2>1, <2>2
<1>10. Named'
  <2>1. ASSUME NEW a \in Addrs, conf[a] > 0 PROVE \E k \in Jobs : tgt'[k].hashed /\ tgt'[k].addr = a
    <3>1. PICK k \in Jobs : tgt[k].hashed /\ tgt[k].addr = a
      BY <2>1 DEF Named
    <3>2. tgt[k].global_refcnt = conf[a]
      BY <3>1 DEF Held
    <3>3. k # j
      BY <1>8, <2>1, <3>2, SMT
    <3> QED BY <1>2, <3>1, <3>3
  <2> QED BY <1>0, <2>1 DEF Named
<1>11. ASSUME NEW k \in Jobs PROVE Held(k)' /\ Counts(k)'
  <2>1. CASE k = j
    <3>1. Held(k)'
      BY <1>1, <1>2, <1>3, <2>1 DEF Held
    <3>2. {c \in q.tree : connection_is_active(c)'} = {}
      BY <1>1
    <3>3. Counts(k)'
      BY <1>1, <1>2, <1>3, <2>1, <3>2, FS_EmptySet DEF Counts
    <3> QED BY <3>1, <3>3
  <2>2. CASE k # j
    <3>1. tgt'[k] = tgt[k]
      BY <1>2, <2>2
    <3>2. Held(k)'
      BY <1>0, <3>1 DEF Held
    <3>3. \A c \in tgt[k].tree : connection_is_active(c)' <=> connection_is_active(c)
      BY <1>0 DEF connection_is_active
    <3>4. Counts(k)'
      BY <3>1, <3>3, CountsStay
    <3> QED BY <3>2, <3>4
  <2> QED BY <2>1, <2>2
<1>12. ASSUME NEW c \in Conns PROVE Linked(c)'
  <2>1. Linked(c) /\ con'[c] = con[c]
    BY <1>0
  <2>2. con[c].status # "none" /\ ~ con[c].error => con[c].target # j
    BY <2>1 DEF Linked, Cleaned, DeadIn
  <2>3. con[c].target \in Jobs => \/ con[c].target = j /\ tgt'[con[c].target].completed
                                  \/ tgt'[con[c].target] = tgt[con[c].target]
    BY <1>1, <1>2
  <2>4. \A k \in Jobs : c \in tgt'[k].tree => c \in tgt[k].tree
    BY <1>1, <1>2
  <2>5. con[c].status # "none" /\ ~ con[c].error => con[c].target \in Jobs
    BY <2>1 DEF Linked
  <2> QED BY <2>1, <2>2, <2>3, <2>4, <2>5, SMT DEF Linked
<1> QED
  BY <1>7, <1>9, <1>10, <1>11, <1>12

(* A target with a timer or a signal is not free.                          *)
LEMMA Signalled ==
  ASSUME NEW j \in Jobs, NEW op \in {"timer", "run"}, tgt[j][op]
  PROVE  tgt[j] # FreeTarget
<1>1. ~ FreeTarget["timer"] /\ ~ FreeTarget["run"]
  BY DEF FreeTarget
<1> QED
  BY <1>1

(* Before init_epoll the job only sets its timer.                          *)
LEMMA WaitStep ==
  ASSUME TargetInv, NEW j \in Jobs, NEW op \in {"timer", "run"}, tgt[j][op],
         tgt' = [tgt EXCEPT ![j] = [@ EXCEPT ![op] = FALSE, !.timer = TRUE]],
         UNCHANGED <<con, stat, epoll, conf>>
  PROVE  TargetInv' /\ \A k \in Jobs : Like(tgt[k], tgt'[k])
<1> DEFINE q == [tgt[j] EXCEPT ![op] = FALSE, !.timer = TRUE]
<1>1. tgt \in [Jobs -> TargetType] /\ epoll \in BOOLEAN
  BY DEF TargetInv, TargetTypeOK
<1>2. q \in TargetType /\ Like(tgt[j], q)
  <2>1. CASE op = "timer"
    <3> DEFINE r == [tgt[j] EXCEPT !.timer = FALSE]
    <3>1. q = [r EXCEPT !.timer = TRUE]
      BY <2>1
    <3>2. r \in TargetType /\ Like(tgt[j], r)
      BY <1>1 DEF TargetType, Like
    <3> HIDE DEF r
    <3>3. [r EXCEPT !.timer = TRUE] \in TargetType /\ Like(r, [r EXCEPT !.timer = TRUE])
      BY <3>2 DEF TargetType, Like
    <3> QED BY <3>1, <3>2, <3>3 DEF Like
  <2>2. CASE op = "run"
    <3> DEFINE r == [tgt[j] EXCEPT !.run = FALSE]
    <3>1. q = [r EXCEPT !.timer = TRUE]
      BY <2>2
    <3>2. r \in TargetType /\ Like(tgt[j], r)
      BY <1>1 DEF TargetType, Like
    <3> HIDE DEF r
    <3>3. [r EXCEPT !.timer = TRUE] \in TargetType /\ Like(r, [r EXCEPT !.timer = TRUE])
      BY <3>2 DEF TargetType, Like
    <3> QED BY <3>1, <3>2, <3>3 DEF Like
  <2> QED BY <2>1, <2>2
<1>3. tgt' = [tgt EXCEPT ![j] = q]
  OBVIOUS
<1> HIDE DEF q
<1>4. tgt' \in [Jobs -> TargetType]
  BY <1>1, <1>2, <1>3
<1>5. \A k \in Jobs : Like(tgt[k], tgt'[k]) /\ (tgt[k] = FreeTarget => tgt'[k] = FreeTarget)
  BY <1>1, <1>2, <1>3, Signalled DEF Like
<1>6. UNCHANGED <<conf, con, stat>> /\ epoll' \in BOOLEAN
  BY <1>1
<1>7. TargetInv'
  BY <1>4, <1>5, <1>6, MarkStep
<1> QED
  BY <1>5, <1>7

(* A target without entries fails its connections.                         *)
LEMMA CleanStep ==
  ASSUME TargetInv, NEW j \in Jobs, NEW t, Cleaned(j, t), tgt[j] # FreeTarget,
         t.global_refcnt = 0, clean_unused_target(j, t), UNCHANGED <<epoll, conf>>
  PROVE  TargetInv'
<1>1. CASE t.tree = {}
  BY <1>1, LeaveStep DEF clean_unused_target
<1>2. CASE t.tree # {}
  <2> DEFINE q == [t EXCEPT !.due = FALSE, !.timer = TRUE]
  <2>1. tgt' = [tgt EXCEPT ![j] = q] /\ stat' = ReadyStat(j, t) /\ con' = FailAll(t.tree)
    BY <1>2 DEF clean_unused_target
  <2>2. /\ q \in TargetType /\ q.addr = t.addr /\ q.hashed = t.hashed /\ q.completed = t.completed
        /\ q.global_refcnt = t.global_refcnt /\ q.tree = t.tree
        /\ q.outbound = t.outbound /\ q.active = t.active /\ q.ready = t.ready
    BY DEF Cleaned, TargetType
  <2> HIDE DEF q
  <2>3. q.tree = t.tree \cup {} /\ {} \in SUBSET FreeConns
    BY <2>2
  <2>4. q.outbound = t.outbound + Cardinality({})
    <3>1. t.outbound \in Nat
      BY DEF Cleaned, TargetType
    <3> QED BY <2>2, <3>1, FS_EmptySet, SMT
  <2>5. con' = Worked(j, t.tree, {})
    BY <2>1 DEF Worked, FailAll
  <2> QED BY <2>1, <2>2, <2>3, <2>4, <2>5, WorkStep
<1> QED
  BY <1>1, <1>2

(* create_new_connections opens connections of a target in use, within the *)
(* limit.                                                                  *)
LEMMA CreateStep ==
  ASSUME TargetInv, NEW j \in Jobs, NEW t, Cleaned(j, t), tgt[j] # FreeTarget,
         t.global_refcnt > 0, create_new_connections(j, t), UNCHANGED <<epoll, conf>>
  PROVE  /\ TargetInv'
         /\ tgt'[j].outbound > tgt[j].outbound => tgt'[j].outbound <= tgt[j].lim.max
         /\ \A k \in Jobs \ {j} : tgt'[k] = tgt[k]
<1>1. PICK late \in SUBSET check_ready_fails(t), new \in SUBSET FreeConns :
        LET want == NeedConnections(t, Cardinality(late)) - t.outbound IN
        /\ Cardinality(new) <= (IF (t.due \/ t.active > 0) /\ want > 0 THEN want ELSE 0)
        /\ con' = Worked(j, late, new)
        /\ tgt' = [tgt EXCEPT ![j] = [t EXCEPT !.tree = @ \cup new,
                                               !.outbound = @ + Cardinality(new),
                                               !.due = IF t.due \/ t.active > 0 THEN FALSE ELSE @,
                                               !.timer = TRUE]]
        /\ stat' = ReadyStat(j, t)
  BY DEF create_new_connections, Worked, Opened
<1>2. late \in SUBSET t.tree
  BY DEF check_ready_fails
<1>3. /\ t \in TargetType /\ t.outbound \in Nat /\ t.active \in Nat /\ t.due \in BOOLEAN
      /\ t.tree \subseteq Conns /\ t.lim = tgt[j].lim /\ t.lim \in Limits /\ t.outbound <= tgt[j].outbound
      /\ tgt[j].outbound \in Nat
  <2>1. tgt[j] \in TargetType
    BY DEF TargetInv, TargetTypeOK
  <2> QED BY <2>1, SMT DEF Cleaned, TargetType
<1>4. new \in SUBSET Conns /\ Cardinality(new) \in Nat /\ Cardinality(late) \in Nat
  <2>1. new \in SUBSET Conns /\ late \in SUBSET Conns
    BY <1>2, <1>3 DEF FreeConns
  <2> QED BY <2>1, FiniteSets
<1> DEFINE due == IF t.due \/ t.active > 0 THEN FALSE ELSE t.due
           out == t.outbound + Cardinality(new)
           q == [t EXCEPT !.tree = t.tree \cup new, !.outbound = out, !.due = due, !.timer = TRUE]
<1>5. due \in BOOLEAN /\ out \in Nat /\ t.tree \cup new \in SUBSET Conns
  <2>1. out \in Nat
    BY <1>3, <1>4, SMT
  <2> QED BY <1>3, <1>4, <2>1
<1>6. tgt' = [tgt EXCEPT ![j] = q]
  BY <1>1
<1> HIDE DEF due, out
<1>7. /\ q \in TargetType /\ q.addr = t.addr /\ q.hashed = t.hashed /\ q.completed = t.completed
      /\ q.global_refcnt = t.global_refcnt /\ q.tree = t.tree \cup new
      /\ q.outbound = out /\ q.active = t.active /\ q.ready = t.ready
  BY <1>3, <1>5 DEF TargetType
<1> HIDE DEF q
<1>8. tgt[j].hashed
  <2>1. tgt[j].global_refcnt # 0
    BY SMT DEF Cleaned
  <2> QED BY <2>1 DEF TargetInv, Held
<1>9. TargetInv'
  BY <1>1, <1>2, <1>6, <1>7, <1>8, WorkStep DEF out
<1>10. tgt \in [Jobs -> TargetType]
  BY DEF TargetInv, TargetTypeOK
<1>11. tgt'[j].outbound = out /\ \A k \in Jobs \ {j} : tgt'[k] = tgt[k]
  BY <1>6, <1>7, <1>10
<1>12. out > tgt[j].outbound => out <= tgt[j].lim.max
  <2>1. t.lim.min \in Nat /\ t.lim.max \in Nat
    BY <1>3, TargetConstants
  <2> DEFINE need == NeedConnections(t, Cardinality(late))
  <2>2. need \in Nat /\ need <= t.lim.max
    BY <1>4, <2>1, SMT DEF NeedConnections
  <2>3. Cardinality(new) <= IF need - t.outbound > 0 THEN need - t.outbound ELSE 0
    <3>1. Cardinality(new) <= (IF (t.due \/ t.active > 0) /\ need - t.outbound > 0
                               THEN need - t.outbound ELSE 0)
      BY <1>1
    <3> HIDE DEF need
    <3>2. CASE (t.due \/ t.active > 0) /\ need - t.outbound > 0
      BY <3>1, <3>2
    <3>3. CASE ~ ((t.due \/ t.active > 0) /\ need - t.outbound > 0)
      <4>1. Cardinality(new) <= 0
        BY <3>1, <3>3
      <4> QED BY <1>3, <1>4, <2>2, <4>1, SMT
    <3> QED BY <3>2, <3>3
  <2> HIDE DEF need
  <2> QED BY <1>3, <1>4, <2>1, <2>2, <2>3, SMT DEF out
<1> QED
  BY <1>9, <1>11, <1>12

(* The job of a target keeps the counts, and opens connections only within *)
(* the limit of a target in use.                                           *)
LEMMA JobStep ==
  ASSUME TargetInv, NEW j \in Jobs, do_conn_target_job(j)
  PROVE  /\ TargetInv'
         /\ \A k \in Jobs : tgt'[k].outbound > tgt[k].outbound =>
              tgt[k].global_refcnt > 0 /\ tgt'[k].outbound <= tgt[k].lim.max
<1>1. PICK op \in {"timer", "run"} :
        /\ tgt[j][op]
        /\ LET t == [destroy_dead_target_connections(j) EXCEPT ![op] = FALSE] IN
           \/ /\ ~ epoll
              /\ tgt' = [tgt EXCEPT ![j] = [@ EXCEPT ![op] = FALSE, !.timer = TRUE]]
              /\ UNCHANGED <<con, stat>>
           \/ epoll /\ t.global_refcnt = 0 /\ clean_unused_target(j, t)
           \/ epoll /\ t.global_refcnt > 0 /\ create_new_connections(j, t)
  BY DEF do_conn_target_job
<1>2. UNCHANGED <<epoll, conf>> /\ tgt[j] # FreeTarget
  BY <1>1, Signalled DEF do_conn_target_job
<1> DEFINE t == [destroy_dead_target_connections(j) EXCEPT ![op] = FALSE]
<1>3. Cleaned(j, t)
  BY DeadGone
<1>4. /\ tgt \in [Jobs -> TargetType]
      /\ \A k \in Jobs : tgt[k].outbound \in Nat
  BY SMT DEF TargetInv, TargetTypeOK, TargetType
<1>5. CASE tgt' = [tgt EXCEPT ![j] = [@ EXCEPT ![op] = FALSE, !.timer = TRUE]] /\ UNCHANGED <<con, stat>>
  <2>1. TargetInv' /\ \A k \in Jobs : Like(tgt[k], tgt'[k])
    BY <1>1, <1>2, <1>5, WaitStep
  <2>2. \A k \in Jobs : tgt'[k].outbound = tgt[k].outbound
    BY <2>1 DEF Like
  <2> QED BY <1>4, <2>1, <2>2, SMT
<1> HIDE DEF t
<1>6. CASE t.global_refcnt = 0 /\ clean_unused_target(j, t)
  <2>1. TargetInv'
    BY <1>2, <1>3, <1>6, CleanStep
  <2>2. \A k \in Jobs : tgt'[k].outbound <= tgt[k].outbound
    <3>1. t.outbound <= tgt[j].outbound /\ t \in TargetType
      BY <1>3 DEF Cleaned
    <3>2. \A k \in Jobs \ {j} : tgt'[k] = tgt[k]
      BY <1>4, <1>6 DEF clean_unused_target
    <3>3. tgt'[j].outbound = t.outbound
      <4>1. CASE tgt' = [tgt EXCEPT ![j] = [t EXCEPT !.due = FALSE, !.timer = TRUE]]
        BY <1>4, <3>1, <4>1 DEF TargetType
      <4>2. CASE tgt' = [tgt EXCEPT ![j] = [t EXCEPT !.due = FALSE, !.timer = FALSE,
                                                      !.hashed = FALSE, !.completed = TRUE]]
        BY <1>4, <3>1, <4>2 DEF TargetType
      <4> QED BY <1>6, <4>1, <4>2 DEF clean_unused_target
    <3> QED BY <1>4, <3>1, <3>2, <3>3, SMT
  <2>3. \A k \in Jobs : tgt'[k].outbound \in Nat
    BY <2>1, SMT DEF TargetInv, TargetTypeOK, TargetType
  <2> QED BY <1>4, <2>1, <2>2, <2>3, SMT
<1>7. CASE t.global_refcnt > 0 /\ create_new_connections(j, t)
  <2>1. /\ TargetInv'
        /\ tgt'[j].outbound > tgt[j].outbound => tgt'[j].outbound <= tgt[j].lim.max
        /\ \A k \in Jobs \ {j} : tgt'[k] = tgt[k]
    BY <1>2, <1>3, <1>7, CreateStep
  <2>2. tgt[j].global_refcnt > 0
    BY <1>3, <1>7 DEF Cleaned
  <2>3. \A k \in Jobs \ {j} : ~ (tgt'[k].outbound > tgt[k].outbound)
    BY <1>4, <2>1, SMT
  <2> QED BY <2>1, <2>2, <2>3
<1> QED
  BY <1>1, <1>5, <1>6, <1>7 DEF t
-----------------------------------------------------------------------------
(* The addresses a new configuration needs a target for.                   *)
Missing(new) == {a \in Addrs : new[a] > 0 /\ InHash(a) = {}}

(* T1 and T2 are the targets with the references of both configurations    *)
(* and of the new one only.                                                *)
Reload(new, lim, make, T1, T2) ==
  /\ new \in [Addrs -> Nat] /\ lim \in Limits /\ make \in [Missing(new) -> FreeJobs]
  /\ \A a, b \in Missing(new) : make[a] = make[b] => a = b
  /\ T1 = create_targets(new, lim, make) /\ T2 = destroy_targets(T1, conf)

(* A target that is made has the references of the new configuration only: *)
(* the old one does not name its address.                                  *)
LEMMA MadeTarget ==
  ASSUME TargetInv, NEW new, NEW lim, NEW make, NEW T1, NEW T2, Reload(new, lim, make, T1, T2),
         NEW a \in Missing(new), NEW j, j = make[a]
  PROVE  /\ j \in Jobs /\ tgt[j] = FreeTarget /\ T1[j] = T2[j]
         /\ T1[j] \in TargetType /\ T1[j].addr = a /\ T1[j].hashed /\ ~ T1[j].completed
         /\ T1[j].global_refcnt = new[a] /\ T1[j].tree = {} /\ T1[j].outbound = 0
         /\ T1[j].active = 0 /\ T1[j].ready = 0
<1>1. j \in Jobs /\ tgt[j] = FreeTarget /\ a \in Addrs /\ DOMAIN make = Missing(new)
  BY DEF Reload, FreeJobs, Missing
<1>2. (CHOOSE b \in DOMAIN make : make[b] = j) = a
  BY <1>1 DEF Reload
<1> DEFINE r == [FreeTarget EXCEPT !.addr = a, !.hashed = TRUE, !.global_refcnt = new[a],
                                   !.lim = lim, !.due = TRUE, !.run = TRUE]
<1>3. T1[j] = r
  BY <1>1, <1>2 DEF Reload, create_targets
<1>4. new[a] \in Nat
  BY <1>1 DEF Reload
<1>5. /\ r \in TargetType /\ r.addr = a /\ r.hashed /\ ~ r.completed /\ r.global_refcnt = new[a]
      /\ r.tree = {} /\ r.outbound = 0 /\ r.active = 0 /\ r.ready = 0
  BY <1>1, <1>4, FreeTypes DEF Reload, TargetType
<1> HIDE DEF r
<1>6. ~ (conf[a] > 0)
  <2>1. InHash(a) = {}
    BY DEF Missing
  <2> QED BY <1>1, <2>1 DEF TargetInv, Named, InHash
<1>7. T2[j] = T1[j]
  BY <1>1, <1>3, <1>5, <1>6 DEF Reload, destroy_targets
<1> QED
  BY <1>1, <1>3, <1>5, <1>7

(* A target in the table gets the references of the new configuration and  *)
(* loses those of the old one.                                             *)
LEMMA KeptTarget ==
  ASSUME TargetInv, NEW new, NEW lim, NEW make, NEW T1, NEW T2, Reload(new, lim, make, T1, T2),
         NEW j \in Jobs, tgt[j].hashed
  PROVE  /\ T1[j].hashed /\ T1[j].global_refcnt = conf[tgt[j].addr] + new[tgt[j].addr]
         /\ T2[j] \in TargetType /\ T2[j].global_refcnt = new[tgt[j].addr]
         /\ T2[j].addr = tgt[j].addr /\ T2[j].hashed
         /\ ~ T2[j].completed /\ T2[j].tree = tgt[j].tree
         /\ T2[j].outbound = tgt[j].outbound /\ T2[j].active = tgt[j].active
         /\ T2[j].ready = tgt[j].ready
<1> DEFINE a == tgt[j].addr
<1>1. /\ tgt[j] \in TargetType /\ a \in Addrs /\ tgt[j].global_refcnt = conf[a]
      /\ conf \in [Addrs -> Nat] /\ ~ tgt[j].completed
  BY DEF TargetInv, TargetTypeOK, Held
<1>2. conf[a] \in Nat /\ new[a] \in Nat
  BY <1>1 DEF Reload
<1>3. \A b \in DOMAIN make : make[b] # j
  <2>1. j \notin FreeJobs
    BY FreeTypes DEF FreeJobs
  <2> QED BY <2>1 DEF Reload
<1>4. T1[j] = IF new[a] > 0 THEN [tgt[j] EXCEPT !.global_refcnt = @ + new[a], !.lim = lim] ELSE tgt[j]
  BY <1>3 DEF Reload, create_targets
<1>5. conf[a] + new[a] \in Nat /\ (~ (new[a] > 0) => conf[a] = conf[a] + new[a])
  BY <1>2, SMT
<1>6. /\ T1[j] \in TargetType /\ T1[j].global_refcnt = conf[a] + new[a]
      /\ T1[j].addr = a /\ T1[j].hashed = tgt[j].hashed /\ T1[j].completed = tgt[j].completed
      /\ T1[j].tree = tgt[j].tree /\ T1[j].outbound = tgt[j].outbound
      /\ T1[j].active = tgt[j].active /\ T1[j].ready = tgt[j].ready
  <2>1. CASE new[a] > 0
    <3> DEFINE n == conf[a] + new[a]
               t == [tgt[j] EXCEPT !.global_refcnt = n]
    <3>1. T1[j] = [t EXCEPT !.lim = lim]
      BY <1>1, <1>4, <2>1
    <3>2. lim \in Limits
      BY DEF Reload
    <3> HIDE DEF n
    <3>3. /\ t \in TargetType /\ t.global_refcnt = n
          /\ t.addr = a /\ t.hashed = tgt[j].hashed /\ t.completed = tgt[j].completed
          /\ t.tree = tgt[j].tree /\ t.outbound = tgt[j].outbound
          /\ t.active = tgt[j].active /\ t.ready = tgt[j].ready
      BY <1>1, <1>5 DEF TargetType, n
    <3> HIDE DEF t, a
    <3>4. /\ T1[j] \in TargetType /\ T1[j].global_refcnt = n
          /\ T1[j].addr = a /\ T1[j].hashed = tgt[j].hashed /\ T1[j].completed = tgt[j].completed
          /\ T1[j].tree = tgt[j].tree /\ T1[j].outbound = tgt[j].outbound
          /\ T1[j].active = tgt[j].active /\ T1[j].ready = tgt[j].ready
      BY <3>1, <3>2, <3>3 DEF TargetType
    <3> QED BY <3>4 DEF n
  <2>2. CASE ~ (new[a] > 0)
    BY <1>1, <1>4, <1>5, <2>2
  <2> QED BY <2>1, <2>2
<1> DEFINE run == T1[j].run \/ T1[j].global_refcnt = conf[a]
<1>7. T2[j] = IF conf[a] > 0 THEN [T1[j] EXCEPT !.global_refcnt = @ - conf[a], !.run = run] ELSE T1[j]
  BY <1>6 DEF Reload, destroy_targets
<1>8. conf[a] + new[a] - conf[a] = new[a] /\ (~ (conf[a] > 0) => conf[a] + new[a] = new[a])
  BY <1>2, SMT
<1>9. run \in BOOLEAN
  OBVIOUS
<1> HIDE DEF run, a
<1>10. /\ T2[j] \in TargetType /\ T2[j].global_refcnt = new[a]
       /\ T2[j].addr = T1[j].addr /\ T2[j].hashed = T1[j].hashed /\ T2[j].completed = T1[j].completed
       /\ T2[j].tree = T1[j].tree /\ T2[j].outbound = T1[j].outbound
       /\ T2[j].active = T1[j].active /\ T2[j].ready = T1[j].ready
  <2>1. CASE conf[a] > 0
    <3>1. T1[j].global_refcnt - conf[a] = new[a]
      BY <1>2, <1>6, SMT
    <3> DEFINE t == [T1[j] EXCEPT !.global_refcnt = new[a]]
    <3>2. T2[j] = [t EXCEPT !.run = run]
      BY <1>7, <2>1, <3>1
    <3>3. /\ t \in TargetType /\ t.global_refcnt = new[a]
          /\ t.addr = T1[j].addr /\ t.hashed = T1[j].hashed /\ t.completed = T1[j].completed
          /\ t.tree = T1[j].tree /\ t.outbound = T1[j].outbound
          /\ t.active = T1[j].active /\ t.ready = T1[j].ready
      BY <1>2, <1>6 DEF TargetType
    <3> HIDE DEF t
    <3> QED BY <1>9, <3>2, <3>3 DEF TargetType
  <2>2. CASE ~ (conf[a] > 0)
    BY <1>6, <1>7, <1>8, <2>2
  <2> QED BY <2>1, <2>2
<1> QED
  BY <1>1, <1>6, <1>10 DEF a

(* Other jobs are left alone.                                              *)
LEMMA OtherTarget ==
  ASSUME TargetInv, NEW new, NEW lim, NEW make, NEW T1, NEW T2, Reload(new, lim, make, T1, T2),
         NEW j \in Jobs, ~ tgt[j].hashed, \A a \in Missing(new) : make[a] # j
  PROVE  T1[j] = tgt[j] /\ T2[j] = tgt[j]
<1> USE DEF Reload
<1>1. \A a \in DOMAIN make : make[a] # j
  OBVIOUS
<1>2. T1[j] = tgt[j]
  BY <1>1 DEF create_targets
<1> QED
  BY <1>2 DEF destroy_targets

(* The statistics follow: the targets that are made are new in the table,  *)
(* and a target without references before and after the new configuration  *)
(* is in neither set of those that change.                                 *)
LEMMA ReloadCounts ==
  ASSUME TargetInv, NEW new, NEW lim, NEW make, NEW T1, NEW T2, Reload(new, lim, make, T1, T2)
  PROVE  /\ Cardinality(Unused(T2)) = Cardinality(Unused(tgt)) - Cardinality(Unused(tgt) \ Unused(T1))
                                        + Cardinality(Unused(T2) \ Unused(T1))
         /\ Cardinality({j \in Jobs : T2[j].hashed}) = Cardinality(Hashed) + Cardinality(Missing(new))
         /\ Cardinality(Missing(new)) \in Nat
<1> DEFINE M == {make[a] : a \in Missing(new)}
<1>0. M \subseteq Jobs /\ M \in SUBSET Jobs
  BY DEF Reload, FreeJobs
<1>1. \A a \in Missing(new) : T1[make[a]].hashed /\ T2[make[a]].hashed /\ ~ tgt[make[a]].hashed
                              /\ T1[make[a]].global_refcnt # 0
  <2> SUFFICES ASSUME NEW a \in Missing(new)
               PROVE  /\ T1[make[a]].hashed /\ T2[make[a]].hashed /\ ~ tgt[make[a]].hashed
                      /\ T1[make[a]].global_refcnt # 0
    OBVIOUS
  <2>1. new[a] > 0
    BY DEF Missing
  <2>2. new[a] # 0
    BY <2>1, SMT
  <2>3. /\ T1[make[a]].hashed /\ T1[make[a]] = T2[make[a]] /\ tgt[make[a]] = FreeTarget
        /\ T1[make[a]].global_refcnt = new[a]
    BY MadeTarget, SMT
  <2> QED BY <2>2, <2>3, FreeTypes
<1>2. \A j \in Jobs : tgt[j].hashed =>
        /\ T1[j].hashed /\ T2[j].hashed
        /\ T1[j].global_refcnt = 0 => tgt[j].global_refcnt = 0 /\ T2[j].global_refcnt = 0
  <2> SUFFICES ASSUME NEW j \in Jobs, tgt[j].hashed
               PROVE  /\ T1[j].hashed /\ T2[j].hashed
                      /\ T1[j].global_refcnt = 0 => tgt[j].global_refcnt = 0 /\ T2[j].global_refcnt = 0
    OBVIOUS
  <2> DEFINE a == tgt[j].addr
  <2>1. /\ T1[j].hashed /\ T1[j].global_refcnt = conf[a] + new[a] /\ T2[j].global_refcnt = new[a]
        /\ T2[j].hashed
    BY KeptTarget, SMT
  <2>2. a \in Addrs /\ tgt[j].global_refcnt = conf[a] /\ conf \in [Addrs -> Nat]
    BY DEF TargetInv, TargetTypeOK, Held
  <2>3. conf[a] \in Nat /\ new[a] \in Nat
    BY <2>2 DEF Reload
  <2> HIDE DEF a
  <2>4. conf[a] + new[a] = 0 => conf[a] = 0 /\ new[a] = 0
    BY <2>3, SMT
  <2> QED BY <2>1, <2>2, <2>4
<1>3. \A j \in Jobs : ~ tgt[j].hashed /\ j \notin M => ~ T1[j].hashed /\ ~ T2[j].hashed
  <2> SUFFICES ASSUME NEW j \in Jobs, ~ tgt[j].hashed, j \notin M PROVE ~ T1[j].hashed /\ ~ T2[j].hashed
    OBVIOUS
  <2>1. \A a \in Missing(new) : make[a] # j
    OBVIOUS
  <2>2. T1[j] = tgt[j] /\ T2[j] = tgt[j]
    BY <2>1, OtherTarget, SMT
  <2> QED BY <2>2
<1>4. Unused(T1) \subseteq Unused(tgt) /\ Unused(T1) \subseteq Unused(T2)
  <2>1. \A j \in Unused(T1) : j \in Jobs /\ T1[j].hashed /\ T1[j].global_refcnt = 0
    BY DEF Unused
  <2>2. \A j \in Unused(T1) : tgt[j].hashed
    BY <1>1, <1>3, <2>1
  <2> QED BY <1>2, <2>1, <2>2 DEF Unused
<1>5. Unused(tgt) \in SUBSET Jobs /\ Unused(T1) \in SUBSET Jobs /\ Unused(T2) \in SUBSET Jobs
  BY DEF Unused
<1>6. {j \in Jobs : T2[j].hashed} = Hashed \cup M /\ Hashed \cap M = {}
  <2>1. \A j \in M : T2[j].hashed /\ ~ tgt[j].hashed
    BY <1>1
  <2> QED BY <1>0, <1>2, <1>3, <2>1 DEF Hashed
<1>7. Cardinality(M) = Cardinality(Missing(new)) /\ Cardinality(Missing(new)) \in Nat
  <2>1. make \in Injection(Missing(new), M) /\ make \in Surjection(Missing(new), M)
    BY DEF Reload, Injection, Surjection, IsInjective
  <2>2. IsFiniteSet(M)
    BY <1>0, FiniteSets
  <2>3. IsFiniteSet(Missing(new))
    BY <2>1, <2>2, FS_Injection
  <2> QED BY <2>1, <2>3, FS_Surjection, FS_CardinalityType
<1> HIDE DEF M
<1>8. Cardinality(Hashed \cup M) = Cardinality(Hashed) + Cardinality(M)
  <2>1. Hashed \in SUBSET Jobs
    BY DEF Hashed
  <2> QED BY <1>0, <1>6, <2>1, FiniteSets, CountJoin
<1>9. /\ Cardinality(Unused(tgt) \ Unused(T1)) = Cardinality(Unused(tgt)) - Cardinality(Unused(T1))
      /\ Cardinality(Unused(T2) \ Unused(T1)) = Cardinality(Unused(T2)) - Cardinality(Unused(T1))
  BY <1>4, <1>5, FiniteSets, CountLess
<1>10. /\ Cardinality(Unused(tgt)) \in Nat /\ Cardinality(Unused(T1)) \in Nat
       /\ Cardinality(Unused(T2)) \in Nat
  BY <1>5, FiniteSets
<1>11. Cardinality(Unused(T2)) = Cardinality(Unused(tgt)) - Cardinality(Unused(tgt) \ Unused(T1))
                                   + Cardinality(Unused(T2) \ Unused(T1))
  BY <1>9, <1>10, SMT
<1> QED
  BY <1>6, <1>7, <1>8, <1>11

(* What a reload does to each job.                                         *)
LEMMA ReloadEach ==
  ASSUME TargetInv, NEW new, NEW lim, NEW make, NEW T1, NEW T2, Reload(new, lim, make, T1, T2),
         NEW j \in Jobs
  PROVE  /\ T2[j] \in TargetType
         /\ T2[j].tree = tgt[j].tree /\ T2[j].outbound = tgt[j].outbound
         /\ T2[j].active = tgt[j].active /\ T2[j].ready = tgt[j].ready
         /\ T2[j].completed = tgt[j].completed
         /\ tgt[j].hashed => T2[j].hashed /\ T2[j].addr = tgt[j].addr
         /\ T2[j].hashed => /\ T2[j].addr \in Addrs /\ ~ T2[j].completed
                            /\ T2[j].global_refcnt = new[T2[j].addr]
         /\ ~ T2[j].hashed => T2[j] = tgt[j]
<1>1. tgt[j] \in TargetType /\ Held(j)
  BY DEF TargetInv, TargetTypeOK
<1>2. CASE tgt[j].hashed
  <2>1. /\ T2[j] \in TargetType /\ T2[j].global_refcnt = new[tgt[j].addr]
        /\ T2[j].addr = tgt[j].addr /\ T2[j].hashed
        /\ ~ T2[j].completed /\ T2[j].tree = tgt[j].tree
        /\ T2[j].outbound = tgt[j].outbound /\ T2[j].active = tgt[j].active
        /\ T2[j].ready = tgt[j].ready
    BY <1>2, KeptTarget, SMT
  <2>2. T2[j].completed \in BOOLEAN /\ tgt[j].completed \in BOOLEAN
    BY <1>1, <2>1 DEF TargetType
  <2> QED BY <1>1, <1>2, <2>1, <2>2 DEF Held
<1>3. ASSUME ~ tgt[j].hashed, NEW a \in Missing(new), make[a] = j
      PROVE  /\ T2[j] \in TargetType /\ T2[j].tree = tgt[j].tree /\ T2[j].outbound = tgt[j].outbound
             /\ T2[j].active = tgt[j].active /\ T2[j].ready = tgt[j].ready
             /\ T2[j].completed = tgt[j].completed /\ T2[j].hashed
             /\ T2[j].addr \in Addrs /\ ~ T2[j].completed /\ T2[j].global_refcnt = new[T2[j].addr]
  <2>1. /\ tgt[j] = FreeTarget /\ T1[j] = T2[j]
        /\ T1[j] \in TargetType /\ T1[j].addr = a /\ T1[j].hashed /\ ~ T1[j].completed
        /\ T1[j].global_refcnt = new[a] /\ T1[j].tree = {} /\ T1[j].outbound = 0
        /\ T1[j].active = 0 /\ T1[j].ready = 0
    BY <1>3, MadeTarget, SMT
  <2>2. a \in Addrs
    BY DEF Missing
  <2>3. T2[j].completed = FreeTarget.completed
    <3>1. T2[j].completed \in BOOLEAN /\ FreeTarget.completed \in BOOLEAN
      BY <2>1, FreeTypes DEF TargetType
    <3> QED BY <2>1, <3>1, FreeTypes
  <2> QED BY <2>1, <2>2, <2>3, FreeTypes
<1>4. CASE ~ tgt[j].hashed /\ \A a \in Missing(new) : make[a] # j
  <2>1. T2[j] = tgt[j]
    BY <1>4, OtherTarget, SMT
  <2> QED BY <1>1, <1>4, <2>1
<1> QED
  BY <1>2, <1>3, <1>4

(* do_reload_config keeps the invariant and opens nothing.                 *)
LEMMA ReloadStep ==
  ASSUME TargetInv, NEW new \in [Addrs -> 0..MaxEntries], NEW lim \in Limits, do_reload_config(new, lim)
  PROVE  TargetInv' /\ \A j \in Jobs : tgt'[j].outbound = tgt[j].outbound
<1>1. PICK make \in [Missing(new) -> FreeJobs] :
        LET T1 == create_targets(new, lim, make)
            T2 == destroy_targets(T1, conf)
            revived == Unused(tgt) \ Unused(T1)
            dropped == Unused(T2) \ Unused(T1)
        IN  /\ \A a, b \in Missing(new) : make[a] = make[b] => a = b
            /\ tgt' = T2
            /\ stat' = [stat EXCEPT !.active = @ + Cardinality(Missing(new)) + Cardinality(revived)
                                                 - Cardinality(dropped),
                                    !.inactive = @ - Cardinality(revived) + Cardinality(dropped)]
            /\ conf' = new /\ UNCHANGED <<epoll, con>>
  BY DEF do_reload_config, Missing
<1> DEFINE T1 == create_targets(new, lim, make)
           revived == Unused(tgt) \ Unused(T1)
           dropped == Unused(tgt') \ Unused(T1)
           nr == Cardinality(revived)
           nd == Cardinality(dropped)
           nm == Cardinality(Missing(new))
<1>2. /\ tgt' = destroy_targets(T1, conf) /\ conf' = new /\ UNCHANGED <<epoll, con>>
      /\ \A a, b \in Missing(new) : make[a] = make[b] => a = b
      /\ stat' = [stat EXCEPT !.active = @ + nm + nr - nd, !.inactive = @ - nr + nd]
  BY <1>1
<1>3. new \in [Addrs -> Nat]
  <2>1. 0..MaxEntries \subseteq Nat
    BY SMT
  <2> QED BY <2>1
<1>4. Reload(new, lim, make, T1, tgt')
  BY <1>2, <1>3 DEF Reload
<1>5. \A j \in Jobs :
         /\ tgt'[j] \in TargetType
         /\ tgt'[j].tree = tgt[j].tree /\ tgt'[j].outbound = tgt[j].outbound
         /\ tgt'[j].active = tgt[j].active /\ tgt'[j].ready = tgt[j].ready
         /\ tgt'[j].completed = tgt[j].completed
         /\ tgt[j].hashed => tgt'[j].hashed /\ tgt'[j].addr = tgt[j].addr
         /\ tgt'[j].hashed => /\ tgt'[j].addr \in Addrs /\ ~ tgt'[j].completed
                              /\ tgt'[j].global_refcnt = new[tgt'[j].addr]
         /\ ~ tgt'[j].hashed => tgt'[j] = tgt[j]
  BY <1>4, ReloadEach, SMT
<1>6. /\ Cardinality(Unused(tgt')) = Cardinality(Unused(tgt)) - nr + nd
      /\ Cardinality({j \in Jobs : tgt'[j].hashed}) = Cardinality(Hashed) + nm
      /\ nm \in Nat
  <2> HIDE DEF T1
  <2> QED BY <1>4, ReloadCounts
<1>7. /\ nr \in Nat /\ nd \in Nat /\ Cardinality(Unused(tgt)) \in Nat /\ Cardinality(Hashed) \in Nat
  <2>1. revived \in SUBSET Jobs /\ dropped \in SUBSET Jobs /\ Unused(tgt) \in SUBSET Jobs
        /\ Hashed \in SUBSET Jobs /\ {j \in Jobs : tgt'[j].hashed} \in SUBSET Jobs
    BY DEF Unused, Hashed
  <2> QED BY <2>1, FiniteSets
<1>8. TargetTypeOK'
  <2>1. stat \in [active : Int, inactive : Int, ready_targets : Int, ready : Int]
    BY DEF TargetInv, TargetTypeOK
  <2> HIDE DEF nr, nd, nm
  <2>2. stat.active + nm + nr - nd \in Int /\ stat.inactive - nr + nd \in Int
    BY <1>6, <1>7, <2>1, SMT
  <2>3. stat' \in [active : Int, inactive : Int, ready_targets : Int, ready : Int]
    BY <1>2, <2>1, <2>2
  <2>4. tgt' \in [Jobs -> TargetType]
    <3>1. tgt' = [j \in Jobs |-> tgt'[j]]
      BY <1>2 DEF destroy_targets
    <3> QED BY <1>5, <3>1
  <2> QED BY <1>2, <1>3, <2>3, <2>4 DEF TargetInv, TargetTypeOK
<1>9. StatsRight'
  <2>1. /\ stat \in [active : Int, inactive : Int, ready_targets : Int, ready : Int]
        /\ stat.inactive = Cardinality(Unused(tgt)) /\ stat.active = Cardinality(Hashed) - stat.inactive
        /\ stat.ready_targets = Cardinality(Readied)
    BY DEF TargetInv, TargetTypeOK, StatsRight
  <2>2. Hashed' = {j \in Jobs : tgt'[j].hashed} /\ Readied' = Readied
    BY <1>5 DEF Hashed, Readied
  <2> HIDE DEF nr, nd, nm
  <2>3. /\ stat'.active = stat.active + nm + nr - nd /\ stat'.inactive = stat.inactive - nr + nd
        /\ stat'.ready_targets = stat.ready_targets
    BY <1>2, <2>1
  <2>4. stat'.inactive = Cardinality(Unused(tgt'))
    BY <1>6, <2>1, <2>3
  <2>5. stat'.active = Cardinality({j \in Jobs : tgt'[j].hashed}) - stat'.inactive
    BY <1>6, <1>7, <2>1, <2>3, SMT
  <2> QED BY <2>1, <2>2, <2>3, <2>4, <2>5 DEF StatsRight
<1>10. Named'
  <2> SUFFICES ASSUME NEW a \in Addrs, new[a] > 0
               PROVE  \E j \in Jobs : tgt'[j].hashed /\ tgt'[j].addr = a
    BY <1>2 DEF Named
  <2>1. CASE a \in Missing(new)
    <3>1. /\ make[a] \in Jobs /\ T1[make[a]] = tgt'[make[a]] /\ T1[make[a]].hashed
          /\ T1[make[a]].addr = a
      BY <1>4, <2>1, MadeTarget, SMT
    <3> HIDE DEF T1
    <3> QED BY <3>1
  <2>2. CASE a \notin Missing(new)
    <3>1. PICK j \in Jobs : tgt[j].hashed /\ tgt[j].addr = a
      BY <2>2 DEF Missing, InHash
    <3> QED BY <1>5, <3>1
  <2> QED BY <2>1, <2>2
<1>11. \A j \in Jobs : Held(j)' /\ Counts(j)'
  <2> SUFFICES ASSUME NEW j \in Jobs PROVE Held(j)' /\ Counts(j)'
    OBVIOUS
  <2>1. Held(j) /\ Counts(j)
    BY DEF TargetInv
  <2>2. Counts(j)'
    BY <1>2, <1>5, <2>1, CountsStay DEF connection_is_active
  <2>3. Held(j)'
    BY <1>2, <1>5, <2>1 DEF Held
  <2> QED BY <2>2, <2>3
<1>12. \A c \in Conns : Linked(c)'
  <2> SUFFICES ASSUME NEW c \in Conns PROVE Linked(c)'
    OBVIOUS
  <2>1. Linked(c) /\ con'[c] = con[c]
    BY <1>2 DEF TargetInv
  <2>2. \A j \in Jobs : tgt[j].hashed \/ tgt[j].completed => tgt'[j].hashed \/ tgt'[j].completed
    BY <1>5
  <2>3. con[c].status # "none" /\ ~ con[c].error => con[c].target \in Jobs
    BY <2>1 DEF Linked
  <2>4. con'[c].target \in Jobs => tgt'[con'[c].target].hashed \/ tgt'[con'[c].target].completed
    BY <2>1, <2>2 DEF Linked
  <2>5. con'[c].status # "none" /\ ~ con'[c].error =>
          tgt'[con'[c].target].hashed /\ c \in tgt'[con'[c].target].tree
    BY <1>5, <2>1, <2>3 DEF Linked
  <2>6. \A j \in Jobs : c \in tgt'[j].tree =>
          con'[c].status # "none" /\ (con'[c].error \/ con'[c].target = j)
    BY <1>5, <2>1 DEF Linked
  <2> QED BY <2>1, <2>4, <2>5, <2>6 DEF Linked
<1> QED
  BY <1>5, <1>8, <1>9, <1>10, <1>11, <1>12 DEF TargetInv
-----------------------------------------------------------------------------
(* The program starts without targets.                                     *)
LEMMA TargetStart == TargetInit => TargetInv
<1> SUFFICES ASSUME TargetInit PROVE TargetInv
  OBVIOUS
<1>1. /\ epoll = FALSE /\ conf = [a \in Addrs |-> 0] /\ tgt = [j \in Jobs |-> FreeTarget]
      /\ con = [c \in Conns |-> FreeConn]
      /\ stat = [active |-> 0, inactive |-> 0, ready_targets |-> 0, ready |-> 0]
  BY DEF TargetInit
<1>2. 0 \in Nat /\ 0 \in Int /\ ~ (0 > 0) /\ 0 = 0 - 0
  BY SMT
<1>3. TargetTypeOK
  <2>1. tgt \in [Jobs -> TargetType] /\ con \in [Conns -> ConnType]
    BY <1>1, FreeTypes
  <2> QED BY <1>1, <1>2, <2>1 DEF TargetTypeOK
<1>4. Named
  BY <1>1, <1>2 DEF Named
<1>5. Unused(tgt) = {} /\ Hashed = {} /\ Readied = {}
  BY <1>1, <1>2, FreeTypes DEF Unused, Hashed, Readied
<1>6. StatsRight
  BY <1>1, <1>2, <1>5, FS_EmptySet DEF StatsRight
<1>7. \A j \in Jobs : Held(j) /\ Counts(j)
  <2> SUFFICES ASSUME NEW j \in Jobs PROVE Held(j) /\ Counts(j)
    OBVIOUS
  <2>1. tgt[j] = FreeTarget /\ {c \in tgt[j].tree : connection_is_active(c)} = {}
    BY <1>1, FreeTypes
  <2> QED BY <2>1, FreeTypes, FS_EmptySet DEF Held, Counts
<1>8. \A c \in Conns : Linked(c)
  <2> SUFFICES ASSUME NEW c \in Conns PROVE Linked(c)
    OBVIOUS
  <2>1. con[c] = FreeConn /\ \A j \in Jobs : tgt[j].tree = {}
    BY <1>1, FreeTypes
  <2> QED BY <2>1, FreeTypes, NoneIsNoJob DEF Linked
<1> QED
  BY <1>3, <1>4, <1>6, <1>7, <1>8 DEF TargetInv

(* The condition OpensWithinLimit puts on a step.                          *)
Opens == \A j \in Jobs : tgt'[j].outbound > tgt[j].outbound =>
           tgt[j].global_refcnt > 0 /\ tgt'[j].outbound <= tgt[j].lim.max

(* No action but the target's job opens a connection.                      *)
LEMMA StaysClosed ==
  ASSUME TargetInv, \A j \in Jobs : tgt'[j].outbound = tgt[j].outbound
  PROVE  Opens
<1>1. \A j \in Jobs : tgt[j].outbound \in Nat
  BY DEF TargetInv, TargetTypeOK, TargetType
<1>2. \A n \in Nat : ~ (n > n)
  BY SMT
<1> QED
  BY <1>1, <1>2 DEF Opens

(* Every action keeps the invariant and opens within the limit.            *)
LEMMA StepsKeep ==
  ASSUME TargetInv, TargetNext
  PROVE  TargetInv' /\ Opens
<1>1. CASE init_epoll
  <2>1. tgt' = tgt
    BY <1>1 DEF init_epoll
  <2> QED BY <1>1, <2>1, EpollStep, StaysClosed
<1>2. ASSUME NEW new \in [Addrs -> 0..MaxEntries], NEW lim \in Limits, do_reload_config(new, lim)
      PROVE  TargetInv' /\ Opens
  BY <1>2, ReloadStep, StaysClosed
<1>3. ASSUME NEW j \in Jobs, do_conn_target_job(j)
      PROVE  TargetInv' /\ Opens
  BY <1>3, JobStep DEF Opens
<1>4. ASSUME NEW j \in Jobs, FinishTarget(j)
      PROVE  TargetInv' /\ Opens
  <2>1. tgt[j].outbound = 0
    <3>1. ~ tgt[j].hashed
      BY <1>4 DEF FinishTarget, TargetInv, Held
    <3>2. tgt[j].tree = {} /\ tgt[j].outbound = Cardinality(tgt[j].tree)
      BY <3>1 DEF TargetInv, Held, Counts
    <3> QED BY <3>2, FS_EmptySet
  <2>2. \A k \in Jobs : tgt'[k].outbound = tgt[k].outbound
    BY <1>4, <2>1, FreeTypes DEF FinishTarget, TargetInv, TargetTypeOK
  <2> QED BY <1>4, <2>2, FinishStep, StaysClosed
<1>5. ASSUME NEW j \in Jobs, ReconnectDue(j)
      PROVE  TargetInv' /\ Opens
  <2>1. tgt \in [Jobs -> TargetType]
    BY DEF TargetInv, TargetTypeOK
  <2>2. \A k \in Jobs : tgt'[k].outbound = tgt[k].outbound
    BY <1>5, <2>1 DEF ReconnectDue, TargetType
  <2> QED BY <1>5, <2>2, DueStep, StaysClosed
<1>6. ASSUME NEW c \in Conns, socket_connected(c) \/ HandshakeDone(c) \/ fail_connection(c)
      PROVE  TargetInv' /\ Opens
  <2>1. tgt' = tgt
    BY <1>6 DEF socket_connected, HandshakeDone, fail_connection
  <2> QED BY <1>6, <2>1, MoveStep, StaysClosed
<1>7. ASSUME NEW c \in Conns, ConnectionReady(c)
      PROVE  TargetInv' /\ Opens
  <2>1. tgt \in [Jobs -> TargetType] /\ tgt' = [tgt EXCEPT ![con[c].target].active = @ + 1]
    BY <1>7 DEF ConnectionReady, TargetInv, TargetTypeOK
  <2>2. \A k \in Jobs : tgt'[k].outbound = tgt[k].outbound
    BY <2>1 DEF TargetType
  <2> QED BY <1>7, <2>2, ReadyStep, StaysClosed
<1>8. ASSUME NEW c \in Conns, cpu_server_close_connection(c)
      PROVE  TargetInv' /\ Opens
  <2>1. tgt \in [Jobs -> TargetType] /\ tgt' = [tgt EXCEPT ![con[c].target].run = TRUE]
    BY <1>8 DEF cpu_server_close_connection, TargetInv, TargetTypeOK
  <2>2. \A k \in Jobs : tgt'[k].outbound = tgt[k].outbound
    BY <2>1 DEF TargetType
  <2> QED BY <1>8, <2>2, CloseStep, StaysClosed
<1>9. ASSUME NEW c \in Conns, cpu_server_free_connection(c)
      PROVE  TargetInv' /\ Opens
  <2>1. tgt' = tgt
    BY <1>9 DEF cpu_server_free_connection
  <2> QED BY <1>9, <2>1, FreeStep, StaysClosed
<1> QED
  BY <1>1, <1>2, <1>3, <1>4, <1>5, <1>6, <1>7, <1>8, <1>9 DEF TargetNext

(* So does a step of the rest of the program.                              *)
LEMMA TargetStay ==
  ASSUME TargetInv, UNCHANGED targetVars
  PROVE  TargetInv'
<1>1. tgt' = tgt /\ UNCHANGED <<conf, con, stat>> /\ epoll' = epoll
  BY DEF targetVars
<1>2. tgt' \in [Jobs -> TargetType] /\ epoll' \in BOOLEAN
  BY <1>1 DEF TargetInv, TargetTypeOK
<1> QED
  BY <1>1, <1>2, MarkStep DEF Like

(* The invariant is inductive.                                             *)
LEMMA TargetKept == TargetInv /\ [TargetNext]_targetVars => TargetInv' /\ [Opens]_targetVars
BY StepsKeep, TargetStay

(* In every state, for any number of targets, connections and entries, the *)
(* counters of a target agree with its tree, the statistics of the         *)
(* connections module agree with the targets, and a connection that has    *)
(* not failed is in the tree of a target in the table, in whatever order   *)
(* the connects, the failures, the close handlers, the reloads and the     *)
(* target's job come (do_conn_target_job, do_connection_job,               *)
(* cpu_server_close_connection, create_target, destroy_target).            *)
THEOREM ConnectionsAlwaysCounted == TargetSpec => [](TargetTypeOK /\ ConnectionsCounted)
<1>1. TargetInv => TargetTypeOK /\ ConnectionsCounted
  BY DEF TargetInv, StatsRight, Counts, Linked, Hashed, Readied, ConnectionsCounted
<1> QED
  BY <1>1, TargetStart, TargetKept, PTL DEF TargetSpec

(* A step opens connections only to a target that the configuration uses   *)
(* and never beyond its max_connections, whatever reloads have lowered it  *)
(* and however many of its connections have failed (do_conn_target_job,    *)
(* create_new_connections).                                                *)
THEOREM OpensAlwaysWithinLimit == TargetSpec => OpensWithinLimit
BY TargetStart, TargetKept, PTL DEF TargetSpec, OpensWithinLimit, Opens
=============================================================================
