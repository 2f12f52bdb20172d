------------------------- MODULE SecretSlotsProofs -------------------------
(* Proofs about SecretSlots, for every value of its constants.             *)
EXTENDS SecretSlots, FiniteSetTheorems, TLAPS

\* Min of a nonempty set of naturals is its least element.
LEMMA MinProps ==
  ASSUME NEW S \in SUBSET Nat, S # {}
  PROVE  Min(S) \in S /\ \A y \in S : Min(S) <= y
<1>1. \E x \in S : \A y \in S : ~ (<<y, x>> \in OpToRel(<, Nat))
  BY NatLessThanWellFounded, WFMin, ZenonT(60)
<1>2. \A x, y \in Nat : ~ (<<y, x>> \in OpToRel(<, Nat)) => x <= y
  BY DEF OpToRel
<1>3. \E x \in S : \A y \in S : x <= y
  BY <1>1, <1>2, ZenonT(60)
<1> QED
  BY <1>3, ZenonT(60) DEF Min

\* Max of a nonempty set of naturals with an upper bound is an element of it
\* that bounds it.
LEMMA MaxProps ==
  ASSUME NEW n \in Nat, NEW S \in SUBSET (0 .. n), S # {}
  PROVE  Max(S) \in S /\ \A y \in S : Max(S) >= y
<1> DEFINE T == {n - x : x \in S}
<1>0. \A x \in S : n - x \in Nat
  OBVIOUS
<1>1. T \in SUBSET Nat /\ T # {}
  <2>1. T \subseteq Nat
    BY <1>0
  <2>2. PICK x \in S : TRUE
    BY ZenonT(60)
  <2>3. n - x \in T
    OBVIOUS
  <2> QED
    BY <2>1, <2>3
<1>2. PICK m \in S : Min(T) = n - m
  BY <1>1, MinProps, ZenonT(60)
<1>3. \A y \in S : n - m <= n - y
  BY <1>1, <1>2, MinProps
<1>4. \A y \in S : m >= y
  BY <1>3
<1> QED
  BY <1>4, ZenonT(60) DEF Max

-----------------------------------------------------------------------------
(* What the reload and the sweeper compute                                 *)

\* A nonempty set of slots has its least element in it.
LEMMA MinSlot ==
  ASSUME NEW S \in SUBSET Slots, S # {}
  PROVE  Min(S) \in S
BY SlotAssumption, MinProps DEF Slots

\* The entry that gives a placed slot its metadata is an entry of the file.
LEMMA EntryTyped ==
  ASSUME NEW cfg \in Configs, NEW s \in Placed(cfg)
  PROVE  EntryOf(cfg, s) \in Entries
<1>1. cfg \in Seq(Entries) /\ Len(cfg) \in Nat /\ DOMAIN cfg = 1 .. Len(cfg)
  BY SlotAssumption
<1>2. \A i \in DOMAIN cfg : cfg[i] \in Entries
  BY <1>1
<1>3. CASE s \in Filled(cfg)
  <2>1. Takers(cfg, s) \in SUBSET (DOMAIN cfg) /\ Takers(cfg, s) # {}
    BY <1>3 DEF Filled, Takers, Unplaced
  <2>2. Min(Takers(cfg, s)) \in DOMAIN cfg
    <3>1. DOMAIN cfg \subseteq Nat
      BY <1>1
    <3> QED
      BY <2>1, <3>1, MinProps
  <2> QED
    BY <1>2, <1>3, <2>2 DEF EntryOf
<1>4. CASE s \notin Filled(cfg)
  <2>1. Refreshing(cfg, s) \in SUBSET (DOMAIN cfg) /\ Refreshing(cfg, s) # {}
    BY <1>4 DEF Placed, Refreshing
  <2>2. Refreshing(cfg, s) \in SUBSET (0 .. Len(cfg))
    BY <1>1, <2>1
  <2>3. Max(Refreshing(cfg, s)) \in DOMAIN cfg
    BY <1>1, <2>1, <2>2, MaxProps, ZenonT(60)
  <2> QED
    BY <1>2, <1>4, <2>3 DEF EntryOf
<1> QED
  BY <1>3, <1>4

\* The high-water mark is a slot count that covers the pinned slots.
LEMMA HighWaterTyped ==
  ASSUME NEW st
  PROVE  HighWater(st) \in Pinned .. MaxSlots
<1> DEFINE W == {Pinned} \cup {s + 1 : s \in {t \in Loaded : st[t] # "FREE"}}
<1>1. W \in SUBSET (0 .. MaxSlots) /\ W # {}
  BY SlotAssumption DEF Loaded
<1>2. \A w \in W : w \in Pinned .. MaxSlots
  BY SlotAssumption DEF Loaded
<1>3. Max(W) \in W
  BY <1>1, SlotAssumption, MaxProps, ZenonT(60)
<1> QED
  BY <1>2, <1>3 DEF HighWater

-----------------------------------------------------------------------------
(* Types and the pinned slots                                              *)

\* The initial state is well typed and serves the pinned slots.
LEMMA InitTyped == Init => TypeOK /\ PinnedServed
<1> SUFFICES ASSUME Init PROVE TypeOK /\ PinnedServed
  OBVIOUS
<1>1. Pinned \in Nat /\ MaxSlots \in Nat /\ Pinned <= MaxSlots
  BY SlotAssumption
<1>2. TypeOK
  BY <1>1, SlotAssumption DEF Init, TypeOK, Idle, Phases, Slots
<1>3. PinnedServed
  BY <1>1 DEF Init, PinnedServed, Slots
<1> QED
  BY <1>2, <1>3

\* A reload keeps the types and the pinned slots.
LEMMA ReloadTyped ==
  ASSUME TypeOK, PinnedServed, NEW cfg \in Configs, NEW to \in Timeouts, Reload(cfg, to)
  PROVE  TypeOK' /\ PinnedServed'
<1>1. Filled(cfg) \subseteq Loaded /\ Placed(cfg) \subseteq Loaded /\ Loaded \subseteq Slots
  BY SlotAssumption DEF Filled, Placed, FreeSlots, Loaded, Slots
<1>2. \A s \in Placed(cfg) : /\ EntryOf(cfg, s).key \in Keys
                             /\ EntryOf(cfg, s).limit \in Nat
                             /\ EntryOf(cfg, s).ttl \in Nat \cup {Never}
  BY EntryTyped DEF Entries
<1>3. Filled(cfg) \subseteq Placed(cfg)
  BY DEF Placed
<1>4. cnt' \in 0 .. MaxSlots /\ cnt' >= Pinned
  BY HighWaterTyped, SlotAssumption DEF Reload, TypeOK, PinnedServed
<1>5. state' \in [Slots -> {"FREE", "ACTIVE", "DRAINING"}]
  BY DEF Reload, NewState, TypeOK
<1>6. /\ key' \in [Slots -> Keys \cup {NoKey}]
      /\ limit' \in [Slots -> Nat]
      /\ ttl' \in [Slots -> Nat \cup {Never}]
  BY <1>2, <1>3 DEF Reload, TypeOK
<1>7. age' \in [Slots -> 0 .. MaxAge] /\ conns' \in [Slots -> Int]
  BY SlotAssumption DEF Reload, TypeOK
<1>8. \A p \in Slots : p < Pinned => p \notin Loaded
  BY SlotAssumption DEF Loaded, Slots
<1>9. \A p \in Slots : p < Pinned => state'[p] = state[p] /\ key'[p] = key[p]
  BY <1>1, <1>8 DEF Reload, NewState
<1> QED
  BY <1>4, <1>5, <1>6, <1>7, <1>9 DEF TypeOK, PinnedServed, Reload

\* A sweep keeps the types and the pinned slots.
LEMMA SweepTyped ==
  ASSUME TypeOK, PinnedServed, DrainSweep
  PROVE  TypeOK' /\ PinnedServed'
<1>1. cnt' \in 0 .. MaxSlots /\ cnt' >= Pinned
  BY HighWaterTyped, SlotAssumption DEF DrainSweep, TypeOK, PinnedServed
<1>2. \A p \in Slots : p < Pinned => state'[p] = state[p] /\ key'[p] = key[p]
  BY SlotAssumption DEF DrainSweep, Released, Draining, Loaded, Slots
<1>3. conn' \in [Conns -> [phase : Phases, key : Keys \cup {NoKey}, sid : 0 .. MaxSlots]]
  BY DEF DrainSweep, TypeOK, Phases
<1>4. /\ state' \in [Slots -> {"FREE", "ACTIVE", "DRAINING"}]
      /\ key' \in [Slots -> Keys \cup {NoKey}]
      /\ limit' \in [Slots -> Nat]
      /\ ttl' \in [Slots -> Nat \cup {Never}]
      /\ age' \in [Slots -> 0 .. MaxAge]
  BY SlotAssumption DEF DrainSweep, TypeOK
<1> QED
  BY <1>1, <1>2, <1>3, <1>4 DEF TypeOK, PinnedServed, DrainSweep

\* A client's step, a close or a second passing keeps the types.
LEMMA ClientTyped ==
  ASSUME TypeOK, NEW c \in Conns,
         ClientStep(c) \/ CloseConnection(c) \/ mtproto_ext_rpc_close(c)
  PROVE  TypeOK' /\ UNCHANGED slotVars
<1> DEFINE ConnType == [phase : Phases, key : Keys \cup {NoKey}, sid : 0 .. MaxSlots]
<1>0. \A s \in Slots : s \in Int /\ s + 1 \in 0 .. MaxSlots
  BY SlotAssumption DEF Slots
<1>1. CASE Accept(c) \/ Fail(c) \/ CloseConnection(c) \/ ProxyConnection(c)
  <2>1. Idle \in ConnType
    BY SlotAssumption DEF Idle, Phases
  <2>2. conn' \in [Conns -> ConnType]
    BY <1>1, <2>1 DEF Accept, Fail, CloseConnection, ProxyConnection, TypeOK, Phases
  <2>3. UNCHANGED <<slotVars, conns>>
    BY <1>1 DEF Accept, Fail, CloseConnection, ProxyConnection
  <2> QED
    BY <2>2, <2>3 DEF TypeOK, slotVars
<1>2. ASSUME NEW k \in Keys, ClientHello(c, k) PROVE TypeOK' /\ UNCHANGED slotVars
  <2>1. conn' \in [Conns -> ConnType]
    <3>1. conn \in [Conns -> ConnType] /\ "tls" \in Phases
      BY DEF TypeOK, Phases
    <3>2. conn' = [conn EXCEPT ![c] = [@ EXCEPT !.phase = "tls", !.key = k]]
      BY <1>2, <3>1, ZenonT(60) DEF ClientHello
    <3>3. [conn[c] EXCEPT !.phase = "tls", !.key = k] \in ConnType
      BY <1>2, <3>1, ZenonT(60)
    <3> HIDE DEF ConnType
    <3> QED
      BY <3>1, <3>2, <3>3
  <2>2. UNCHANGED <<slotVars, conns>>
    BY <1>2 DEF ClientHello
  <2> QED
    BY <2>1, <2>2 DEF TypeOK, slotVars
<1>3. ASSUME NEW k \in Keys, Obfs2Header(c, k) PROVE TypeOK' /\ UNCHANGED slotVars
  <2>1. Matches(k) # {} => Min(Matches(k)) \in Slots
    BY MinSlot DEF Matches, Visible
  <2>2. conn' \in [Conns -> ConnType] /\ conns' \in [Slots -> Int]
    BY <1>0, <1>3, <2>1 DEF Obfs2Header, TypeOK, Phases
  <2> QED
    BY <1>3, <2>2 DEF Obfs2Header, TypeOK, slotVars
<1>4. CASE Obfs2NoSecret(c)
  <2>1. conn' \in [Conns -> ConnType] /\ conns' \in [Slots -> Int]
    BY <1>0, <1>4 DEF Obfs2NoSecret, TypeOK, Phases
  <2> QED
    BY <1>4, <2>1 DEF Obfs2NoSecret, TypeOK, slotVars
<1>5. CASE mtproto_ext_rpc_close(c)
  <2>1. conn' \in [Conns -> ConnType] /\ conns' \in [Slots -> Int]
    BY <1>5, SlotAssumption DEF mtproto_ext_rpc_close, TypeOK, Phases, Idle
  <2> QED
    BY <1>5, <2>1 DEF mtproto_ext_rpc_close, TypeOK, slotVars
<1> QED
  BY <1>1, <1>2, <1>3, <1>4, <1>5 DEF ClientStep, Obfs2

\* A second passing keeps the types.
LEMMA TickTyped ==
  ASSUME TypeOK, Tick
  PROVE  TypeOK'
<1>1. age' \in [Slots -> 0 .. MaxAge]
  BY SlotAssumption DEF Tick, TypeOK
<1>2. ttl' \in [Slots -> Nat \cup {Never}]
  <2>1. ASSUME NEW s \in Slots
        PROVE  (IF ttl[s] \in Nat \ {0} THEN ttl[s] - 1 ELSE ttl[s]) \in Nat \cup {Never}
    <3>1. ttl[s] \in Nat \cup {Never}
      BY DEF TypeOK
    <3>2. CASE ttl[s] \in Nat \ {0}
      <4>1. ttl[s] - 1 \in Nat
        BY <3>2
      <4> QED
        BY <4>1, <3>2
    <3> QED
      BY <3>1, <3>2
  <2>2. ttl' = [s \in Slots |-> IF ttl[s] \in Nat \ {0} THEN ttl[s] - 1 ELSE ttl[s]]
    BY DEF Tick
  <2> QED
    BY <2>1, <2>2
<1> QED
  BY <1>1, <1>2 DEF Tick, TypeOK

\* Every step keeps the types and the pinned slots.
LEMMA NextTyped == TypeOK /\ PinnedServed /\ [Next]_vars => TypeOK' /\ PinnedServed'
<1> SUFFICES ASSUME TypeOK, PinnedServed, [Next]_vars PROVE TypeOK' /\ PinnedServed'
  OBVIOUS
<1>1. ASSUME NEW c \in Conns, ClientStep(c) \/ CloseConnection(c) \/ mtproto_ext_rpc_close(c)
      PROVE  TypeOK' /\ PinnedServed'
  BY <1>1, ClientTyped DEF PinnedServed, slotVars
<1>2. CASE Tick
  BY <1>2, TickTyped DEF Tick, PinnedServed
<1>3. CASE UNCHANGED vars
  BY <1>3 DEF vars, TypeOK, PinnedServed
<1> QED
  BY <1>1, <1>2, <1>3, ReloadTyped, SweepTyped DEF Next

\* TypeOK and PinnedServed hold in every state: whatever SIGHUP brings, the
\* -S secrets stay active, keep their key and stay visible to handshakes.
THEOREM PinnedAlwaysServed == Spec => [](TypeOK /\ PinnedServed)
BY InitTyped, NextTyped, PTL DEF Spec

-----------------------------------------------------------------------------
(* Connection accounting                                                   *)

\* Connections that have not been counted name no slot.
Uncounted == \A c \in Conns : conn[c].phase \in {"idle", "new", "tls", "skip"} => conn[c].sid = 0

Inv == TypeOK /\ Uncounted /\ SlotKeepsSecret /\ ConnAccounting

\* Holders are finite sets of connections.
LEMMA HoldersFinite == \A s : IsFiniteSet(Holders(s)) /\ Cardinality(Holders(s)) \in Nat
BY SlotAssumption, FS_Subset, FS_CardinalityType DEF Holders

\* A slot without counted connections has no holder, one with a holder is
\* counted.
LEMMA EmptySlot ==
  ASSUME Inv, NEW s \in Slots
  PROVE  conns[s] = 0 <=> Holders(s) = {}
BY HoldersFinite, FS_EmptySet DEF Inv, ConnAccounting

\* A step that changes neither extra_int2 nor a counter, and does not touch the
\* slots, keeps the invariant.
LEMMA SameSids ==
  ASSUME Inv, TypeOK', Uncounted', UNCHANGED <<state, key, conns>>,
         \A c \in Conns : /\ conn'[c].sid = conn[c].sid
                          /\ conn[c].sid # 0 => conn'[c].key = conn[c].key
  PROVE  Inv'
<1>1. \A s \in Slots : Holders(s)' = Holders(s)
  BY DEF Holders
<1>2. ConnAccounting'
  BY <1>1 DEF Inv, ConnAccounting
<1>3. \A s \in Slots : s + 1 # 0
  BY SlotAssumption DEF Slots
<1>4. SlotKeepsSecret'
  BY <1>3 DEF Inv, SlotKeepsSecret
<1> QED
  BY <1>2, <1>4 DEF Inv

\* Accepting, proxying, failing, closing and the TLS handshake.
LEMMA UncountedStep ==
  ASSUME Inv, NEW c \in Conns,
         \/ Accept(c) \/ ProxyConnection(c) \/ Fail(c) \/ CloseConnection(c)
         \/ \E k \in Keys : ClientHello(c, k)
  PROVE  Inv'
<1>1. TypeOK' /\ UNCHANGED slotVars
  BY ClientTyped DEF Inv, ClientStep
<1>2. UNCHANGED conns /\ \A d \in Conns : d # c => conn'[d] = conn[d]
  BY DEF Inv, TypeOK, Accept, ProxyConnection, Fail, CloseConnection, ClientHello
<1>3. conn'[c].sid = conn[c].sid /\ (conn[c].sid # 0 => conn'[c].key = conn[c].key)
  BY DEF Inv, TypeOK, Uncounted, Accept, ProxyConnection, Fail, CloseConnection, ClientHello, Idle
<1>4. conn'[c].phase \in {"idle", "new", "tls", "skip"} => conn'[c].sid = 0
  BY DEF Inv, TypeOK, Uncounted, Accept, ProxyConnection, Fail, CloseConnection, ClientHello, Idle
<1>5. Uncounted'
  BY <1>2, <1>4 DEF Inv, Uncounted
<1> QED
  BY <1>1, <1>2, <1>3, <1>5, SameSids DEF slotVars

\* An obfuscated2 header adds its connection to the holders of the slot it
\* matched, and one to the slot's counter.
LEMMA HeaderStep ==
  ASSUME Inv, NEW c \in Conns, NEW k \in Keys,
         conn[c].phase \in {"new", "tls"}, Obfs2Header(c, k)
  PROVE  Inv'
<1> DEFINE m == Min(Matches(k))
<1>1. TypeOK' /\ UNCHANGED slotVars
  BY ClientTyped DEF Inv, ClientStep, Obfs2
<1>2. conn[c].sid = 0
  BY DEF Inv, Uncounted
<1>3. CASE UNCHANGED conns /\ \E ph \in {"skip", "err"} : conn' = [conn EXCEPT ![c].phase = ph]
  <2>1. Uncounted'
    BY <1>2, <1>3 DEF Inv, TypeOK, Uncounted
  <2>2. \A d \in Conns : conn'[d].sid = conn[d].sid /\ conn'[d].key = conn[d].key
    BY <1>3 DEF Inv, TypeOK
  <2> QED
    BY <1>1, <1>3, <2>1, <2>2, SameSids DEF slotVars
<1>4. CASE /\ Matches(k) # {}
           /\ conn' = [conn EXCEPT ![c] = [phase |-> "open", key |-> k, sid |-> m + 1]]
           /\ conns' = [conns EXCEPT ![m] = @ + 1]
  <2>1. PICK r \in Slots : r = m /\ state[r] # "FREE" /\ key[r] = k
    BY <1>4, MinSlot, ZenonT(60) DEF Matches, Visible
  <2>2. \A d \in Conns : conn'[d].sid = IF d = c THEN r + 1 ELSE conn[d].sid
    BY <1>4, <2>1 DEF Inv, TypeOK
  <2>3. \A s \in Slots : s + 1 # 0 /\ (s + 1 = r + 1 <=> s = r)
    BY SlotAssumption DEF Slots
  <2>4. Holders(r)' = Holders(r) \cup {c} /\ c \notin Holders(r)
    BY <1>2, <2>2, <2>3 DEF Holders
  <2>5. \A s \in Slots : s # r => Holders(s)' = Holders(s)
    BY <1>2, <2>2, <2>3 DEF Holders
  <2>6. Cardinality(Holders(r)') = Cardinality(Holders(r)) + 1
    BY <2>4, HoldersFinite, FS_AddElement, ZenonT(60)
  <2>7. conns' = [conns EXCEPT ![r] = @ + 1]
    BY <1>4, <2>1
  <2>8. ConnAccounting'
    BY <2>5, <2>6, <2>7 DEF Inv, TypeOK, ConnAccounting
  <2>9. SlotKeepsSecret'
    BY <1>1, <1>4, <2>1, <2>3 DEF Inv, TypeOK, SlotKeepsSecret, slotVars
  <2>10. Uncounted'
    BY <1>4 DEF Inv, TypeOK, Uncounted
  <2> QED
    BY <1>1, <2>8, <2>9, <2>10 DEF Inv
<1> QED
  BY <1>3, <1>4 DEF Obfs2Header

\* The close notification removes its connection from the holders of its slot
\* and one from the slot's counter.
LEMMA RpcCloseStep ==
  ASSUME Inv, NEW c \in Conns, mtproto_ext_rpc_close(c)
  PROVE  Inv'
<1>1. TypeOK' /\ UNCHANGED slotVars
  BY ClientTyped DEF Inv
<1>2. conn'[c] = Idle /\ \A d \in Conns : d # c => conn'[d] = conn[d]
  BY DEF Inv, TypeOK, mtproto_ext_rpc_close
<1>3. \A s \in Slots : s \in Int /\ s + 1 # 0
  BY SlotAssumption DEF Slots
<1>4. \A s \in Slots : Holders(s)' = Holders(s) \ {c}
  BY <1>2, <1>3 DEF Holders, Idle
<1>5. ASSUME NEW s \in Slots
      PROVE  conns'[s] = Cardinality(Holders(s)')
  <2>1. Cardinality(Holders(s)') = IF c \in Holders(s) THEN Cardinality(Holders(s)) - 1
                                                    ELSE Cardinality(Holders(s))
    BY <1>4, HoldersFinite, FS_RemoveElement
  <2>2. c \in Holders(s) <=> s + 1 = conn[c].sid
    BY DEF Holders
  <2> QED
    BY <2>1, <2>2 DEF Inv, ConnAccounting, mtproto_ext_rpc_close
<1>6. SlotKeepsSecret'
  BY <1>1, <1>2, <1>3, SMTT(30) DEF Inv, SlotKeepsSecret, Idle, slotVars
<1>7. Uncounted'
  BY <1>2, SMTT(30) DEF Inv, Uncounted, Idle
<1> QED
  BY <1>1, <1>5, <1>6, <1>7 DEF Inv, ConnAccounting

\* A reload only fills slots that nobody holds, and moves no key.
LEMMA ReloadStep ==
  ASSUME Inv, PinnedServed, NEW cfg \in Configs, NEW to \in Timeouts, Reload(cfg, to)
  PROVE  Inv' /\ SlotStep
<1>1. TypeOK'
  BY ReloadTyped, SMTT(30) DEF Inv
<1>2. \A s \in Slots : Holders(s)' = Holders(s)
  BY DEF Reload, Holders
<1>3. \A s \in Slots : state[s] # "FREE" => s \notin Filled(cfg)
  BY SMTT(30) DEF Filled, FreeSlots
<1>4. \A s \in Slots : state[s] # "FREE" => state'[s] # "FREE" /\ key'[s] = key[s]
  BY <1>3 DEF Reload, NewState
<1>5. \A s \in Slots : s \in Filled(cfg) => Holders(s) = {}
  BY SMTT(30) DEF Inv, SlotKeepsSecret, Holders, Filled, FreeSlots
<1>6. ConnAccounting'
  BY <1>2, <1>5, FS_EmptySet, ZenonT(60) DEF Inv, ConnAccounting, Reload
<1>7. SlotKeepsSecret'
  BY <1>4 DEF Inv, SlotKeepsSecret, Reload
<1> QED
  BY <1>1, <1>4, <1>6, <1>7 DEF Inv, Uncounted, Reload, SlotStep

\* A sweep only releases slots that nobody holds.
LEMMA SweepStep ==
  ASSUME Inv, PinnedServed, DrainSweep
  PROVE  Inv' /\ SlotStep
<1>1. TypeOK'
  BY SweepTyped DEF Inv
<1>2. \A c \in Conns : conn'[c].sid = conn[c].sid /\ conn'[c].key = conn[c].key
  BY DEF DrainSweep, Inv, TypeOK
<1>10. \A c \in Conns : conn'[c].phase = conn[c].phase \/ conn'[c].phase = "err"
  BY DEF DrainSweep, Inv, TypeOK
<1>3. \A s \in Slots : Holders(s)' = Holders(s)
  BY <1>2 DEF Holders
<1>4. \A s \in Slots : s \in Released => state[s] = "DRAINING" /\ Holders(s) = {}
  BY EmptySlot DEF Released, Draining
<1>5. \A s \in Slots : s \notin Released => state'[s] = state[s] /\ key'[s] = key[s]
  BY DEF DrainSweep
<1>6. ConnAccounting'
  BY <1>3 DEF Inv, ConnAccounting, DrainSweep
<1>7. SlotKeepsSecret'
  BY <1>2, <1>4, <1>5 DEF Inv, SlotKeepsSecret, Holders
<1>8. Uncounted'
  BY <1>2, <1>10 DEF Inv, Uncounted
<1>9. SlotStep
  BY <1>4, <1>5 DEF SlotStep, DrainSweep
<1> QED
  BY <1>1, <1>6, <1>7, <1>8, <1>9 DEF Inv

\* Every step keeps the invariant while some slot is visible, and respects the
\* life cycle of the slots.
LEMMA NextStep ==
  Inv /\ PinnedServed /\ Visible # {} /\ [Next]_vars => Inv' /\ [SlotStep]_vars
<1> SUFFICES ASSUME Inv, PinnedServed, Visible # {}, [Next]_vars PROVE Inv' /\ [SlotStep]_vars
  OBVIOUS
<1>1. ASSUME NEW c \in Conns, ClientStep(c) \/ CloseConnection(c) \/ mtproto_ext_rpc_close(c)
      PROVE  Inv' /\ SlotStep
  <2>1. SlotStep
    BY <1>1, ClientTyped DEF Inv, SlotStep, slotVars
  <2>2. ~ Obfs2NoSecret(c)
    BY DEF Obfs2NoSecret
  <2> QED
    BY <1>1, <2>1, <2>2, UncountedStep, HeaderStep, RpcCloseStep DEF ClientStep, Obfs2
<1>2. CASE Tick
  <2>1. TypeOK'
    BY <1>2, TickTyped DEF Inv
  <2>2. Uncounted' /\ SlotStep
    BY <1>2 DEF Tick, Inv, Uncounted, SlotStep
  <2> QED
    BY <1>2, <2>1, <2>2, SameSids DEF Tick
<1>3. CASE UNCHANGED vars
  <2>1. TypeOK' /\ Uncounted'
    BY <1>3 DEF vars, Inv, TypeOK, Uncounted
  <2> QED
    BY <1>3, <2>1, SameSids DEF vars
<1> QED
  BY <1>1, <1>2, <1>3, ReloadStep, SweepStep DEF Next

\* No connection, no count.
LEMMA InitInv == Init => Inv
<1> SUFFICES ASSUME Init PROVE Inv
  OBVIOUS
<1>1. \A c \in Conns : conn[c].sid = 0
  BY DEF Init, Idle
<1>2. \A s \in Slots : s + 1 # 0
  BY SlotAssumption, SMTT(30) DEF Slots
<1>3. \A s \in Slots : Holders(s) = {}
  BY <1>1, <1>2 DEF Holders
<1>4. ConnAccounting
  BY <1>3, FS_EmptySet DEF Init, ConnAccounting
<1> QED
  BY <1>1, <1>2, <1>4, InitTyped DEF Inv, Uncounted, SlotKeepsSecret

\* As long as handshakes always see some secret, every counter is the number
\* of connections under its slot, no connection's slot is freed or given to
\* another secret, and slots are only freed when drained.
THEOREM AccountingWhileVisible ==
  Spec /\ [](Visible # {}) => [](ConnAccounting /\ SlotKeepsSecret) /\ SlotLifecycle
<1>1. Inv => ConnAccounting /\ SlotKeepsSecret
  BY DEF Inv
<1> QED
  BY <1>1, InitInv, NextStep, PinnedAlwaysServed, PTL DEF Spec, SlotLifecycle

\* With at least one -S secret handshakes always see it, so the accounting is
\* exact in every behaviour.
THEOREM AccountingWithPinned ==
  ASSUME Pinned > 0
  PROVE  Spec => [](ConnAccounting /\ SlotKeepsSecret) /\ SlotLifecycle
<1>1. PinnedServed /\ TypeOK => Visible # {}
  <2> SUFFICES ASSUME PinnedServed, TypeOK PROVE 0 \in Visible
    OBVIOUS
  <2>1. 0 \in Slots /\ 0 < cnt
    BY SlotAssumption DEF Slots, PinnedServed, TypeOK
  <2>2. state[0] = "ACTIVE"
    BY <2>1 DEF PinnedServed
  <2> QED
    BY <2>1, <2>2 DEF Visible
<1> QED
  BY <1>1, AccountingWhileVisible, PinnedAlwaysServed, PTL

-----------------------------------------------------------------------------
(* One slot per secret                                                     *)

\* FREE slots are the ones with a zeroed key.
FreeIsZeroed == \A s \in Slots : state[s] = "FREE" <=> key[s] = NoKey

KeyInv == TypeOK /\ PinnedServed /\ FreeIsZeroed /\ OneSlotPerSecret

\* The file and the command line each name a secret once.
DistinctSecrets ==
  /\ \A p, q \in 0 .. Pinned - 1 : PinnedKey[p] = PinnedKey[q] => p = q
  /\ \A cfg \in Configs : \A i, j \in DOMAIN cfg : cfg[i].key = cfg[j].key => i = j

\* Two members of a finite set of numbers have as many members below them only
\* if they are the same.
LEMMA BelowInjective ==
  ASSUME NEW S \in SUBSET Nat, IsFiniteSet(S), NEW x \in S, NEW y \in S,
         Below(S, x) = Below(S, y)
  PROVE  x = y
<1>1. ASSUME NEW a \in S, NEW b \in S, a < b, Below(S, a) = Below(S, b)
      PROVE  FALSE
  <2> DEFINE A == {z \in S : z < a}
             B == {z \in S : z < b}
  <2>1. IsFiniteSet(B)
    BY FS_Subset
  <2>2. A \in SUBSET B
    <3>1. \A z \in S : z < a => z < b
      BY <1>1
    <3> QED
      BY <3>1, ZenonT(60)
  <2>3. Cardinality(B) = Cardinality(A)
    BY <1>1 DEF Below
  <2>4. A = B
    BY <2>1, <2>2, <2>3, FS_Subset
  <2>5. a \in B /\ a \notin A
    BY <1>1
  <2> QED
    BY <2>4, <2>5
<1> QED
  BY <1>1

\* Pass D gives different entries to different slots.
LEMMA EntriesApart ==
  ASSUME NEW cfg \in Configs, DistinctSecrets,
         NEW s \in Filled(cfg), NEW t \in Filled(cfg),
         EntryOf(cfg, s).key = EntryOf(cfg, t).key
  PROVE  s = t
<1> DEFINE i == Min(Takers(cfg, s))
           j == Min(Takers(cfg, t))
<1>1. cfg \in Seq(Entries) /\ DOMAIN cfg \subseteq Nat
  BY SlotAssumption
<1>2. \A u : Takers(cfg, u) \in SUBSET Nat /\ Takers(cfg, u) \subseteq DOMAIN cfg
  BY <1>1 DEF Takers, Unplaced
<1>3. i \in Takers(cfg, s) /\ j \in Takers(cfg, t)
  BY <1>2, MinProps DEF Filled
<1>4. i = j
  BY <1>2, <1>3 DEF DistinctSecrets, EntryOf
<1>5. Below(FreeSlots, s) = Below(FreeSlots, t)
  BY <1>3, <1>4 DEF Takers
<1>6. FreeSlots \in SUBSET Nat /\ IsFiniteSet(FreeSlots)
  <2>1. FreeSlots \in SUBSET (Pinned .. MaxSlots - 1)
    BY DEF FreeSlots, Loaded
  <2>2. IsFiniteSet(Pinned .. MaxSlots - 1) /\ Pinned .. MaxSlots - 1 \subseteq Nat
    BY SlotAssumption, FS_Interval, SMTT(30)
  <2> QED
    BY <2>1, <2>2, FS_Subset, ZenonT(60)
<1> QED
  BY <1>5, <1>6, BelowInjective DEF Filled

\* Pass D places no secret that a slot already has.
LEMMA EntryIsNew ==
  ASSUME KeyInv, NEW cfg \in Configs, NEW s \in Filled(cfg), NEW t \in Slots,
         state[t] # "FREE"
  PROVE  EntryOf(cfg, s).key # key[t]
<1> DEFINE i == Min(Takers(cfg, s))
<1>1. DOMAIN cfg \subseteq Nat
  BY SlotAssumption
<1>2. Takers(cfg, s) \in SUBSET Nat /\ Takers(cfg, s) # {}
  BY <1>1 DEF Takers, Unplaced, Filled
<1>3. i \in Unplaced(cfg)
  BY <1>2, MinProps DEF Takers
<1>4. EntryOf(cfg, s) = cfg[i]
  BY DEF EntryOf
<1>5. CASE t < Pinned
  <2>1. t \in 0 .. Pinned - 1
    BY <1>5, SlotAssumption DEF Slots
  <2> QED
    BY <1>3, <1>4, <2>1 DEF Unplaced, Collides
<1>6. CASE ~ (t < Pinned)
  <2>1. t \in Loaded
    BY <1>6, SlotAssumption DEF Slots, Loaded
  <2> QED
    BY <1>3, <1>4, <2>1 DEF Unplaced, Matching
<1> QED
  BY <1>5, <1>6

\* A reload keeps one slot per secret.
LEMMA ReloadKeys ==
  ASSUME KeyInv, DistinctSecrets, NEW cfg \in Configs, NEW to \in Timeouts, Reload(cfg, to)
  PROVE  KeyInv'
<1>1. TypeOK' /\ PinnedServed'
  BY ReloadTyped DEF KeyInv
<1>2. \A s \in Filled(cfg) : /\ s \in Slots /\ s \in Loaded /\ state[s] = "FREE"
                             /\ EntryOf(cfg, s).key \in Keys
  BY EntryTyped, SlotAssumption, SMTT(30) DEF Filled, FreeSlots, Loaded, Slots, Placed, Entries
<1>3. \A s \in Slots : key'[s] = IF s \in Filled(cfg) THEN EntryOf(cfg, s).key ELSE key[s]
  BY DEF Reload
<1>4. ASSUME NEW s \in Slots, Refreshing(cfg, s) # {} PROVE state[s] # "FREE"
  <2>1. PICK i \in Refreshing(cfg, s) : TRUE
    BY <1>4
  <2>2. Matching(cfg[i]) \in SUBSET Slots /\ Matching(cfg[i]) # {} /\ s = Min(Matching(cfg[i]))
    BY <2>1, SlotAssumption DEF Refreshing, Matching, Loaded, Slots
  <2>3. s \in Matching(cfg[i])
    BY <2>2, MinSlot, SMTT(30)
  <2> QED
    BY <2>3 DEF Matching
<1>5. \A s \in Slots : state'[s] = "FREE" <=> state[s] = "FREE" /\ s \notin Filled(cfg)
  BY <1>2, <1>4 DEF Reload, NewState
<1>6. FreeIsZeroed'
  BY <1>2, <1>3, <1>5, SlotAssumption DEF KeyInv, FreeIsZeroed
<1>7. ASSUME NEW s \in Slots, NEW t \in Slots, state'[s] # "FREE", key'[s] = key'[t]
      PROVE  s = t
  <2>1. state'[t] # "FREE"
    BY <1>6, <1>7 DEF FreeIsZeroed
  <2>2. CASE s \in Filled(cfg) /\ t \in Filled(cfg)
    BY <1>3, <1>7, <2>2, EntriesApart, SMTT(30)
  <2>3. CASE s \in Filled(cfg) /\ t \notin Filled(cfg)
    BY <1>3, <1>5, <1>7, <2>1, <2>3, EntryIsNew, SMTT(30)
  <2>4. CASE s \notin Filled(cfg) /\ t \in Filled(cfg)
    BY <1>3, <1>5, <1>7, <2>1, <2>4, EntryIsNew, SMTT(30)
  <2>5. CASE s \notin Filled(cfg) /\ t \notin Filled(cfg)
    BY <1>3, <1>5, <1>7, <2>1, <2>5 DEF KeyInv, OneSlotPerSecret
  <2> QED
    BY <2>2, <2>3, <2>4, <2>5
<1> QED
  BY <1>1, <1>6, <1>7 DEF KeyInv, OneSlotPerSecret

\* Every step keeps one slot per secret.
LEMMA NextKeys == KeyInv /\ DistinctSecrets /\ [Next]_vars => KeyInv'
<1> SUFFICES ASSUME KeyInv, DistinctSecrets, [Next]_vars PROVE KeyInv'
  OBVIOUS
<1>1. TypeOK' /\ PinnedServed'
  BY NextTyped DEF KeyInv
<1>2. CASE UNCHANGED <<state, key>>
  BY <1>1, <1>2 DEF KeyInv, FreeIsZeroed, OneSlotPerSecret
<1>3. CASE DrainSweep
  <2>1. \A s \in Slots : s \in Released => state'[s] = "FREE" /\ key'[s] = NoKey
    BY <1>3 DEF DrainSweep
  <2>2. \A s \in Slots : s \notin Released => state'[s] = state[s] /\ key'[s] = key[s]
    BY <1>3 DEF DrainSweep
  <2>3. FreeIsZeroed'
    BY <2>1, <2>2 DEF KeyInv, FreeIsZeroed
  <2>4. OneSlotPerSecret'
    BY <2>1, <2>2, <2>3 DEF KeyInv, FreeIsZeroed, OneSlotPerSecret
  <2> QED
    BY <1>1, <2>3, <2>4 DEF KeyInv
<1>4. ASSUME NEW c \in Conns, ClientStep(c) \/ CloseConnection(c) \/ mtproto_ext_rpc_close(c)
      PROVE  UNCHANGED <<state, key>>
  BY <1>4, ClientTyped DEF KeyInv, slotVars
<1>5. CASE Tick \/ UNCHANGED vars
  BY <1>2, <1>5 DEF Tick, vars
<1> QED
  BY <1>2, <1>3, <1>4, <1>5, ReloadKeys DEF Next

\* The pinned secrets are distinct and the other slots are free.
LEMMA InitKeys == Init /\ DistinctSecrets => KeyInv
<1> SUFFICES ASSUME Init, DistinctSecrets PROVE KeyInv
  OBVIOUS
<1>1. \A s \in Slots : s < Pinned => s \in 0 .. Pinned - 1 /\ PinnedKey[s] \in Keys
  BY SlotAssumption DEF Slots
<1>2. \A s \in Slots : key[s] = IF s < Pinned THEN PinnedKey[s] ELSE NoKey
  BY DEF Init
<1>3. \A s \in Slots : state[s] = "FREE" <=> ~ (s < Pinned)
  BY DEF Init
<1>4. FreeIsZeroed
  BY <1>1, <1>2, <1>3, SlotAssumption DEF FreeIsZeroed
<1>5. OneSlotPerSecret
  BY <1>1, <1>2, <1>3, SlotAssumption DEF OneSlotPerSecret, DistinctSecrets
<1> QED
  BY <1>4, <1>5, InitTyped DEF KeyInv

\* If no file and no command line repeats a secret, no secret is ever in two
\* slots, whatever sequence of reloads, failed reloads and releases happens.
THEOREM OneSlotAlways ==
  ASSUME DistinctSecrets
  PROVE  Spec => []OneSlotPerSecret
<1>1. KeyInv => OneSlotPerSecret
  BY DEF KeyInv
<1>2. Init => KeyInv
  BY InitKeys
<1>3. KeyInv /\ [Next]_vars => KeyInv'
  BY NextKeys
<1> QED
  BY <1>1, <1>2, <1>3, PTL DEF Spec
=============================================================================
