------------------------- MODULE DirectRelayProofs -------------------------
(* Clients and DC connections of direct mode, for any number of them, any  *)
(* number of retries and any configuration.                                *)
EXTENDS DirectRelay, FiniteSetTheorems, TLAPS

(* Most leaves are first-order; the ones with arithmetic cite SMT.          *)
USE ZenonT(60)

(* A client has a DC connection only in direct mode, and one of its own.   *)
ClientLinks ==
  /\ \A c \in Clients : cl[c].st # "direct" => cl[c].extra = None
  /\ \A b, c \in Clients : cl[b].extra = cl[c].extra /\ cl[c].extra \in DCs => b = c

Live(d) == dc[d].st \in {"connecting", "socks", "ready"}

(* A DC connection that is not closed has a client, and is held by itself  *)
(* and by its client if that one is not closed; a closed one is held by    *)
(* the reference of the client it had, dropped or overwritten.             *)
DcHeld ==
  \A d \in DCs :
    /\ dc[d].st = "free" => dc[d] = FreeDc
    /\ dc[d].st = "closed" => dc[d].extra = None /\ dc[d].refs = 1
    /\ Live(d) => /\ dc[d].extra \in Clients
                  /\ dc[d].refs = IF cl[dc[d].extra].extra = d THEN 2 ELSE 1

PairInv == DirectTypeOK /\ PairsHold /\ ClientLinks /\ DcHeld

Direct == {c \in Clients : cl[c].st = "direct"}

(* When no first connect fails at once, direct_dc_connections_active is no *)
(* less than the clients in direct mode: the test that guards the          *)
(* decrements of a close is never false.                                   *)
CountInv == up /\ ~ conf.sync => active >= Cardinality(Direct) /\ on_secret = Cardinality(Counted)

DirectInv == PairInv /\ CountInv

-----------------------------------------------------------------------------
(* A step that changes one client.                                         *)
LEMMA SetClient ==
  ASSUME DirectTypeOK, NEW c \in Clients, NEW r \in ClientType, cl' = [cl EXCEPT ![c] = r]
  PROVE  cl' \in [Clients -> ClientType] /\ cl'[c] = r /\ \A b \in Clients \ {c} : cl'[b] = cl[b]
  BY DEF DirectTypeOK

(* A step that changes one DC connection.                                  *)
LEMMA SetDc ==
  ASSUME DirectTypeOK, NEW d \in DCs, NEW r \in DcType, dc' = [dc EXCEPT ![d] = r]
  PROVE  dc' \in [DCs -> DcType] /\ dc'[d] = r /\ \A e \in DCs \ {d} : dc'[e] = dc[e]
  BY DEF DirectTypeOK

(* A step that leaves every pair as it is: no link is made or cut, nobody  *)
(* is closed, and an open client that waits for a retry goes on waiting.   *)
LEMMA KeepsPairs ==
  ASSUME PairInv, DirectTypeOK',
         \A c \in Clients :
           /\ cl'[c].st = cl[c].st /\ cl'[c].extra = cl[c].extra
           /\ cl[c].err => cl'[c].err
           /\ Open(c)' /\ cl[c].extra = None => cl'[c].retry > 0 /\ cl'[c].timer,
         \A d \in DCs :
           \/ dc'[d] = dc[d]
           \/ /\ Live(d) /\ Live(d)'
              /\ dc'[d].extra = dc[d].extra /\ dc'[d].refs = dc[d].refs
  PROVE  PairInv'
<1>1. PairsHold'
  BY DirectAssumption, SMT
  DEF PairInv, DirectTypeOK, PairsHold, DcHeld, ClientLinks, Open, Live, FreeDc, ClientType, DcType
<1>2. ClientLinks'
  BY DEF PairInv, ClientLinks
<1>3. DcHeld'
  BY SMT DEF PairInv, DcHeld, Live, FreeDc
<1> QED BY <1>1, <1>2, <1>3 DEF PairInv

(* Both ends are linked: the client had no DC connection, and the          *)
(* connection job was free.                                                *)
LEMMA LinksPair ==
  ASSUME PairInv, DirectTypeOK', NEW c \in Clients, NEW d \in DCs,
         cl[c].extra = None, dc[d].st = "free", \A e \in DCs : dc[e].extra # c,
         cl'[c].st = "direct", cl'[c].extra = d, 
         \A b \in Clients \ {c} : cl'[b] = cl[b],
         dc'[d] = [st |-> "connecting", extra |-> c, err |-> "ok", refs |-> 2],
         \A e \in DCs \ {d} : dc'[e] = dc[e]
  PROVE  PairInv'
<1>1. \A b \in Clients : cl[b].extra # d
  BY DirectAssumption, SMT DEF PairInv, PairsHold, DcHeld, FreeDc
<1>2. PairsHold'
  <2>1. ASSUME NEW b \in Clients
        PROVE  /\ cl'[b].extra \in DCs =>
                    LET r == dc'[cl'[b].extra] IN r.extra = b \/ (r.st = "closed" /\ r.refs > 0 /\ cl'[b].err)
               /\ Open(b)' /\ cl'[b].extra = None => cl'[b].retry > 0 /\ cl'[b].timer
    <3>1. CASE b = c  BY <3>1, DirectAssumption, SMT
    <3>2. CASE b # c  BY <1>1, <2>1, <3>2, SMT DEF PairInv, PairsHold, Open
    <3> QED BY <3>1, <3>2
  <2>2. ASSUME NEW e \in DCs, dc'[e].extra # None
        PROVE  cl'[dc'[e].extra].extra = e \/ cl'[dc'[e].extra].st = "closed"
    <3>1. CASE e = d  BY <3>1, SMT
    <3>2. CASE e # d
      <4>1. dc[e].extra \in Clients \ {c}
        BY <2>2, <3>2, SMT DEF PairInv, DirectTypeOK, DcType
      <4> QED BY <2>2, <3>2, <4>1, SMT DEF PairInv, PairsHold
    <3> QED BY <3>1, <3>2
  <2> QED BY <2>1, <2>2 DEF PairsHold
<1>3. ClientLinks'
  BY <1>1, SMT DEF PairInv, ClientLinks
<1>4. DcHeld'
  BY <1>1, DirectAssumption, SMT DEF PairInv, DirectTypeOK, DcHeld, Live, FreeDc, DcType
<1> QED BY <1>2, <1>3, <1>4 DEF PairInv

(* A client leaves direct mode, or the one without DC ends: it lets go of  *)
(* its DC connection, which is told to fail, and freed if it was closed.   *)
LEMMA ClosesClient ==
  ASSUME PairInv, DirectTypeOK', NEW c \in Clients,
         cl'[c].st = "closed", cl'[c].extra = None,
         \A b \in Clients \ {c} : cl'[b] = cl[b],
         dc' = PeerFailed(c)
  PROVE  PairInv'
<1>1. \A d \in DCs : d # cl[c].extra => dc'[d] = dc[d]
  BY DEF PeerFailed, PairInv, DirectTypeOK
<1>2. ASSUME cl[c].extra \in DCs
      PROVE  LET d == cl[c].extra
             IN  \/ dc[d].st = "closed" /\ dc'[d] = FreeDc
                 \/ /\ Live(d) /\ dc[d].extra = c /\ dc[d].refs = 2
                    /\ dc'[d].st = dc[d].st /\ dc'[d].extra = c /\ dc'[d].refs = 1
  <2> DEFINE d == cl[c].extra
  <2>1. dc'[d] = Decref(fail_connection(dc[d], "us"))
    BY <1>2 DEF PeerFailed, PairInv, DirectTypeOK
  <2>2. dc[d] \in DcType
    BY <1>2 DEF PairInv, DirectTypeOK
  <2>3. CASE dc[d].st = "closed"
    BY <1>2, <2>1, <2>2, <2>3 DEF PairInv, DcHeld, DcType, Decref, fail_connection
  <2>4. CASE dc[d].st # "closed"
    <3>1. dc[d].extra = c
      BY <1>2, <2>4 DEF PairInv, PairsHold
    <3>2. Live(d)
      BY <1>2, <2>2, <2>4, <3>1, DirectAssumption, SMT DEF PairInv, DcHeld, FreeDc, Live, DcType
    <3>3. dc[d].refs = 2
      BY <1>2, <3>1, <3>2 DEF PairInv, DcHeld
    <3> QED BY <1>2, <2>1, <2>2, <2>4, <3>1, <3>2, <3>3, SMT DEF DcType, Decref, fail_connection, Live
  <2> QED BY <2>3, <2>4
<1>3. PairsHold'
  <2>1. ASSUME NEW b \in Clients
        PROVE  /\ cl'[b].extra \in DCs =>
                    LET r == dc'[cl'[b].extra] IN r.extra = b \/ (r.st = "closed" /\ r.refs > 0 /\ cl'[b].err)
               /\ Open(b)' /\ cl'[b].extra = None => cl'[b].retry > 0 /\ cl'[b].timer
    <3>1. CASE b = c  BY <3>1, DirectAssumption DEF Open
    <3>2. CASE b # c
      <4>1. cl[b].extra \in DCs => cl[b].extra # cl[c].extra
        BY <3>2 DEF PairInv, ClientLinks
      <4> QED BY <1>1, <2>1, <3>2, <4>1, SMT DEF PairInv, PairsHold, Open
    <3> QED BY <3>1, <3>2
  <2>2. ASSUME NEW e \in DCs, dc'[e].extra # None
        PROVE  cl'[dc'[e].extra].extra = e \/ cl'[dc'[e].extra].st = "closed"
    <3>1. CASE e = cl[c].extra  BY <1>2, <2>2, <3>1, SMT DEF FreeDc
    <3>2. CASE e # cl[c].extra
      <4>1. dc'[e] = dc[e] /\ dc[e].extra \in Clients
        BY <1>1, <2>2, <3>2 DEF PairInv, DirectTypeOK, DcType
      <4>2. CASE dc[e].extra = c
        BY <4>1, <4>2
      <4>3. CASE dc[e].extra # c
        BY <2>2, <4>1, <4>3 DEF PairInv, PairsHold
      <4> QED BY <4>2, <4>3
    <3> QED BY <3>1, <3>2
  <2> QED BY <2>1, <2>2 DEF PairsHold
<1>4. ClientLinks'
  BY DirectAssumption DEF PairInv, ClientLinks
<1>5. DcHeld'
  <2> SUFFICES ASSUME NEW e \in DCs
               PROVE  /\ dc'[e].st = "free" => dc'[e] = FreeDc
                      /\ dc'[e].st = "closed" => dc'[e].extra = None /\ dc'[e].refs = 1
                      /\ Live(e)' => /\ dc'[e].extra \in Clients
                                     /\ dc'[e].refs = IF cl'[dc'[e].extra].extra = e THEN 2 ELSE 1
    BY DEF DcHeld
  <2>1. CASE e = cl[c].extra
    BY <1>2, <2>1, DirectAssumption, SMT DEF Live, FreeDc
  <2>2. CASE e # cl[c].extra
    <3>1. dc'[e] = dc[e]
      BY <1>1, <2>2
    <3>2. Live(e) => (cl'[dc[e].extra].extra = e <=> cl[dc[e].extra].extra = e)
      BY <2>2, DirectAssumption DEF PairInv, DcHeld
    <3> QED BY <3>1, <3>2 DEF PairInv, DcHeld, Live
  <2> QED BY <2>1, <2>2
<1> QED BY <1>3, <1>4, <1>5 DEF PairInv
(* A DC connection is closed.  Its client forgets it and waits for a       *)
(* retry, or goes down with it and lets go of it in its own close.         *)
LEMMA ClosesDc ==
  ASSUME PairInv, DirectTypeOK', NEW d \in DCs, Live(d), NEW c, c = dc[d].extra,
         dc'[d] = Decref([dc[d] EXCEPT !.st = "closed", !.extra = None]),
         \A e \in DCs \ {d} : dc'[e] = dc[e],
         cl'[c].st = cl[c].st, \A b \in Clients \ {c} : cl'[b] = cl[b],
         \/ cl'[c].extra = None /\ cl'[c].retry > 0 /\ cl'[c].timer
         \/ cl'[c].extra = cl[c].extra /\ cl'[c].err
  PROVE  PairInv'
<1>1. c \in Clients /\ dc[d].refs = IF cl[c].extra = d THEN 2 ELSE 1
  BY DEF PairInv, DcHeld
<1>2. cl[c].extra # d => cl[c].extra = None /\ cl'[c].extra = None
  BY <1>1, DirectAssumption DEF PairInv, DirectTypeOK, PairsHold, ClientLinks
<1>3. IF cl[c].extra = d THEN dc'[d].st = "closed" /\ dc'[d].extra = None /\ dc'[d].refs = 1 ELSE dc'[d] = FreeDc
  <2>1. dc[d] \in DcType
    BY DEF PairInv, DirectTypeOK
  <2> QED BY <1>1, <2>1, SMT DEF Decref, DcType
<1>4. \A b \in Clients \ {c} : cl[b].extra # d
  BY <1>1, SMT DEF PairInv, PairsHold, Live
<1>5. PairsHold'
  <2>1. ASSUME NEW b \in Clients
        PROVE  /\ cl'[b].extra \in DCs =>
                    LET r == dc'[cl'[b].extra] IN r.extra = b \/ (r.st = "closed" /\ r.refs > 0 /\ cl'[b].err)
               /\ Open(b)' /\ cl'[b].extra = None => cl'[b].retry > 0 /\ cl'[b].timer
    <3>1. CASE b = c
      <4>1. CASE cl'[c].extra = None /\ cl'[c].retry > 0 /\ cl'[c].timer
        BY <3>1, <4>1, DirectAssumption
      <4>2. CASE cl'[c].extra = cl[c].extra /\ cl'[c].err
        BY <1>2, <1>3, <3>1, <4>2, DirectAssumption, SMTT(30) DEF Open
      <4> QED BY <4>1, <4>2
    <3>2. CASE b # c
      BY <1>4, <2>1, <3>2, SMT DEF PairInv, PairsHold, Open
    <3> QED BY <3>1, <3>2
  <2>2. ASSUME NEW e \in DCs, dc'[e].extra # None
        PROVE  cl'[dc'[e].extra].extra = e \/ cl'[dc'[e].extra].st = "closed"
    <3>1. e # d
      BY <1>3, <2>2, SMT DEF FreeDc
    <3>2. dc'[e] = dc[e] /\ dc[e].extra \in Clients
      BY <2>2, <3>1 DEF PairInv, DirectTypeOK, DcType
    <3>3. cl[dc[e].extra].extra = e \/ cl[dc[e].extra].st = "closed"
      BY <2>2, <3>2 DEF PairInv, PairsHold
    <3>4. CASE dc[e].extra = c
      BY <1>2, <3>1, <3>2, <3>3, <3>4, DirectAssumption
    <3>5. CASE dc[e].extra # c
      BY <3>2, <3>3, <3>5
    <3> QED BY <3>4, <3>5
  <2> QED BY <2>1, <2>2 DEF PairsHold
<1>6. ClientLinks'
  <2>1. cl'[c].extra \in {None, cl[c].extra}
    OBVIOUS
  <2> QED BY <1>1, <2>1, DirectAssumption, SMT DEF PairInv, ClientLinks
<1>7. DcHeld'
  <2> SUFFICES ASSUME NEW e \in DCs
               PROVE  /\ dc'[e].st = "free" => dc'[e] = FreeDc
                      /\ dc'[e].st = "closed" => dc'[e].extra = None /\ dc'[e].refs = 1
                      /\ Live(e)' => /\ dc'[e].extra \in Clients
                                     /\ dc'[e].refs = IF cl'[dc'[e].extra].extra = e THEN 2 ELSE 1
    BY DEF DcHeld
  <2>1. CASE e = d
    BY <1>3, <2>1, SMT DEF Live, FreeDc
  <2>2. CASE e # d
    <3>1. Live(e) => (cl'[dc[e].extra].extra = e <=> cl[dc[e].extra].extra = e)
      BY <1>2, <2>2, DirectAssumption, SMT DEF PairInv, DcHeld
    <3> QED BY <2>2, <3>1, SMTT(30) DEF PairInv, DcHeld, Live
  <2> QED BY <2>1, <2>2
<1> QED BY <1>5, <1>6, <1>7 DEF PairInv

-----------------------------------------------------------------------------
(* The records of clients and DC connections that actions build.           *)
LEMMA Records ==
  /\ NewClient \in ClientType /\ NewClient.st = "new" /\ NewClient.extra = None
  /\ DirectClient \in ClientType /\ DirectClient.st = "direct"
  /\ FreeDc \in DcType
<1>1. NewClient \in ClientType /\ NewClient.st = "new" /\ NewClient.extra = None
  BY DirectAssumption, SMT DEF NewClient, ClientType
<1>2. FreeDc \in DcType
  BY SMT DEF FreeDc, DcType
<1>3. DirectClient \in ClientType
  BY <1>1 DEF DirectClient, ClientType
<1>4. DirectClient.st = "direct"
  BY <1>1 DEF DirectClient, ClientType
<1> QED BY <1>1, <1>2, <1>3, <1>4

(* The fields of a client that a step sets or keeps.                       *)
LEMMA Fields ==
  ASSUME NEW r \in ClientType
  PROVE  /\ \A v \in BOOLEAN : [r EXCEPT !.err = v] \in ClientType
         /\ \A v \in BOOLEAN : [r EXCEPT !.timer = v] \in ClientType
         /\ \A v \in DCs \cup {None, Methods} : [r EXCEPT !.extra = v] \in ClientType
         /\ [r EXCEPT !.err = TRUE].err
         /\ \A v : [r EXCEPT !.err = v].st = r.st /\ [r EXCEPT !.err = v].extra = r.extra
         /\ \A v : [r EXCEPT !.timer = v].st = r.st /\ [r EXCEPT !.timer = v].extra = r.extra
         /\ \A v : [r EXCEPT !.timer = v].err = r.err /\ [r EXCEPT !.timer = v].retry = r.retry
         /\ \A v : [r EXCEPT !.extra = v].st = r.st /\ [r EXCEPT !.extra = v].extra = v
         /\ \A v : [r EXCEPT !.extra = v].err = r.err /\ [r EXCEPT !.extra = v].retry = r.retry
<1>1. \A v \in BOOLEAN : [r EXCEPT !.err = v] \in ClientType
  BY DEF ClientType
<1>2. \A v \in BOOLEAN : [r EXCEPT !.timer = v] \in ClientType
  BY DEF ClientType
<1>3. \A v \in DCs \cup {None, Methods} : [r EXCEPT !.extra = v] \in ClientType
  BY DEF ClientType
<1>4. [r EXCEPT !.err = TRUE].err
  BY DEF ClientType
<1>5. \A v : [r EXCEPT !.err = v].st = r.st /\ [r EXCEPT !.err = v].extra = r.extra
  BY DEF ClientType
<1>6. \A v : [r EXCEPT !.timer = v].st = r.st /\ [r EXCEPT !.timer = v].extra = r.extra
  BY DEF ClientType
<1>7. \A v : [r EXCEPT !.timer = v].err = r.err /\ [r EXCEPT !.timer = v].retry = r.retry
  BY DEF ClientType
<1>8. \A v : [r EXCEPT !.extra = v].st = r.st /\ [r EXCEPT !.extra = v].extra = v
  BY DEF ClientType
<1>9. \A v : [r EXCEPT !.extra = v].err = r.err /\ [r EXCEPT !.extra = v].retry = r.retry
  BY DEF ClientType
<1> QED BY <1>1, <1>2, <1>3, <1>4, <1>5, <1>6, <1>7, <1>8, <1>9

(* A retry is scheduled: the timer is armed, or the client fails when no   *)
(* attempt is left.                                                        *)
LEMMA Retry ==
  ASSUME NEW r \in ClientType, NEW n \in 0 .. MaxRetries
  PROVE  LET q == direct_schedule_retry(r, n)
         IN  /\ q \in ClientType /\ q.st = r.st /\ q.extra = r.extra /\ (r.err => q.err)
             /\ q.err \/ (q.retry > 0 /\ q.timer)
             /\ n < MaxRetries => q.retry > 0 /\ q.timer
<1>1. CASE n >= MaxRetries
  <2>1. direct_schedule_retry(r, n) = [r EXCEPT !.err = TRUE]
    BY <1>1 DEF direct_schedule_retry
  <2>2. ~ (n < MaxRetries)
    BY <1>1, DirectAssumption, SMT
  <2>3. [r EXCEPT !.err = TRUE] \in ClientType
    BY Fields
  <2>4. [r EXCEPT !.err = TRUE].err /\ [r EXCEPT !.err = TRUE].st = r.st /\ [r EXCEPT !.err = TRUE].extra = r.extra
    BY Fields
  <2> QED BY <2>1, <2>2, <2>3, <2>4
<1>2. CASE n < MaxRetries
  <2> DEFINE q == [r EXCEPT !.retry = n + 1, !.timer = TRUE]
  <2>1. direct_schedule_retry(r, n) = q
    BY <1>2, DirectAssumption, SMT DEF direct_schedule_retry
  <2>2. n + 1 \in 0 .. MaxRetries /\ n + 1 > 0
    BY <1>2, DirectAssumption, SMT
  <2>3. q \in ClientType
    BY <2>2 DEF ClientType
  <2>4. q.retry > 0
    BY <2>2 DEF ClientType
  <2>5. q.timer
    BY DEF ClientType
  <2>6. q.st = r.st /\ q.extra = r.extra
    BY DEF ClientType
  <2>7. r.err => q.err
    BY DEF ClientType
  <2> QED BY <2>1, <2>3, <2>4, <2>5, <2>6, <2>7
<1> QED BY <1>1, <1>2, DirectAssumption, SMT

-----------------------------------------------------------------------------
(* The steps of a client *)

(* Nobody refers to a connection that is to be accepted in the place of c, *)
(* nor to a client that waits for a retry.                                 *)
LEMMA Unlinked ==
  ASSUME PairInv, NEW c \in Clients, NoClient(c) \/ (cl[c].st = "direct" /\ cl[c].extra = None)
  PROVE  cl[c].extra = None /\ \A e \in DCs : dc[e].extra # c
  BY DirectAssumption, SMT DEF PairInv, PairsHold, ClientLinks, NoClient

(* Linked, by a first connect or by a retry.                               *)
LEMMA LinkStep ==
  ASSUME PairInv, NEW c \in Clients, NEW d \in DCs, NEW r \in ClientType, r.st = "direct",
         NoClient(c) \/ (cl[c].st = "direct" /\ cl[c].extra = None),
         Linked(c, d, r), on_secret' \in Int, UNCHANGED <<up, conf>>
  PROVE  /\ PairInv' /\ active' = active + 1
         /\ cl'[c].st = "direct" /\ \A b \in Clients \ {c} : cl'[b] = cl[b]
<1> DEFINE q == [r EXCEPT !.extra = d, !.retry = 0]
<1>1. q \in ClientType /\ q.st = "direct" /\ q.extra = d
  <2>1. 0 \in 0 .. MaxRetries /\ d \in DCs \cup {None, Methods}
    BY DirectAssumption, SMT
  <2>2. q \in ClientType
    BY <2>1 DEF ClientType
  <2>3. q.st = "direct" /\ q.extra = d
    BY DEF ClientType
  <2> QED BY <2>2, <2>3
<1>2. cl' \in [Clients -> ClientType] /\ cl'[c] = q /\ \A b \in Clients \ {c} : cl'[b] = cl[b]
  BY <1>1, SetClient DEF PairInv, Linked
<1>3. DirectTypeOK'
  BY <1>2, DirectAssumption, SMT DEF PairInv, DirectTypeOK, Linked, DcType
<1>4. PairInv'
  <2>1. dc'[d] = [st |-> "connecting", extra |-> c, err |-> "ok", refs |-> 2] /\ dc[d].st = "free"
        /\ \A e \in DCs \ {d} : dc'[e] = dc[e]
    BY DEF PairInv, DirectTypeOK, Linked
  <2>2. cl[c].extra = None /\ \A e \in DCs : dc[e].extra # c
    BY Unlinked
  <2>3. cl'[c].st = "direct" /\ cl'[c].extra = d
    BY <1>1, <1>2
  <2>4. \A b \in Clients \ {c} : cl'[b] = cl[b]
    BY <1>2
  <2> QED BY <1>3, <2>1, <2>2, <2>3, <2>4, LinksPair
<1> QED BY <1>1, <1>2, <1>4 DEF Linked

(* direct_connect_to_dc *)
LEMMA ConnectPairs ==
  ASSUME PairInv, NEW c \in Clients, direct_connect_to_dc(c)
  PROVE  /\ PairInv' /\ on_secret' = on_secret + 1 /\ \A b \in Clients \ {c} : cl'[b] = cl[b]
         /\ \/ cl'[c].st = "direct" /\ (active' = active + 1 \/ conf.sync)
            \/ cl'[c].st = "ext" /\ active' = active
<1>1. on_secret' = on_secret + 1 /\ on_secret' \in Int /\ NoClient(c) /\ UNCHANGED <<up, conf>>
  BY SMT DEF direct_connect_to_dc, PairInv, DirectTypeOK
<1>2. ASSUME NEW d \in DCs, Linked(c, d, DirectClient)
      PROVE  /\ PairInv' /\ active' = active + 1
             /\ cl'[c].st = "direct" /\ \A b \in Clients \ {c} : cl'[b] = cl[b]
  BY <1>1, <1>2, LinkStep, Records
<1>3. ASSUME NEW r \in ClientType, r.extra \notin DCs, r.st # "closed",
             r.err \/ r.extra # None \/ (r.retry > 0 /\ r.timer),
             r.st # "direct" => r.extra = None,
             cl' = [cl EXCEPT ![c] = r], UNCHANGED <<dc, active>>
      PROVE  PairInv' /\ cl'[c] = r /\ \A b \in Clients \ {c} : cl'[b] = cl[b]
  <2>1. cl' \in [Clients -> ClientType] /\ cl'[c] = r /\ \A b \in Clients \ {c} : cl'[b] = cl[b]
    BY <1>3, SetClient DEF PairInv
  <2>2. cl[c].extra = None /\ \A e \in DCs : dc[e].extra # c
    BY <1>1, Unlinked
  <2>3. DirectTypeOK'
    BY <1>1, <1>3, <2>1 DEF PairInv, DirectTypeOK
  <2>4. PairsHold'
    BY <1>3, <2>1, <2>2, DirectAssumption DEF PairInv, DirectTypeOK, PairsHold, Open, DcType
  <2>5. ClientLinks'
    BY <1>3, <2>1 DEF PairInv, ClientLinks
  <2>6. DcHeld'
    BY <1>3, <2>1, <2>2 DEF PairInv, DcHeld, Live
  <2> QED BY <2>1, <2>3, <2>4, <2>5, <2>6 DEF PairInv
<1>4. ASSUME conf.sync, cl' = [cl EXCEPT ![c] = direct_schedule_retry([DirectClient EXCEPT !.extra = Methods], 0)],
             UNCHANGED <<dc, active>>
      PROVE  PairInv' /\ cl'[c].st = "direct" /\ \A b \in Clients \ {c} : cl'[b] = cl[b]
  <2> DEFINE m == [DirectClient EXCEPT !.extra = Methods]
             r == direct_schedule_retry(m, 0)
  <2>1. m \in ClientType /\ m.st = "direct" /\ m.extra = Methods
    BY Records DEF ClientType
  <2>2. r \in ClientType /\ r.st = "direct" /\ r.extra = Methods
    <3>1. 0 \in 0 .. MaxRetries
      BY DirectAssumption, SMT
    <3> HIDE DEF m
    <3> QED BY <2>1, <3>1, Retry
  <2> HIDE DEF r
  <2> QED BY <1>3, <1>4, <2>2, DirectAssumption DEF r
<1>5. ASSUME cl' = [cl EXCEPT ![c] = [NewClient EXCEPT !.st = "ext", !.err = TRUE]], UNCHANGED <<dc, active>>
      PROVE  PairInv' /\ cl'[c].st = "ext" /\ \A b \in Clients \ {c} : cl'[b] = cl[b]
  <2> DEFINE r == [NewClient EXCEPT !.st = "ext", !.err = TRUE]
  <2>1. r \in ClientType /\ r.st = "ext" /\ r.err /\ r.extra = None
    BY Records DEF ClientType
  <2> HIDE DEF r
  <2> QED BY <1>3, <1>5, <2>1, DirectAssumption DEF r
<1> QED BY <1>1, <1>2, <1>4, <1>5 DEF direct_connect_to_dc

(* mtproto_ext_rpc_close of a client without DC *)
LEMMA CloseExtPairs ==
  ASSUME PairInv, NEW c \in Clients, CloseExt(c)
  PROVE  PairInv' /\ cl'[c].st = "closed" /\ \A b \in Clients \ {c} : cl'[b] = cl[b]
<1> DEFINE r == [cl[c] EXCEPT !.st = "closed"]
<1>1. r \in ClientType /\ r.st = "closed" /\ r.extra = None
  BY SMT DEF PairInv, DirectTypeOK, ClientLinks, ClientType, CloseExt
<1>2. cl' \in [Clients -> ClientType] /\ cl'[c] = r /\ \A b \in Clients \ {c} : cl'[b] = cl[b]
  BY <1>1, SetClient DEF PairInv, CloseExt
<1>3. DirectTypeOK'
  BY <1>2, SMT DEF PairInv, DirectTypeOK, CloseExt
<1>4. dc' = PeerFailed(c)
  BY <1>1, DirectAssumption DEF PeerFailed, CloseExt, PairInv, ClientLinks
<1> QED BY <1>1, <1>2, <1>3, <1>4, ClosesClient

(* tcp_direct_close of a client *)
LEMMA CloseClientPairs ==
  ASSUME PairInv, NEW c \in Clients, CloseClient(c), up'
  PROVE  /\ PairInv' /\ cl[c].st = "direct" /\ cl'[c].st = "closed" /\ CountedOut /\ conf' = conf
         /\ \A b \in Clients \ {c} : cl'[b] = cl[b]
<1>1. /\ cl[c].st = "direct" /\ CountedOut /\ dc' = PeerFailed(c) /\ UNCHANGED <<up, conf>>
      /\ cl' = [cl EXCEPT ![c].st = "closed", ![c].extra = None, ![c].timer = FALSE]
  BY DEF CloseClient, Undefined
<1> DEFINE r == [[cl[c] EXCEPT !.st = "closed", !.extra = None] EXCEPT !.timer = FALSE]
<1>2. r \in ClientType /\ r.st = "closed" /\ r.extra = None
  <2>1. cl[c] \in ClientType
    BY DEF PairInv, DirectTypeOK
  <2>2. [cl[c] EXCEPT !.st = "closed", !.extra = None] \in ClientType
    BY <2>1 DEF ClientType
  <2>3. r \in ClientType
    BY <2>2, Fields
  <2>4. r.st = "closed" /\ r.extra = None
    BY <2>1 DEF ClientType
  <2> QED BY <2>3, <2>4
<1>3. cl' = [cl EXCEPT ![c] = r]
  BY <1>1
<1>4. cl' \in [Clients -> ClientType] /\ cl'[c] = r /\ \A b \in Clients \ {c} : cl'[b] = cl[b]
  <2> HIDE DEF r
  <2> QED BY <1>2, <1>3, SetClient DEF PairInv
<1>5. DirectTypeOK'
  <2>1. active' \in Nat /\ on_secret' \in Int
    BY <1>1, SMT DEF CountedOut, PairInv, DirectTypeOK
  <2>2. dc' \in [DCs -> DcType]
    <3>1. CASE cl[c].extra \in DCs
      <4> DEFINE d == cl[c].extra
                 f == fail_connection(dc[d], "us")
      <4>1. dc[d] \in DcType /\ dc[d].refs >= 1
        BY <3>1, DirectAssumption, SMT DEF PairInv, DirectTypeOK, PairsHold, DcHeld, DcType, Live, FreeDc
      <4>2. f \in DcType /\ f.refs = dc[d].refs
        BY <4>1 DEF fail_connection, DcType
      <4>3. Decref(f) \in DcType
        BY <4>1, <4>2, Records, SMT DEF Decref, DcType
      <4> QED BY <1>1, <3>1, <4>3 DEF PeerFailed, PairInv, DirectTypeOK
    <3>2. CASE cl[c].extra \notin DCs
      BY <1>1, <3>2 DEF PeerFailed, PairInv, DirectTypeOK
    <3> QED BY <3>1, <3>2
  <2> QED BY <1>1, <1>4, <2>1, <2>2 DEF PairInv, DirectTypeOK
<1>6. cl'[c].st = "closed" /\ cl'[c].extra = None
  BY <1>2, <1>4
<1> QED BY <1>1, <1>4, <1>5, <1>6, ClosesClient

(* The timer of a client fires *)
LEMMA AlarmPairs ==
  ASSUME PairInv, NEW c \in Clients, Alarm(c)
  PROVE  /\ PairInv' /\ active' \in {active, active + 1} /\ UNCHANGED <<on_secret, up, conf>>
         /\ \A b \in Clients : cl'[b].st = cl[b].st
<1>0. UNCHANGED <<on_secret, up, conf>> /\ on_secret' \in Int
  BY DEF Alarm, PairInv, DirectTypeOK
<1>1. cl[c] \in ClientType
  BY DEF PairInv, DirectTypeOK
<1> DEFINE r == [cl[c] EXCEPT !.timer = FALSE]
<1>2. r \in ClientType /\ r.st = cl[c].st /\ r.extra = cl[c].extra /\ r.err = cl[c].err /\ r.retry = cl[c].retry
  <2>1. r \in ClientType
    BY <1>1, Fields
  <2>2. r.st = cl[c].st /\ r.extra = cl[c].extra /\ r.err = cl[c].err /\ r.retry = cl[c].retry
    BY <1>1, Fields
  <2> QED BY <2>1, <2>2
<1> HIDE DEF r
<1>3. ASSUME NEW d \in DCs, Open(c), cl[c].extra = None, Linked(c, d, r)
      PROVE  PairInv' /\ active' \in {active, active + 1} /\ \A b \in Clients : cl'[b].st = cl[b].st
  <2>1. cl[c].st = "direct"
    BY <1>3 DEF Open
  <2>2. /\ PairInv' /\ active' = active + 1
        /\ cl'[c].st = "direct" /\ \A b \in Clients \ {c} : cl'[b] = cl[b]
    BY <1>0, <1>2, <1>3, <2>1, LinkStep
  <2> QED BY <2>1, <2>2
<1>4. ASSUME NEW q \in ClientType, cl' = [cl EXCEPT ![c] = q], UNCHANGED <<dc, active>>,
             q.st = cl[c].st, q.extra = cl[c].extra, cl[c].err => q.err,
             q.st = "direct" /\ ~ q.err /\ q.extra = None => q.retry > 0 /\ q.timer
      PROVE  PairInv' /\ active' \in {active, active + 1} /\ \A b \in Clients : cl'[b].st = cl[b].st
  <2>1. cl' \in [Clients -> ClientType] /\ cl'[c] = q /\ \A b \in Clients \ {c} : cl'[b] = cl[b]
    BY <1>4, SetClient DEF PairInv
  <2>2. DirectTypeOK'
    BY <1>0, <1>4, <2>1 DEF PairInv, DirectTypeOK
  <2>3. \A b \in Clients :
          /\ cl'[b].st = cl[b].st /\ cl'[b].extra = cl[b].extra
          /\ cl[b].err => cl'[b].err
          /\ Open(b)' /\ cl[b].extra = None => cl'[b].retry > 0 /\ cl'[b].timer
    BY <1>4, <2>1 DEF PairInv, PairsHold, Open
  <2>4. \A d \in DCs : dc'[d] = dc[d]
    BY <1>4
  <2> QED BY <1>4, <2>2, <2>3, <2>4, KeepsPairs
<1>5. CASE Open(c) /\ cl[c].extra = None /\ cl[c].retry > 0
  <2>1. CASE \E d \in DCs : Linked(c, d, r)
    BY <1>3, <1>5, <2>1, <1>0
  <2>2. CASE /\ cl' = [cl EXCEPT ![c] = direct_schedule_retry(r, cl[c].retry)]
             /\ UNCHANGED <<dc, active>>
    <3>1. cl[c].retry \in 0 .. MaxRetries
      BY <1>1 DEF ClientType
    <3> DEFINE q == direct_schedule_retry(r, cl[c].retry)
    <3>2. /\ q \in ClientType /\ q.st = r.st /\ q.extra = r.extra /\ (r.err => q.err)
          /\ q.err \/ (q.retry > 0 /\ q.timer)
      BY <1>2, <3>1, Retry
    <3> HIDE DEF q
    <3> QED BY <1>0, <1>2, <1>4, <2>2, <3>2 DEF q
  <2> QED BY <1>5, <2>1, <2>2 DEF Alarm, direct_retry_dc_connection, r
<1>6. CASE ~ (Open(c) /\ cl[c].extra = None /\ cl[c].retry > 0)
  <2>1. cl' = [cl EXCEPT ![c] = r] /\ UNCHANGED <<dc, active>>
    BY <1>6 DEF Alarm, r
  <2>2. ~ (r.st = "direct" /\ ~ r.err /\ r.extra = None)
    BY <1>2, <1>6 DEF PairInv, PairsHold, Open
  <2> QED BY <1>0, <1>2, <1>4, <2>1, <2>2
<1> QED BY <1>5, <1>6

(* The steps of a client that leave its state and its DC connection alone: *)
(* ClientFail, ClientData, ClientRun.                                      *)
LEMMA ClientPairs ==
  ASSUME PairInv, NEW c \in Clients, ClientFail(c) \/ ClientData(c) \/ ClientRun(c), up'
  PROVE  PairInv' /\ UNCHANGED <<active, on_secret, up, conf>> /\ \A b \in Clients : cl'[b].st = cl[b].st
<1>1. cl[c] \in ClientType /\ up /\ Open(c)
  BY DEF PairInv, DirectTypeOK, ClientFail, ClientData, ClientRun
<1>2. ASSUME NEW q \in ClientType, cl' = [cl EXCEPT ![c] = q], UNCHANGED <<dc, active, on_secret, up, conf>>,
             q.st = cl[c].st, q.extra = cl[c].extra, q.retry = cl[c].retry, cl[c].timer => q.timer
      PROVE  PairInv' /\ UNCHANGED <<active, on_secret, up, conf>> /\ \A b \in Clients : cl'[b].st = cl[b].st
  <2>1. cl' \in [Clients -> ClientType] /\ cl'[c] = q /\ \A b \in Clients \ {c} : cl'[b] = cl[b]
    BY <1>2, SetClient DEF PairInv
  <2>2. DirectTypeOK'
    BY <1>2, <2>1 DEF PairInv, DirectTypeOK
  <2>3. \A b \in Clients :
          /\ cl'[b].st = cl[b].st /\ cl'[b].extra = cl[b].extra
          /\ cl[b].err => cl'[b].err
          /\ Open(b)' /\ cl[b].extra = None => cl'[b].retry > 0 /\ cl'[b].timer
    BY <1>1, <1>2, <2>1 DEF PairInv, PairsHold, Open
  <2>4. \A d \in DCs : dc'[d] = dc[d]
    BY <1>2
  <2> QED BY <1>2, <2>2, <2>3, <2>4, KeepsPairs
<1>3. CASE ClientFail(c)
  <2> DEFINE q == [cl[c] EXCEPT !.err = TRUE]
  <2>1. q \in ClientType
    BY <1>1, Fields
  <2>2. q.st = cl[c].st /\ q.extra = cl[c].extra /\ q.retry = cl[c].retry /\ q.timer = cl[c].timer
    BY <1>1 DEF ClientType
  <2>3. cl' = [cl EXCEPT ![c] = q] /\ UNCHANGED <<dc, active, on_secret, up, conf>>
    BY <1>3 DEF ClientFail
  <2> HIDE DEF q
  <2> QED BY <1>2, <2>1, <2>2, <2>3
<1>4. CASE ClientData(c)
  <2> DEFINE q == [cl[c] EXCEPT !.pend = TRUE, !.sig = TRUE]
  <2>1. q \in ClientType
    <3>1. TRUE \in BOOLEAN
      OBVIOUS
    <3>2. \A v \in BOOLEAN : [cl[c] EXCEPT !.pend = v, !.sig = v] \in ClientType
      BY <1>1 DEF ClientType
    <3> QED BY <3>1, <3>2
  <2>2. q.st = cl[c].st /\ q.extra = cl[c].extra /\ q.retry = cl[c].retry /\ q.timer = cl[c].timer
    BY <1>1 DEF ClientType
  <2>3. cl' = [cl EXCEPT ![c] = q] /\ UNCHANGED <<dc, active, on_secret, up, conf>>
    BY <1>4 DEF ClientData
  <2> HIDE DEF q
  <2> QED BY <1>2, <2>1, <2>2, <2>3
<1>5. CASE ClientRun(c)
  <2>1. PICK over \in BOOLEAN :
          /\ cl' = [cl EXCEPT ![c] = tcp_direct_client_parse_execute(c, over)]
          /\ UNCHANGED <<dc, active, on_secret, up, conf>>
    BY <1>5 DEF ClientRun, Undefined
  <2> DEFINE r == [cl[c] EXCEPT !.sig = FALSE]
             q == tcp_direct_client_parse_execute(c, over)
  <2>2. r \in ClientType /\ r.st = cl[c].st /\ r.extra = cl[c].extra /\ r.retry = cl[c].retry /\ r.timer = cl[c].timer
    <3>1. \A v \in BOOLEAN : [cl[c] EXCEPT !.sig = v] \in ClientType
      BY <1>1 DEF ClientType
    <3>2. r \in ClientType
      BY <3>1
    <3>3. r.st = cl[c].st /\ r.extra = cl[c].extra /\ r.retry = cl[c].retry /\ r.timer = cl[c].timer
      BY <1>1 DEF ClientType
    <3> QED BY <3>2, <3>3
  <2> HIDE DEF r
  <2>3. q \in {r, [r EXCEPT !.err = r.retry = 0], [r EXCEPT !.pend = over, !.err = over]}
    BY DEF tcp_direct_client_parse_execute, r
  <2>4. [r EXCEPT !.err = r.retry = 0] \in ClientType
    <3>1. (r.retry = 0) \in BOOLEAN
      OBVIOUS
    <3> QED BY <2>2, <3>1, Fields
  <2>5. [r EXCEPT !.pend = over, !.err = over] \in ClientType
    BY <2>2 DEF ClientType
  <2>6. \A v : /\ [r EXCEPT !.err = v].st = r.st /\ [r EXCEPT !.err = v].extra = r.extra
               /\ [r EXCEPT !.err = v].retry = r.retry /\ [r EXCEPT !.err = v].timer = r.timer
    BY <2>2 DEF ClientType
  <2>7. LET p == [r EXCEPT !.pend = over, !.err = over]
        IN  p.st = r.st /\ p.extra = r.extra /\ p.retry = r.retry /\ p.timer = r.timer
    BY <2>2 DEF ClientType
  <2>8. q \in ClientType /\ q.st = r.st /\ q.extra = r.extra /\ q.retry = r.retry /\ q.timer = r.timer
    <3>1. CASE q = r
      BY <2>2, <3>1
    <3>2. CASE q = [r EXCEPT !.err = r.retry = 0]
      BY <2>4, <2>6, <3>2
    <3>3. CASE q = [r EXCEPT !.pend = over, !.err = over]
      BY <2>5, <2>7, <3>3
    <3> HIDE DEF q
    <3> QED BY <2>3, <3>1, <3>2, <3>3
  <2> HIDE DEF q
  <2> QED BY <1>2, <2>1, <2>2, <2>8 DEF q
<1> QED BY <1>3, <1>4, <1>5

-----------------------------------------------------------------------------
(* The steps of a DC connection *)

(* A DC connection that goes on, or is told to fail.                       *)
LEMMA DcPairs ==
  ASSUME PairInv, NEW d \in DCs,
         tcp_direct_dc_connected(d) \/ Socks5Done(d) \/ \E why \in {"net", "us"} : DcFail(d, why)
  PROVE  PairInv' /\ UNCHANGED <<active, on_secret, up, conf>> /\ \A b \in Clients : cl'[b].st = cl[b].st
<1>1. dc[d] \in DcType /\ Live(d) /\ UNCHANGED <<active, on_secret, up, conf>>
  BY DEF PairInv, DirectTypeOK, tcp_direct_dc_connected, Socks5Done, DcFail, Alive, Live
<1>2. /\ cl' \in [Clients -> ClientType]
      /\ \A b \in Clients : /\ cl'[b].st = cl[b].st /\ cl'[b].extra = cl[b].extra
                            /\ cl'[b].err = cl[b].err /\ cl'[b].retry = cl[b].retry /\ cl'[b].timer = cl[b].timer
  <2>1. CASE cl' = cl
    BY <2>1 DEF PairInv, DirectTypeOK
  <2>2. CASE cl' # cl
    <3> DEFINE c == dc[d].extra
               q == [cl[c] EXCEPT !.sig = TRUE]
    <3>1. cl' = [cl EXCEPT ![c] = q] /\ c \in Clients
      BY <1>1, <2>2 DEF tcp_direct_dc_connected, Socks5Done, DcFail, tcp_direct_dc_send_obfs2_init, PairInv, DcHeld
    <3>2. cl[c] \in ClientType
      BY <3>1 DEF PairInv, DirectTypeOK
    <3>3. q \in ClientType
      <4>1. \A v \in BOOLEAN : [cl[c] EXCEPT !.sig = v] \in ClientType
        BY <3>2 DEF ClientType
      <4> QED BY <4>1
    <3>4. /\ q.st = cl[c].st /\ q.extra = cl[c].extra /\ q.err = cl[c].err
          /\ q.retry = cl[c].retry /\ q.timer = cl[c].timer
      BY <3>2 DEF ClientType
    <3> HIDE DEF q, c
    <3>5. cl' \in [Clients -> ClientType] /\ cl'[c] = q /\ \A b \in Clients \ {c} : cl'[b] = cl[b]
      BY <3>1, <3>3, SetClient DEF PairInv
    <3> QED BY <3>1, <3>4, <3>5
  <2> QED BY <2>1, <2>2
<1>3. /\ dc' \in [DCs -> DcType]
      /\ \A e \in DCs : \/ dc'[e] = dc[e]
                        \/ /\ Live(e) /\ Live(e)'
                           /\ dc'[e].extra = dc[e].extra /\ dc'[e].refs = dc[e].refs
  <2>1. ASSUME NEW q \in DcType, dc' = [dc EXCEPT ![d] = q], q.st \in {"connecting", "socks", "ready"},
               q.extra = dc[d].extra, q.refs = dc[d].refs
        PROVE  <1>3!1 /\ <1>3!2
    BY <1>1, <2>1, SetDc DEF PairInv, Live
  <2>2. ASSUME NEW s \in {"socks", "ready"}, dc' = [dc EXCEPT ![d].st = s]
        PROVE  <1>3!1 /\ <1>3!2
    <3> DEFINE q == [dc[d] EXCEPT !.st = s]
    <3>1. q \in DcType /\ q.st = s /\ q.extra = dc[d].extra /\ q.refs = dc[d].refs
      BY <1>1, <2>2 DEF DcType
    <3>2. dc' = [dc EXCEPT ![d] = q]
      BY <2>2
    <3> HIDE DEF q
    <3> QED BY <2>1, <2>2, <3>1, <3>2
  <2>3. ASSUME NEW why \in {"net", "us"}, dc' = [dc EXCEPT ![d] = fail_connection(@, why)]
        PROVE  <1>3!1 /\ <1>3!2
    <3> DEFINE q == fail_connection(dc[d], why)
    <3>1. q \in DcType /\ q.st = dc[d].st /\ q.extra = dc[d].extra /\ q.refs = dc[d].refs
      BY <1>1, <2>3 DEF DcType, fail_connection
    <3>2. dc' = [dc EXCEPT ![d] = q]
      BY <2>3
    <3> HIDE DEF q
    <3> QED BY <1>1, <2>1, <2>3, <3>1, <3>2 DEF Live
  <2> QED
    BY <2>2, <2>3 DEF tcp_direct_dc_connected, Socks5Done, DcFail, tcp_direct_dc_send_obfs2_init
<1>4. DirectTypeOK'
  BY <1>1, <1>2, <1>3 DEF PairInv, DirectTypeOK
<1>5. \A b \in Clients : Open(b)' /\ cl[b].extra = None => cl'[b].retry > 0 /\ cl'[b].timer
  BY <1>2 DEF PairInv, PairsHold, Open
<1> QED BY <1>1, <1>2, <1>3, <1>4, <1>5, KeepsPairs

(* tcp_direct_close of a DC connection *)
LEMMA CloseDcPairs ==
  ASSUME PairInv, NEW d \in DCs, CloseDc(d)
  PROVE  PairInv' /\ UNCHANGED <<active, on_secret, up, conf>> /\ \A b \in Clients : cl'[b].st = cl[b].st
<1> DEFINE c == dc[d].extra
           closed == Decref([dc[d] EXCEPT !.st = "closed", !.extra = None])
<1>1. Live(d) /\ dc[d] \in DcType
  BY DEF PairInv, DirectTypeOK, CloseDc, Live, DcType
<1>2. c \in Clients /\ cl[c] \in ClientType /\ dc[d].refs \in {1, 2}
  BY <1>1 DEF PairInv, DirectTypeOK, DcHeld
<1>3. closed \in DcType
  <2> DEFINE x == [dc[d] EXCEPT !.st = "closed", !.extra = None]
  <2>1. x \in DcType /\ x.refs \in {1, 2}
    BY <1>1, <1>2 DEF DcType
  <2>2. closed = IF x.st = "closed" /\ x.refs = 1 THEN FreeDc ELSE [x EXCEPT !.refs = x.refs - 1]
    BY DEF Decref
  <2>3. \A y \in DcType : y.refs = 2 => [y EXCEPT !.refs = y.refs - 1] \in DcType
    BY SMT DEF DcType
  <2>4. x.st = "closed"
    BY <1>1 DEF DcType
  <2> HIDE DEF x
  <2> QED BY <2>1, <2>2, <2>3, <2>4, Records
<1>4. dc' = [dc EXCEPT ![d] = closed] /\ UNCHANGED <<active, on_secret, up, conf>>
  BY DEF CloseDc, Detach, TearDown
<1>5. dc' \in [DCs -> DcType] /\ dc'[d] = closed /\ \A e \in DCs \ {d} : dc'[e] = dc[e]
  <2> HIDE DEF closed
  <2> QED BY <1>3, <1>4, SetDc DEF PairInv
<1>6. PICK q \in ClientType :
        /\ cl' = [cl EXCEPT ![c] = q] /\ q.st = cl[c].st
        /\ \/ q.extra = None /\ q.retry > 0 /\ q.timer
           \/ q.extra = cl[c].extra /\ q.err
  <2>1. CASE dc[d].st # "ready" /\ cl[c].retry < MaxRetries
    <3> DEFINE r == [cl[c] EXCEPT !.extra = None]
               q == direct_schedule_retry(r, cl[c].retry)
    <3>1. r \in ClientType /\ r.st = cl[c].st /\ r.extra = None
      BY <1>2, Fields, SMT
    <3>2. cl[c].retry \in 0 .. MaxRetries
      BY <1>2 DEF ClientType
    <3> HIDE DEF r
    <3>3. q \in ClientType /\ q.st = r.st /\ q.extra = r.extra /\ q.retry > 0 /\ q.timer
      BY <2>1, <3>1, <3>2, Retry
    <3>4. cl' = [cl EXCEPT ![c] = q]
      BY <2>1 DEF CloseDc, Detach, r
    <3> HIDE DEF q
    <3> QED BY <3>1, <3>3, <3>4
  <2>2. CASE ~ (dc[d].st # "ready" /\ cl[c].retry < MaxRetries)
    <3> DEFINE q == [cl[c] EXCEPT !.err = TRUE]
    <3>1. q \in ClientType
      BY <1>2, Fields
    <3>2. q.st = cl[c].st /\ q.extra = cl[c].extra /\ q.err
      BY <1>2, Fields
    <3>3. cl' = [cl EXCEPT ![c] = q]
      BY <2>2 DEF CloseDc, TearDown
    <3> HIDE DEF q
    <3> QED BY <3>1, <3>2, <3>3
  <2> QED BY <2>1, <2>2
<1> HIDE DEF c
<1>7. cl' \in [Clients -> ClientType] /\ cl'[c] = q /\ \A b \in Clients \ {c} : cl'[b] = cl[b]
  BY <1>2, <1>6, SetClient DEF PairInv
<1>8. DirectTypeOK'
  BY <1>4, <1>5, <1>7 DEF PairInv, DirectTypeOK
<1>9. PairInv'
  <2>1. c = dc[d].extra
    BY DEF c
  <2>2. /\ cl'[c].st = cl[c].st
        /\ \/ cl'[c].extra = None /\ cl'[c].retry > 0 /\ cl'[c].timer
           \/ cl'[c].extra = cl[c].extra /\ cl'[c].err
    BY <1>6, <1>7
  <2> QED BY <1>1, <1>5, <1>7, <1>8, <2>1, <2>2, ClosesDc
<1> QED BY <1>4, <1>6, <1>7, <1>9

-----------------------------------------------------------------------------
(* The process starts, or has been started again.                          *)
LEMMA Fresh == DirectInit => DirectInv
<1> SUFFICES ASSUME DirectInit PROVE DirectInv
  OBVIOUS
<1> USE DEF DirectInit
<1>1. DirectTypeOK
  BY Records, SMT DEF DirectTypeOK
<1>2. PairsHold /\ ClientLinks /\ DcHeld
  BY Records, DirectAssumption DEF PairsHold, ClientLinks, DcHeld, Open, Live, FreeDc
<1>3. Direct = {} /\ Counted = {}
  BY Records DEF Direct, Counted
<1> QED BY <1>1, <1>2, <1>3, FS_EmptySet, SMT DEF DirectInv, PairInv, CountInv

(* So it is after a step that leads to such a state.                       *)
LEMMA FreshAgain == (DirectInit => DirectInv)'
  BY Fresh, PTL

(* A step in which no client changes its state keeps the counts right.     *)
LEMMA KeepsCounts ==
  ASSUME PairInv, CountInv, \A b \in Clients : cl'[b].st = cl[b].st,
         active' >= active, on_secret' = on_secret, up' => up, conf' = conf, active' \in Nat
  PROVE  CountInv'
<1>1. Direct' = Direct /\ Counted' = Counted
  BY DEF Direct, Counted
<1>2. Direct \subseteq Clients /\ Cardinality(Direct) \in Nat
  BY DirectAssumption, FS_Subset, FS_CardinalityType DEF Direct
<1> QED BY <1>1, <1>2, SMT DEF CountInv, PairInv, DirectTypeOK

(* One client enters or leaves.                                            *)
LEMMA ClientSets ==
  ASSUME NEW c \in Clients, \A b \in Clients \ {c} : cl'[b] = cl[b]
  PROVE  /\ IsFiniteSet(Direct) /\ IsFiniteSet(Counted)
         /\ Cardinality(Direct) \in Nat /\ Cardinality(Counted) \in Nat
         /\ Direct' = IF cl'[c].st = "direct" THEN Direct \cup {c} ELSE Direct \ {c}
         /\ Counted' = IF cl'[c].st \in {"ext", "direct"} THEN Counted \cup {c} ELSE Counted \ {c}
         /\ c \in Direct <=> cl[c].st = "direct"
         /\ c \in Counted <=> cl[c].st \in {"ext", "direct"}
<1>1. Direct \subseteq Clients /\ Counted \subseteq Clients
  BY DEF Direct, Counted
<1>2. IsFiniteSet(Direct) /\ IsFiniteSet(Counted)
  BY <1>1, DirectAssumption, FS_Subset
<1>3. Cardinality(Direct) \in Nat /\ Cardinality(Counted) \in Nat
  BY <1>2, FS_CardinalityType
<1> QED BY <1>2, <1>3 DEF Direct, Counted

(* direct_connect_to_dc counts the client in.                              *)
LEMMA ConnectCounts ==
  ASSUME PairInv, CountInv, NEW c \in Clients, direct_connect_to_dc(c)
  PROVE  CountInv'
<1>1. /\ on_secret' = on_secret + 1 /\ \A b \in Clients \ {c} : cl'[b] = cl[b]
      /\ \/ cl'[c].st = "direct" /\ (active' = active + 1 \/ conf.sync)
         \/ cl'[c].st = "ext" /\ active' = active
  BY ConnectPairs
<1>2. up /\ UNCHANGED <<up, conf>> /\ cl[c].st \in {"new", "closed"}
  BY DEF direct_connect_to_dc, NoClient
<1>3. /\ IsFiniteSet(Direct) /\ IsFiniteSet(Counted)
      /\ Cardinality(Direct) \in Nat /\ Cardinality(Counted) \in Nat
      /\ c \notin Direct /\ c \notin Counted
  BY <1>1, <1>2, ClientSets
<1>4. Cardinality(Counted') = Cardinality(Counted) + 1
  <2>1. Counted' = Counted \cup {c}
    BY <1>1, ClientSets
  <2> QED BY <1>3, <2>1, FS_AddElement
<1>5. CASE conf.sync
  BY <1>2, <1>5 DEF CountInv
<1>6. CASE ~ conf.sync /\ cl'[c].st = "direct"
  <2>1. Direct' = Direct \cup {c}
    BY <1>1, <1>6, ClientSets
  <2>2. Cardinality(Direct') = Cardinality(Direct) + 1
    BY <1>3, <2>1, FS_AddElement
  <2>3. active' = active + 1 /\ active \in Nat
    BY <1>1, <1>6 DEF PairInv, DirectTypeOK
  <2> QED BY <1>1, <1>2, <1>3, <1>4, <1>6, <2>2, <2>3, SMT DEF CountInv
<1>7. CASE ~ conf.sync /\ cl'[c].st = "ext"
  <2>1. Direct' = Direct
    <3>1. Direct' = Direct \ {c}
      BY <1>1, <1>7, ClientSets
    <3> QED BY <1>3, <3>1
  <2>2. active' = active
    BY <1>1, <1>7
  <2> QED BY <1>1, <1>2, <1>3, <1>4, <1>7, <2>1, <2>2 DEF CountInv
<1> QED BY <1>1, <1>5, <1>6, <1>7

(* A close counts a client out: the guard on active holds.                 *)
LEMMA CloseCounts ==
  ASSUME PairInv, CountInv, NEW c \in Clients, \A b \in Clients \ {c} : cl'[b] = cl[b],
         cl'[c].st = "closed", up, up' = up, conf' = conf,
         \/ cl[c].st = "direct" /\ CountedOut
         \/ cl[c].st = "ext" /\ active' = active /\ on_secret' = on_secret - 1
  PROVE  CountInv'
<1>1. /\ IsFiniteSet(Direct) /\ IsFiniteSet(Counted)
      /\ Cardinality(Direct) \in Nat /\ Cardinality(Counted) \in Nat
      /\ c \in Counted /\ (c \in Direct <=> cl[c].st = "direct")
      /\ Direct' = Direct \ {c} /\ Counted' = Counted \ {c}
  BY ClientSets
<1>2. Cardinality(Counted') = Cardinality(Counted) - 1
  BY <1>1, FS_RemoveElement
<1>3. active \in Nat /\ on_secret \in Int
  BY DEF PairInv, DirectTypeOK
<1>4. CASE cl[c].st = "direct" /\ CountedOut
  <2>1. Cardinality(Direct') = Cardinality(Direct) - 1
    BY <1>1, <1>4, FS_RemoveElement
  <2>2. Cardinality(Direct) # 0
    BY <1>1, <1>4, FS_EmptySet
  <2> QED BY <1>1, <1>2, <1>3, <1>4, <2>1, <2>2, SMT DEF CountInv, CountedOut
<1>5. CASE cl[c].st = "ext" /\ active' = active /\ on_secret' = on_secret - 1
  <2>1. Direct' = Direct
    BY <1>1, <1>5
  <2> QED BY <1>1, <1>2, <1>3, <1>5, <2>1 DEF CountInv
<1> QED BY <1>4, <1>5

-----------------------------------------------------------------------------
(* The conjunction is inductive.                                           *)
LEMMA DirectInductive ==
  ASSUME DirectInv, [DirectNext]_directVars
  PROVE  DirectInv'
<1> USE DEF DirectInv
<1>1. ASSUME NEW c \in Clients, direct_connect_to_dc(c)  PROVE DirectInv'
  BY <1>1, ConnectPairs, ConnectCounts
<1>2. ASSUME NEW c \in Clients, CloseExt(c)  PROVE DirectInv'
  <2>1. PairInv' /\ cl'[c].st = "closed" /\ \A b \in Clients \ {c} : cl'[b] = cl[b]
    BY <1>2, CloseExtPairs
  <2>2. cl[c].st = "ext" /\ active' = active /\ on_secret' = on_secret - 1 /\ up /\ up' = up /\ conf' = conf
    BY <1>2 DEF CloseExt
  <2> QED BY <2>1, <2>2, CloseCounts
<1>3. ASSUME NEW c \in Clients, CloseClient(c), up'  PROVE DirectInv'
  <2>1. /\ PairInv' /\ cl[c].st = "direct" /\ cl'[c].st = "closed" /\ CountedOut /\ conf' = conf
        /\ \A b \in Clients \ {c} : cl'[b] = cl[b]
    BY <1>3, CloseClientPairs
  <2>2. up /\ up' = up
    BY <1>3 DEF CloseClient, Undefined
  <2> QED BY <2>1, <2>2, CloseCounts
<1>4. ASSUME PairInv', active' \in {active, active + 1}, UNCHANGED <<on_secret, up, conf>>,
             \A b \in Clients : cl'[b].st = cl[b].st
      PROVE  DirectInv'
  <2>1. active' >= active /\ active' \in Nat
    BY <1>4, SMT DEF PairInv, DirectTypeOK
  <2> QED BY <1>4, <2>1, KeepsCounts
<1>5. ASSUME NEW c \in Clients, ClientFail(c) \/ ClientData(c) \/ ClientRun(c), up'  PROVE DirectInv'
  BY <1>4, <1>5, ClientPairs
<1>6. ASSUME NEW c \in Clients, Alarm(c)  PROVE DirectInv'
  BY <1>4, <1>6, AlarmPairs
<1>7. ASSUME NEW d \in DCs, DcStep(d)  PROVE DirectInv'
  BY <1>4, <1>7, DcPairs, CloseDcPairs DEF DcStep
<1>8. ASSUME Undefined  PROVE DirectInv'
  <2>1. UNCHANGED <<cl, dc, active, on_secret, conf>> /\ ~ up'
    BY <1>8 DEF Undefined
  <2>2. DirectTypeOK'
    BY <1>8 DEF Undefined, PairInv, DirectTypeOK
  <2>3. PairsHold' /\ ClientLinks' /\ DcHeld'
    BY <2>1 DEF PairInv, PairsHold, ClientLinks, DcHeld, Open, Live
  <2> QED BY <2>1, <2>2, <2>3 DEF PairInv, CountInv
<1>9. ASSUME UNCHANGED directVars  PROVE DirectInv'
  BY <1>9 DEF directVars, PairInv, CountInv, DirectTypeOK, PairsHold, ClientLinks, DcHeld, Open, Live, Direct, Counted
<1>10. ASSUME Restart  PROVE DirectInv'
  <2>1. DirectInit'
    BY <1>10 DEF Restart, DirectInit, PairInv, DirectTypeOK
  <2> QED BY <2>1, FreshAgain
<1>11. ASSUME NEW c \in Clients, ClientRun(c) \/ CloseClient(c), ~ up'  PROVE DirectInv'
  BY <1>8, <1>11 DEF ClientRun, CloseClient
<1>12. ASSUME NEW c \in Clients, ClientFail(c) \/ ClientData(c)  PROVE DirectInv'
  <2>1. up'
    BY <1>12, SMT DEF ClientFail, ClientData
  <2> QED BY <1>5, <1>12, <2>1
<1>13. ASSUME NEW c \in Clients, ClientRun(c) \/ CloseClient(c)  PROVE DirectInv'
  BY <1>3, <1>5, <1>11, <1>13
<1>14. ASSUME NEW c \in Clients, RelayClientStep(c)  PROVE DirectInv'
  BY <1>1, <1>2, <1>6, <1>9, <1>12, <1>13, <1>14 DEF RelayClientStep, Reject
<1> QED
  BY <1>7, <1>9, <1>10, <1>14 DEF DirectNext

(* In every state of direct mode the two ends of a pair agree, for any     *)
(* number of clients, DC connections and retries (tcp_direct_close,        *)
(* direct_retry_dc_connection).                                            *)
THEOREM PairsAlwaysHold == DirectSpec => [](DirectTypeOK /\ PairsHold)
<1>1. DirectInv => DirectTypeOK /\ PairsHold
  BY DEF DirectInv, PairInv
<1> QED BY <1>1, Fresh, DirectInductive, PTL DEF DirectSpec

(* Every counted client is counted out once: CountedOut of                 *)
(* tcp_direct_close and mtproto_ext_rpc_close undo the increment of        *)
(* tcp_rpcs_compact_parse_execute.                                         *)
THEOREM CountAlwaysReturns == DirectSpec => []CountReturns
<1>1. DirectInv => CountReturns
  BY DEF DirectInv, CountInv, CountReturns
<1> QED BY <1>1, Fresh, DirectInductive, PTL DEF DirectSpec
=============================================================================
