--------------------------- MODULE ExtConnProofs ---------------------------
(***************************************************************************)
(* The table of external connections is right, for any number of           *)
(* connections, descriptors, packets and queued jobs: ExtInv is inductive. *)
(***************************************************************************)
EXTENDS ExtConn, TLAPS

(* Most leaves are first-order; the ones with arithmetic cite SMT.          *)
USE ZenonT(60)

Jobs == {jobs[i] : i \in 1..Len(jobs)}
Events == {events[i] : i \in 1..Len(events)}
Closing(g) == [type |-> "close", who |-> g] \in Events
Born(g) == con[g].st # "none"

(* A connection has its kind and its descriptor for life; an open one has  *)
(* its socket, and only connections to middle proxies have lists.          *)
Lives ==
  \A g \in Conns :
    /\ ~ Born(g) => con[g] = Unborn /\ asked[g] = {}
    /\ Born(g) => con[g].kind \in {"client", "middle"} /\ con[g].fd \in Fds
    /\ con[g].st = "open" => con[g].sock
    /\ con[g].tag => con[g].kind = "middle"

(* Connections that are not released differ in their descriptors.          *)
FdsDiffer ==
  \A g, h \in Conns :
    Born(g) /\ Born(h) /\ ~ Released(g) /\ ~ Released(h) /\ con[g].fd = con[h].fd => g = h

(* What is queued refers to connections that exist; a close is announced   *)
(* once the connection is closed, after everything announced before.       *)
Announced ==
  /\ \A j \in Jobs \ {N} : Born(j.conn) /\ (j.op = "query" => con[j.conn].kind = "client")
  /\ \A e \in Events : Born(e.who) /\ (e.type = "close" => con[e.who].st = "closed")
  /\ \A i \in 1..Len(events) :
       events[i].type = "ready" /\ con[events[i].who].st = "closed" =>
         \E k \in i+1..Len(events) : events[k] = [type |-> "close", who |-> events[i].who]
  /\ \A d \in Conns : con[d].tag => con[d].st # "closed" \/ Closing(d)

(* An id that has been given out.                                          *)
Given(id) == id[1] \in Fds /\ id[2] <= next_id[id[1]]

(* An answer with this id finds no entry but the sender's, or one whose    *)
(* client is gone.                                                         *)
Owned(id, g) ==
  \A f \in Fds : ext[f] # NoExt /\ ext[f].id = id => ext[f].in_gen = g \/ ~ con[ext[f].in_gen].sock

IdsKept ==
  /\ \A f \in Fds : ext[f] # NoExt =>
       /\ ext[f].in_gen \in Conns /\ con[ext[f].in_gen].kind = "client"
       /\ ext[f].out \in Conns /\ Given(ext[f].id) /\ ext[f].id[1] = f
  /\ \A d \in Conns : \A q \in asked[d] : Born(q.of) /\ Given(q.id) /\ Owned(q.id, q.of)
  /\ \A j \in Jobs \ {N} : j.op # "query" => Given(j.id) /\ Owned(j.id, j.of)

(* A client that lost a query has no entry any more.                       *)
DroppedOut == \A g \in Conns : con[g].dropped /\ ~ Released(g) => ext[con[g].fd] = NoExt

ExtInv ==
  ExtTypeOK /\ Lives /\ FdsDiffer /\ Announced /\ IdsKept /\ DroppedOut /\ TableKept /\ NoCrossTalk

-----------------------------------------------------------------------------
(* Sequences *)

(* What a queue holds after something was appended to it.                  *)
LEMMA AppendHolds ==
  ASSUME NEW T, NEW s \in Seq(T), NEW x \in T
  PROVE  /\ Append(s, x) \in Seq(T) /\ Len(Append(s, x)) = Len(s) + 1
         /\ \A i \in 1..Len(s) : Append(s, x)[i] = s[i]
         /\ Append(s, x)[Len(s) + 1] = x
         /\ {Append(s, x)[i] : i \in 1..Len(Append(s, x))} = {s[i] : i \in 1..Len(s)} \cup {x}
<1>1. Append(s, x) \in Seq(T) /\ Len(Append(s, x)) = Len(s) + 1
  BY SMT
<1>2. (\A i \in 1..Len(s) : Append(s, x)[i] = s[i]) /\ Append(s, x)[Len(s) + 1] = x
  BY SMT
<1>3. \A i \in 1..Len(Append(s, x)) : i \in 1..Len(s) \/ i = Len(s) + 1
  BY SMT
<1>4. (\A i \in 1..Len(s) : i \in 1..Len(Append(s, x))) /\ Len(s) + 1 \in 1..Len(Append(s, x))
  BY SMT
<1>5. {Append(s, x)[i] : i \in 1..Len(Append(s, x))} = {s[i] : i \in 1..Len(s)} \cup {x}
  BY <1>2, <1>3, <1>4
<1> QED BY <1>1, <1>2, <1>5

(* What it holds after its head was taken.                                 *)
LEMMA TailHolds ==
  ASSUME NEW T, NEW s \in Seq(T), s # <<>>
  PROVE  /\ Tail(s) \in Seq(T) /\ Len(Tail(s)) = Len(s) - 1 /\ Len(s) \in Nat \ {0}
         /\ \A i \in 1..Len(Tail(s)) : Tail(s)[i] = s[i + 1] /\ i + 1 \in 1..Len(s)
         /\ Head(s) = s[1] /\ Head(s) \in T
         /\ Head(s) \in {s[i] : i \in 1..Len(s)}
         /\ {s[i] : i \in 1..Len(s)} = {Tail(s)[i] : i \in 1..Len(Tail(s))} \cup {Head(s)}
<1>1. Tail(s) \in Seq(T) /\ Len(Tail(s)) = Len(s) - 1 /\ Len(s) \in Nat \ {0}
  BY SMT
<1>2. \A i \in 1..Len(Tail(s)) : Tail(s)[i] = s[i + 1] /\ i + 1 \in 1..Len(s)
  BY SMT
<1>3. Head(s) = s[1] /\ Head(s) \in T /\ 1 \in 1..Len(s)
  BY SMT
<1>4. \A i \in 1..Len(s) : i = 1 \/ (i - 1 \in 1..Len(Tail(s)) /\ Tail(s)[i - 1] = s[i])
  BY SMT
<1>5. {s[i] : i \in 1..Len(s)} \subseteq {Tail(s)[i] : i \in 1..Len(Tail(s))} \cup {Head(s)}
  BY <1>3, <1>4
<1>6. {Tail(s)[i] : i \in 1..Len(Tail(s))} \cup {Head(s)} \subseteq {s[i] : i \in 1..Len(s)}
  BY <1>2, <1>3, SMT
<1>7. Head(s) \in {s[i] : i \in 1..Len(s)}
  BY <1>3
<1> QED BY <1>1, <1>2, <1>3, <1>5, <1>6, <1>7

-----------------------------------------------------------------------------
(* Connections *)

(* fail_connection of a set of connections changes the state of those that *)
(* are open and nothing else.                                              *)
LEMMA FailedOnly ==
  ASSUME con \in [Conns -> ConType], NEW S
  PROVE  /\ Failed(con, S) \in [Conns -> ConType]
         /\ \A g \in Conns :
              /\ Failed(con, S)[g].kind = con[g].kind /\ Failed(con, S)[g].fd = con[g].fd
              /\ Failed(con, S)[g].sock = con[g].sock /\ Failed(con, S)[g].tag = con[g].tag
              /\ Failed(con, S)[g].dropped = con[g].dropped /\ Failed(con, S)[g].forwarded = con[g].forwarded
              /\ Failed(con, S)[g].st = IF g \in S /\ con[g].st = "open" THEN "failed" ELSE con[g].st
              /\ con[g].st # "open" => Failed(con, S)[g] = con[g]
<1>1. ASSUME NEW r \in ConType
      PROVE  /\ [r EXCEPT !.st = "failed"] \in ConType
             /\ [r EXCEPT !.st = "failed"].kind = r.kind /\ [r EXCEPT !.st = "failed"].fd = r.fd
             /\ [r EXCEPT !.st = "failed"].sock = r.sock /\ [r EXCEPT !.st = "failed"].tag = r.tag
             /\ [r EXCEPT !.st = "failed"].dropped = r.dropped /\ [r EXCEPT !.st = "failed"].forwarded = r.forwarded
             /\ [r EXCEPT !.st = "failed"].st = "failed"
  <2>1. [r EXCEPT !.st = "failed"] \in ConType
    BY DEF ConType
  <2>2. /\ [r EXCEPT !.st = "failed"].kind = r.kind /\ [r EXCEPT !.st = "failed"].fd = r.fd
        /\ [r EXCEPT !.st = "failed"].sock = r.sock /\ [r EXCEPT !.st = "failed"].tag = r.tag
    BY DEF ConType
  <2>3. /\ [r EXCEPT !.st = "failed"].dropped = r.dropped /\ [r EXCEPT !.st = "failed"].forwarded = r.forwarded
        /\ [r EXCEPT !.st = "failed"].st = "failed"
    BY DEF ConType
  <2> QED BY <2>1, <2>2, <2>3
<1>2. \A g \in Conns : Failed(con, S)[g] =
        IF g \in S /\ con[g].st = "open" THEN [con[g] EXCEPT !.st = "failed"] ELSE con[g]
  BY DEF Failed
<1>3. \A g \in Conns : Failed(con, S)[g] \in ConType
  BY <1>1, <1>2
<1>4. Failed(con, S) \in [Conns -> ConType]
  BY <1>3 DEF Failed
<1>5. ASSUME NEW g \in Conns
      PROVE  /\ Failed(con, S)[g].kind = con[g].kind /\ Failed(con, S)[g].fd = con[g].fd
             /\ Failed(con, S)[g].sock = con[g].sock /\ Failed(con, S)[g].tag = con[g].tag
             /\ Failed(con, S)[g].dropped = con[g].dropped /\ Failed(con, S)[g].forwarded = con[g].forwarded
             /\ Failed(con, S)[g].st = IF g \in S /\ con[g].st = "open" THEN "failed" ELSE con[g].st
             /\ con[g].st # "open" => Failed(con, S)[g] = con[g]
  <2>1. CASE g \in S /\ con[g].st = "open"
    <3>1. Failed(con, S)[g] = [con[g] EXCEPT !.st = "failed"]
      BY <1>2, <2>1
    <3> QED BY <1>1, <2>1, <3>1, SMT
  <2>2. CASE ~ (g \in S /\ con[g].st = "open")
    <3>1. Failed(con, S)[g] = con[g]
      BY <1>2, <2>2
    <3> QED BY <2>2, <3>1
  <2> QED BY <2>1, <2>2
<1> QED BY <1>4, <1>5

(* A connection that does not exist yet has no socket, no list and lost    *)
(* nothing.                                                                *)
LEMMA UnbornFields ==
  /\ Unborn \in ConType /\ Unborn.kind = "none"
  /\ ~ Unborn.sock /\ ~ Unborn.tag /\ ~ Unborn.dropped
  BY DEF Unborn, ConType

(* A step that changes one connection.                                     *)
LEMMA SetCon ==
  ASSUME con \in [Conns -> ConType], NEW g \in Conns, NEW r \in ConType, con' = [con EXCEPT ![g] = r]
  PROVE  con' \in [Conns -> ConType] /\ con'[g] = r /\ \A h \in Conns \ {g} : con'[h] = con[h]
  OBVIOUS

(* What may happen to connections, and to the queues, in a step that makes *)
(* no new connection.                                                      *)
Ageing ==
  /\ \A g \in Conns :
       /\ con'[g].kind = con[g].kind /\ con'[g].fd = con[g].fd
       /\ con'[g].sock => con[g].sock
       /\ con'[g].st = "open" => con[g].st = "open" /\ con'[g].sock
       /\ con[g].st = "closed" => con'[g].st = "closed"
       /\ Born(g) => Born(g)'
       /\ ~ Born(g) => con'[g] = con[g] /\ asked'[g] = {}
       /\ con'[g].tag => con[g].kind = "middle"
  /\ \A e \in Events' : e \in Events \/ (Born(e.who) /\ con[e.who].st # "closed")
  /\ \A j \in Jobs' : j \in Jobs \/ j = N \/ con[j.conn].st = "open"

(* A released connection stays so.                                         *)
LEMMA ReleasedStays ==
  ASSUME Ageing, NEW g \in Conns, Released(g)
  PROVE  Released(g)'
<1>1. con'[g].st = "closed" /\ ~ con'[g].sock
  BY DEF Ageing, Released
<1>2. \A e \in Events' : e.who # g
  BY DEF Ageing, Released, Events
<1>3. \A j \in Jobs' : j = N \/ j.conn # g
  BY DEF Ageing, Released, Jobs
<1> QED BY <1>1, <1>2, <1>3 DEF Released, Events, Jobs

(* Connections that grow older keep their descriptors apart.               *)
LEMMA AgeingKeeps ==
  ASSUME Lives, FdsDiffer, Ageing
  PROVE  Lives' /\ FdsDiffer'
<1>1. Lives'
  BY SMT DEF Lives, Ageing, Born
<1>2. FdsDiffer'
  <2> SUFFICES ASSUME NEW g \in Conns, NEW h \in Conns,
                      Born(g)', Born(h)', ~ Released(g)', ~ Released(h)', con'[g].fd = con'[h].fd
               PROVE  g = h
    BY DEF FdsDiffer
  <2>1. ~ Released(g) /\ ~ Released(h)
    BY ReleasedStays
  <2>2. Born(g) /\ Born(h) /\ con[g].fd = con[h].fd
    BY DEF Ageing, Born
  <2> QED BY <2>1, <2>2 DEF FdsDiffer
<1> QED BY <1>1, <1>2

-----------------------------------------------------------------------------
(* The table *)

(* A step that makes no entry and sends no query.                          *)
Shrinking ==
  /\ \A f \in Fds : ext'[f] = ext[f] \/ ext'[f] = NoExt
  /\ next_id' = next_id
  /\ \A d \in Conns : asked'[d] \subseteq asked[d]
  /\ \A j \in Jobs' \ {N} :
       j \in Jobs \/ j.op = "query" \/ \E d \in Conns : \E q \in asked[d] : j.id = q.id /\ j.of = q.of

(* Ids that are owned stay so while no entry is made.                      *)
LEMMA OwnedStays ==
  ASSUME ExtTypeOK, Ageing, IdsKept, \A f \in Fds : ext'[f] = ext[f] \/ ext'[f] = NoExt, NEW id, NEW g, Owned(id, g)
  PROVE  Owned(id, g)'
  BY SMT DEF Owned, Ageing, IdsKept

(* A step that makes no entry keeps ids owned.                             *)
LEMMA ShrinkingKeepsIds ==
  ASSUME ExtTypeOK, Ageing, Shrinking, IdsKept, Lives
  PROVE  IdsKept'
<1>1. ASSUME NEW f \in Fds, ext'[f] # NoExt
      PROVE  /\ ext'[f].in_gen \in Conns /\ con'[ext'[f].in_gen].kind = "client"
             /\ ext'[f].out \in Conns /\ Given(ext[f].id)' /\ ext'[f].id[1] = f
  <2>1. ext'[f] = ext[f] /\ next_id' = next_id
    BY <1>1 DEF Shrinking
  <2> QED BY <1>1, <2>1, SMT DEF IdsKept, Given, Ageing
<1>2. ASSUME NEW id, NEW g, Given(id) /\ Owned(id, g)  PROVE Given(id)' /\ Owned(id, g)'
  BY <1>2, OwnedStays DEF Shrinking, Given
<1>3. ASSUME NEW d \in Conns, NEW q \in asked'[d]  PROVE Born(q.of)' /\ Given(q.id)' /\ Owned(q.id, q.of)'
  <2>1. q \in asked[d] /\ q.of \in Conns
    BY <1>3, SMT DEF Shrinking, ExtTypeOK
  <2> QED BY <1>2, <2>1 DEF IdsKept, Ageing
<1>4. ASSUME NEW j \in Jobs' \ {N}, j.op # "query"  PROVE Given(j.id)' /\ Owned(j.id, j.of)'
  <2>1. CASE j \in Jobs
    BY <1>2, <1>4, <2>1 DEF IdsKept
  <2>2. CASE \E d \in Conns : \E q \in asked[d] : j.id = q.id /\ j.of = q.of
    BY <1>2, <2>2 DEF IdsKept
  <2> QED BY <1>4, <2>1, <2>2 DEF Shrinking
<1> QED BY <1>1, <1>3, <1>4 DEF IdsKept

(* A client that lost a query gets no entry while none is made.            *)
LEMMA ShrinkingKeepsDropped ==
  ASSUME Ageing, DroppedOut, \A f \in Fds : ext'[f] = ext[f] \/ ext'[f] = NoExt, Lives,
         \A g \in Conns : con'[g].dropped => con[g].dropped \/ ext'[con[g].fd] = NoExt
  PROVE  DroppedOut'
<1> SUFFICES ASSUME NEW g \in Conns, con'[g].dropped, ~ Released(g)'
             PROVE  ext'[con'[g].fd] = NoExt
  BY DEF DroppedOut
<1>1. ~ Released(g) /\ con'[g].fd = con[g].fd
  BY ReleasedStays DEF Ageing
<1>2. CASE con[g].dropped
  <2>1. ext[con[g].fd] = NoExt
    BY <1>1, <1>2 DEF DroppedOut
  <2>2. con[g].fd \in Fds
    BY <1>2, UnbornFields DEF Lives
  <2> QED BY <1>1, <2>1, <2>2, SMT
<1> QED BY <1>1, <1>2

ListsApart == \A d, e \in Conns : con[d].tag /\ con[e].tag /\ d # e => con[d].fd # con[e].fd

(* A connection with a list is not released: the notification of its close *)
(* would have closed the list.                                             *)
LEMMA TagsNotReleased == Lives /\ FdsDiffer /\ Announced => ListsApart
<1> SUFFICES ASSUME Lives, FdsDiffer, Announced PROVE ListsApart
  OBVIOUS
<1>1. ASSUME NEW d \in Conns, con[d].tag  PROVE Born(d) /\ ~ Released(d)
  <2>1. Born(d)
    BY <1>1, UnbornFields DEF Lives
  <2>2. con[d].st # "closed" \/ \E e \in Events : e.who = d
    BY <1>1 DEF Announced, Closing
  <2> QED BY <2>1, <2>2 DEF Released, Events
<1> QED BY <1>1 DEF FdsDiffer, ListsApart

(* So it is after a step.                                                  *)
LEMMA TagsNotReleasedNext == (Lives /\ FdsDiffer /\ Announced => ListsApart)'
  BY TagsNotReleased, PTL

(* While no entry is made the table stays right, if lists are closed after *)
(* their entries are gone and an entry goes with one of its ends.          *)
LEMMA ShrinkingKeepsTable ==
  ASSUME ExtTypeOK, Ageing, Shrinking, IdsKept, TableKept, (Lives /\ FdsDiffer /\ Announced)',
         \A f \in lru' : (f \in lru /\ ext'[f] # NoExt) \/ ext'[f].in_gen \in Conns,
         \A f \in Fds : ext'[f] # NoExt => con'[ext[f].out].tag,
         \A f \in Fds : ext[f] # NoExt /\ ext'[f] = NoExt =>
           con'[ext[f].in_gen].st # "open" \/ con'[ext[f].out].st # "open"
  PROVE  TableKept'
<1>1. \A f \in Fds : ext'[f] # NoExt => ext'[f] = ext[f]
  BY DEF Shrinking
<1>2. \A f \in Fds : ext'[f] # NoExt =>
        con'[ext'[f].out].tag /\ con'[ext'[f].in_gen].fd = f /\ ext'[f].in_gen # ext'[f].out
  BY <1>1, SMT DEF TableKept, IdsKept, Ageing
<1>3. \A d, e \in Conns : con'[d].tag /\ con'[e].tag /\ d # e => con'[d].fd # con'[e].fd
  BY TagsNotReleasedNext DEF ListsApart
<1>4. \A f \in lru' : ext'[f] # NoExt
  BY ExtAssumption, SMT DEF NoExt, Conns
<1>5. ASSUME NEW d \in Conns, NEW g \in Conns, NEW q \in asked'[d],
             q.of = g, q.owner = g, con'[g].st = "open", con'[d].st = "open"
      PROVE  ext'[con'[g].fd] = [in_gen |-> g, out |-> d, id |-> q.id]
  <2>1. q \in asked[d] /\ con[g].st = "open" /\ con[d].st = "open" /\ con'[g].fd = con[g].fd
    BY <1>5 DEF Shrinking, Ageing
  <2>2. ext[con[g].fd] = [in_gen |-> g, out |-> d, id |-> q.id]
    BY <1>5, <2>1, SMT DEF TableKept
  <2>3. con[g].fd \in Fds
    BY <1>5, <2>1 DEF Lives, Born
  <2>4. ext[con[g].fd] # NoExt
    BY <2>2, ExtAssumption, SMT DEF NoExt, Conns
  <2>5. ext'[con[g].fd] # NoExt
    BY <1>5, <2>2, <2>3, <2>4, SMT
  <2> QED BY <1>1, <2>1, <2>2, <2>3, <2>5
<1> QED BY <1>2, <1>3, <1>4, <1>5, SMT DEF TableKept

-----------------------------------------------------------------------------
(* Announcements *)

(* Queued jobs and events have their types.                                *)
LEMMA QueueTypes ==
  ASSUME ExtTypeOK
  PROVE  /\ \A j \in Jobs : j \in JobType
              /\ (j # N => j.conn \in Conns /\ j.of \in Conns /\ j.id \in Ids /\ j.op # "notify")
         /\ \A e \in Events : e \in EventType /\ e.who \in Conns /\ e = [type |-> e.type, who |-> e.who]
<1>1. \A j \in Jobs : j \in JobType
  BY SMT DEF ExtTypeOK, Jobs
<1>2. \A j \in JobType : j # N => j.conn \in Conns /\ j.of \in Conns /\ j.id \in Ids /\ j.op # "notify"
  BY DEF JobType
<1>3. \A e \in Events : e \in EventType
  BY SMT DEF ExtTypeOK, Events
<1>4. \A e \in EventType : e.who \in Conns /\ e = [type |-> e.type, who |-> e.who]
  BY SMT DEF EventType
<1> QED BY <1>1, <1>2, <1>3, <1>4

(* Nothing is announced and nobody is closed.                              *)
LEMMA NothingAnnounced ==
  ASSUME ExtTypeOK, Announced, Ageing, events' = events,
         \A g \in Conns : (con'[g].st = "closed" => con[g].st = "closed") /\ (con'[g].tag => con[g].tag),
         \A j \in Jobs' \ {N} :
           j \in Jobs \/ (j.conn \in Conns /\ Born(j.conn) /\ (j.op = "query" => con[j.conn].kind = "client"))
  PROVE  Announced'
<1>1. \A j \in Jobs' \ {N} : j.conn \in Conns /\ Born(j.conn)' /\ (j.op = "query" => con'[j.conn].kind = "client")
  BY QueueTypes, SMT DEF Announced, Ageing
<1>2. Events' = Events
  BY DEF Events
<1>3. \A e \in Events' : Born(e.who)' /\ (e.type = "close" => con'[e.who].st = "closed")
  BY <1>2, QueueTypes DEF Announced, Ageing
<1>4. ASSUME NEW i \in 1..Len(events'), events'[i].type = "ready" /\ con'[events'[i].who].st = "closed"
      PROVE  \E k \in i+1..Len(events') : events'[k] = [type |-> "close", who |-> events'[i].who]
  <2>1. events[i].who \in Conns
    BY QueueTypes DEF Events
  <2> QED BY <1>4, <2>1 DEF Announced
<1>5. \A d \in Conns : con'[d].tag => con'[d].st # "closed" \/ Closing(d)'
  BY <1>2 DEF Announced, Closing
<1> QED BY <1>1, <1>3, <1>4, <1>5 DEF Announced

(* Something is announced, a close in the step that closes the connection. *)
LEMMA OneAnnounced ==
  ASSUME ExtTypeOK, Announced, NEW g \in Conns, NEW t \in {"ready", "close"},
         notification_event_insert_conn(t, g),
         Born(g)', t = "close" <=> con'[g].st = "closed",
         \A h \in Conns : /\ Born(h) => Born(h)' /\ con'[h].kind = con[h].kind
                          /\ con[h].st = "closed" => con'[h].st = "closed"
                          /\ con'[h].st = "closed" => con[h].st = "closed" \/ h = g
                          /\ con'[h].tag => con[h].tag
  PROVE  /\ Announced' /\ jobs' \in Seq(JobType) /\ events' \in Seq(EventType)
         /\ Jobs' \ {N} = Jobs \ {N} /\ Jobs \subseteq Jobs' /\ Events' = Events \cup {[type |-> t, who |-> g]}
<1> DEFINE a == [type |-> t, who |-> g]
<1>1. a \in EventType /\ events \in Seq(EventType) /\ jobs \in Seq(JobType) /\ N \in JobType
  BY DEF EventType, ExtTypeOK, JobType
<1>2. /\ events' \in Seq(EventType) /\ Len(events') = Len(events) + 1 /\ Len(events) \in Nat
      /\ \A i \in 1..Len(events) : events'[i] = events[i]
      /\ events'[Len(events) + 1] = a
  BY <1>1, AppendHolds, SMT DEF notification_event_insert_conn
<1>3. Events' = Events \cup {a}
  BY <1>1, AppendHolds, SMT DEF notification_event_insert_conn, Events
<1>4. jobs' \in Seq(JobType) /\ Jobs' \ {N} = Jobs \ {N} /\ Jobs \subseteq Jobs'
  <2>1. CASE jobs' = jobs
    BY <1>1, <2>1 DEF Jobs
  <2>2. CASE jobs' = Append(jobs, N)
    <3>1. jobs' \in Seq(JobType)
      BY <1>1, <2>2, AppendHolds
    <3>2. Jobs' = Jobs \cup {N}
      BY <1>1, <2>2, AppendHolds, SMT DEF Jobs
    <3> QED BY <3>1, <3>2
  <2> QED BY <2>1, <2>2 DEF notification_event_insert_conn
<1>5. \A j \in Jobs' \ {N} : Born(j.conn)' /\ (j.op = "query" => con'[j.conn].kind = "client")
  BY <1>4, QueueTypes DEF Announced
<1>6. \A e \in Events' : Born(e.who)' /\ (e.type = "close" => con'[e.who].st = "closed")
  <2>1. \A e \in Events : Born(e.who)' /\ (e.type = "close" => con'[e.who].st = "closed")
    BY QueueTypes DEF Announced
  <2> QED BY <1>3, <2>1, SMT
<1>7. ASSUME NEW i \in 1..Len(events'), events'[i].type = "ready" /\ con'[events'[i].who].st = "closed"
      PROVE  \E k \in i+1..Len(events') : events'[k] = [type |-> "close", who |-> events'[i].who]
  <2>1. i \in 1..Len(events)
    <3>1. i \in 1..Len(events) \/ i = Len(events) + 1
      BY <1>2, <1>7, SMT
    <3> QED BY <1>2, <1>7, <3>1, SMT
  <2>2. events'[i] = events[i] /\ events[i] \in Events /\ events[i].who \in Conns
    BY <1>2, <2>1, QueueTypes DEF Events
  <2>3. CASE con[events[i].who].st = "closed"
    <3>1. PICK k \in i+1..Len(events) : events[k] = [type |-> "close", who |-> events[i].who]
      BY <1>7, <2>1, <2>2, <2>3 DEF Announced
    <3>2. k \in 1..Len(events) /\ k \in i+1..Len(events')
      BY <1>2, <2>1, SMT
    <3> QED BY <1>2, <2>2, <3>1, <3>2
  <2>4. CASE con[events[i].who].st # "closed"
    <3>1. events[i].who = g /\ con'[g].st = "closed"
      BY <1>7, <2>2, <2>4
    <3>2. t = "close" /\ Len(events) + 1 \in i+1..Len(events')
      BY <1>2, <2>1, <3>1, SMT
    <3> QED BY <1>2, <2>2, <3>1, <3>2
  <2> QED BY <2>3, <2>4
<1>8. ASSUME NEW d \in Conns, con'[d].tag  PROVE con'[d].st # "closed" \/ Closing(d)'
  <2>1. con[d].st # "closed" \/ Closing(d)
    BY <1>8 DEF Announced
  <2>2. Closing(d) => Closing(d)'
    BY <1>3 DEF Closing
  <2>3. CASE con'[d].st = "closed" /\ con[d].st # "closed"
    <3>1. d = g /\ t = "close"
      BY <2>3
    <3> QED BY <1>3, <3>1 DEF Closing
  <2> QED BY <2>1, <2>2, <2>3
<1> QED BY <1>2, <1>3, <1>4, <1>5, <1>6, <1>7, <1>8 DEF Announced

(* The first event is taken out and handled: the list of its connection is *)
(* opened or closed.                                                       *)
LEMMA FirstTaken ==
  ASSUME ExtTypeOK, Announced, Ageing, events # <<>>, events' = Tail(events), jobs' = jobs,
         \A h \in Conns : con'[h].st = "closed" => con[h].st = "closed",
         \A d \in Conns : con'[d].tag =>
           \/ con[d].tag /\ Head(events) # [type |-> "close", who |-> d]
           \/ Head(events) = [type |-> "ready", who |-> d]
  PROVE  Announced' /\ events' \in Seq(EventType) /\ Events' \subseteq Events /\ Head(events) \in Events
<1>1. events \in Seq(EventType)
  BY DEF ExtTypeOK
<1>2. /\ events' \in Seq(EventType) /\ Len(events') = Len(events) - 1 /\ Len(events) \in Nat \ {0}
      /\ \A i \in 1..Len(events') : events'[i] = events[i + 1] /\ i + 1 \in 1..Len(events)
      /\ Head(events) = events[1]
  BY <1>1, TailHolds
<1>3. Events = Events' \cup {Head(events)} /\ Head(events) \in Events
  <2>1. /\ {events[i] : i \in 1..Len(events)} = {Tail(events)[i] : i \in 1..Len(Tail(events))} \cup {Head(events)}
        /\ Head(events) \in {events[i] : i \in 1..Len(events)}
    BY <1>1, TailHolds
  <2> QED BY <2>1 DEF Events
<1>4. \A j \in Jobs' \ {N} : Born(j.conn)' /\ (j.op = "query" => con'[j.conn].kind = "client")
  <2>1. Jobs' = Jobs
    BY DEF Jobs
  <2> QED BY <2>1, QueueTypes, SMT DEF Announced, Ageing
<1>5. \A e \in Events' : Born(e.who)' /\ (e.type = "close" => con'[e.who].st = "closed")
  <2>1. \A e \in Events : e.who \in Conns /\ Born(e.who) /\ (e.type = "close" => con[e.who].st = "closed")
    BY QueueTypes DEF Announced
  <2>2. \A e \in Events' : e \in Events
    BY <1>3
  <2> QED BY <2>1, <2>2 DEF Ageing
<1>6. ASSUME NEW i \in 1..Len(events'), events'[i].type = "ready" /\ con'[events'[i].who].st = "closed"
      PROVE  \E k \in i+1..Len(events') : events'[k] = [type |-> "close", who |-> events'[i].who]
  <2>1. events'[i] = events[i + 1] /\ i + 1 \in 1..Len(events)
        /\ events[i + 1] \in Events /\ events[i + 1].who \in Conns
    BY <1>2, <1>6, QueueTypes DEF Events
  <2>2. PICK k \in (i + 1)+1..Len(events) : events[k] = [type |-> "close", who |-> events[i + 1].who]
    BY <1>6, <2>1 DEF Announced
  <2>3. k - 1 \in 1..Len(events') /\ k - 1 \in i+1..Len(events') /\ (k - 1) + 1 = k
    BY <1>2, <2>2, SMT
  <2> QED BY <1>2, <2>1, <2>2, <2>3
<1>7. ASSUME NEW d \in Conns, con'[d].tag  PROVE con'[d].st # "closed" \/ Closing(d)'
  <2>1. CASE con[d].tag /\ Head(events) # [type |-> "close", who |-> d]
    BY <1>3, <2>1 DEF Announced, Closing, Ageing
  <2>2. CASE Head(events) = [type |-> "ready", who |-> d] /\ con'[d].st = "closed"
    <3>1. 1 \in 1..Len(events) /\ events[1].type = "ready" /\ events[1].who = d /\ con[d].st = "closed"
      BY <1>2, <2>2, SMT
    <3>2. PICK k \in 1+1..Len(events) : events[k] = [type |-> "close", who |-> d]
      BY <3>1 DEF Announced
    <3>3. k - 1 \in 1..Len(events') /\ (k - 1) + 1 = k
      BY <1>2, <3>2, SMT
    <3>4. events'[k - 1] = [type |-> "close", who |-> d]
      BY <1>2, <3>2, <3>3
    <3> QED BY <3>3, <3>4 DEF Closing, Events
  <2> QED BY <1>7, <2>1, <2>2
<1> QED BY <1>2, <1>3, <1>4, <1>5, <1>6, <1>7 DEF Announced

-----------------------------------------------------------------------------
(* Steps *)

(* What a step that sets one field of a connection leaves alone.           *)
Same(r, q) ==
  /\ q.kind = r.kind /\ q.fd = r.fd /\ q.st = r.st /\ q.sock = r.sock

(* The fields the table does not look at.                                  *)
LEMMA OtherFields ==
  ASSUME NEW r \in ConType
  PROVE  /\ \A v \in BOOLEAN : LET q == [r EXCEPT !.hs = v] IN
              q \in ConType /\ Same(r, q) /\ q.tag = r.tag
                        /\ q.dropped = r.dropped /\ q.forwarded = r.forwarded
         /\ \A v \in BOOLEAN : LET q == [r EXCEPT !.forwarded = v] IN
              q \in ConType /\ Same(r, q) /\ q.tag = r.tag
                        /\ q.dropped = r.dropped
         /\ \A v \in Nat : LET q == [r EXCEPT !.packets = v] IN
              q \in ConType /\ Same(r, q) /\ q.tag = r.tag
                        /\ q.dropped = r.dropped /\ q.forwarded = r.forwarded
         /\ \A v \in BOOLEAN : LET q == [r EXCEPT !.tag = v] IN
              q \in ConType /\ Same(r, q) /\ q.tag = v /\ q.dropped = r.dropped /\ q.forwarded = r.forwarded
         /\ \A v \in BOOLEAN : LET q == [r EXCEPT !.dropped = v] IN
              q \in ConType /\ Same(r, q) /\ q.tag = r.tag
                        /\ q.dropped = v /\ q.forwarded = r.forwarded
<1>1. \A v \in BOOLEAN : LET q == [r EXCEPT !.hs = v] IN
        q \in ConType /\ Same(r, q) /\ q.tag = r.tag
                        /\ q.dropped = r.dropped /\ q.forwarded = r.forwarded
  <2> SUFFICES ASSUME NEW v \in BOOLEAN
               PROVE  LET q == [r EXCEPT !.hs = v] IN
                        q \in ConType /\ Same(r, q) /\ q.tag = r.tag
                        /\ q.dropped = r.dropped /\ q.forwarded = r.forwarded
    OBVIOUS
  <2> DEFINE q == [r EXCEPT !.hs = v]
  <2>1. q \in ConType
    BY DEF ConType
  <2>2. Same(r, q)
    BY DEF ConType, Same
  <2>3. q.tag = r.tag /\ q.dropped = r.dropped /\ q.forwarded = r.forwarded
    BY DEF ConType
  <2> QED BY <2>1, <2>2, <2>3
<1>2. \A v \in BOOLEAN : LET q == [r EXCEPT !.forwarded = v] IN
        q \in ConType /\ Same(r, q) /\ q.tag = r.tag
                        /\ q.dropped = r.dropped
  <2> SUFFICES ASSUME NEW v \in BOOLEAN
               PROVE  LET q == [r EXCEPT !.forwarded = v] IN
                        q \in ConType /\ Same(r, q) /\ q.tag = r.tag
                        /\ q.dropped = r.dropped
    OBVIOUS
  <2> DEFINE q == [r EXCEPT !.forwarded = v]
  <2>1. q \in ConType
    BY DEF ConType
  <2>2. Same(r, q)
    BY DEF ConType, Same
  <2>3. q.tag = r.tag /\ q.dropped = r.dropped
    BY DEF ConType
  <2> QED BY <2>1, <2>2, <2>3
<1>3. \A v \in Nat : LET q == [r EXCEPT !.packets = v] IN
        q \in ConType /\ Same(r, q) /\ q.tag = r.tag
                        /\ q.dropped = r.dropped /\ q.forwarded = r.forwarded
  <2> SUFFICES ASSUME NEW v \in Nat
               PROVE  LET q == [r EXCEPT !.packets = v] IN
                        q \in ConType /\ Same(r, q) /\ q.tag = r.tag
                        /\ q.dropped = r.dropped /\ q.forwarded = r.forwarded
    OBVIOUS
  <2> DEFINE q == [r EXCEPT !.packets = v]
  <2>1. q \in ConType
    BY DEF ConType
  <2>2. Same(r, q)
    BY DEF ConType, Same
  <2>3. q.tag = r.tag /\ q.dropped = r.dropped /\ q.forwarded = r.forwarded
    BY DEF ConType
  <2> QED BY <2>1, <2>2, <2>3
<1>4. \A v \in BOOLEAN : LET q == [r EXCEPT !.tag = v] IN
        q \in ConType /\ Same(r, q) /\ q.tag = v /\ q.dropped = r.dropped /\ q.forwarded = r.forwarded
  <2> SUFFICES ASSUME NEW v \in BOOLEAN
               PROVE  LET q == [r EXCEPT !.tag = v] IN
                        q \in ConType /\ Same(r, q) /\ q.tag = v /\ q.dropped = r.dropped /\ q.forwarded = r.forwarded
    OBVIOUS
  <2> DEFINE q == [r EXCEPT !.tag = v]
  <2>1. q \in ConType
    BY DEF ConType
  <2>2. Same(r, q)
    BY DEF ConType, Same
  <2>3. q.tag = v /\ q.dropped = r.dropped /\ q.forwarded = r.forwarded
    BY DEF ConType
  <2> QED BY <2>1, <2>2, <2>3
<1>5. \A v \in BOOLEAN : LET q == [r EXCEPT !.dropped = v] IN
        q \in ConType /\ Same(r, q) /\ q.tag = r.tag
                        /\ q.dropped = v /\ q.forwarded = r.forwarded
  <2> SUFFICES ASSUME NEW v \in BOOLEAN
               PROVE  LET q == [r EXCEPT !.dropped = v] IN
                        q \in ConType /\ Same(r, q) /\ q.tag = r.tag
                        /\ q.dropped = v /\ q.forwarded = r.forwarded
    OBVIOUS
  <2> DEFINE q == [r EXCEPT !.dropped = v]
  <2>1. q \in ConType
    BY DEF ConType
  <2>2. Same(r, q)
    BY DEF ConType, Same
  <2>3. q.tag = r.tag /\ q.dropped = v /\ q.forwarded = r.forwarded
    BY DEF ConType
  <2> QED BY <2>1, <2>2, <2>3
<1> QED BY <1>1, <1>2, <1>3, <1>4, <1>5

(* A step that makes no connection and no entry and sends no query.        *)
LEMMA QuietStep ==
  ASSUME ExtInv, ExtTypeOK', Ageing, Shrinking, Announced',
         \A g \in Conns : con'[g].dropped => con[g].dropped \/ ext'[con[g].fd] = NoExt,
         \A f \in lru' : (f \in lru /\ ext'[f] # NoExt) \/ ext'[f].in_gen \in Conns,
         \A f \in Fds : ext'[f] # NoExt => con'[ext[f].out].tag,
         \A f \in Fds : ext[f] # NoExt /\ ext'[f] = NoExt =>
           con'[ext[f].in_gen].st # "open" \/ con'[ext[f].out].st # "open"
  PROVE  NoCrossTalk' => ExtInv'
<1>1. Lives' /\ FdsDiffer'
  BY AgeingKeeps DEF ExtInv
<1>2. IdsKept'
  BY ShrinkingKeepsIds DEF ExtInv
<1>3. DroppedOut'
  BY ShrinkingKeepsDropped DEF ExtInv, Shrinking
<1>4. TableKept'
  BY <1>1, ShrinkingKeepsTable DEF ExtInv
<1> QED BY <1>1, <1>2, <1>3, <1>4 DEF ExtInv

(* The first job has been run.                                             *)
LEMMA JobTaken ==
  ASSUME ExtTypeOK, jobs # <<>>, jobs' = Tail(jobs)
  PROVE  jobs' \in Seq(JobType) /\ Jobs' \subseteq Jobs /\ Head(jobs) \in Jobs
<1>1. jobs \in Seq(JobType)
  BY DEF ExtTypeOK
<1>2. /\ {jobs[i] : i \in 1..Len(jobs)} = {Tail(jobs)[i] : i \in 1..Len(Tail(jobs))} \cup {Head(jobs)}
      /\ Head(jobs) \in {jobs[i] : i \in 1..Len(jobs)} /\ Tail(jobs) \in Seq(JobType)
  BY <1>1, TailHolds
<1> QED BY <1>2 DEF Jobs

(* A job has been queued.                                                  *)
LEMMA JobQueued ==
  ASSUME ExtTypeOK, NEW j \in JobType, jobs' = Append(jobs, j)
  PROVE  jobs' \in Seq(JobType) /\ Jobs' = Jobs \cup {j}
<1>1. jobs \in Seq(JobType)
  BY DEF ExtTypeOK
<1>2. /\ {Append(jobs, j)[i] : i \in 1..Len(Append(jobs, j))} = {jobs[i] : i \in 1..Len(jobs)} \cup {j}
      /\ Append(jobs, j) \in Seq(JobType)
  BY <1>1, AppendHolds, SMT
<1> QED BY <1>2 DEF Jobs

(* Steps that leave the table, the LRU and the queries alone.              *)
LEMMA TableUntouched ==
  ASSUME ExtInv, ExtTypeOK', Ageing, Announced', UNCHANGED <<ext, next_id, lru>>,
         \A d \in Conns : asked'[d] \subseteq asked[d],
         \A g \in Conns : (con'[g].dropped => con[g].dropped) /\ (con[g].tag => con'[g].tag),
         \A j \in Jobs' \ {N} :
           j \in Jobs \/ j.op = "query" \/ \E d \in Conns : \E q \in asked[d] : j.id = q.id /\ j.of = q.of
  PROVE  NoCrossTalk' => ExtInv'
<1>1. Shrinking
  BY DEF Shrinking
<1>2. \A f \in lru' : f \in lru /\ ext'[f] # NoExt
  BY DEF ExtInv, TableKept
<1>3. \A f \in Fds : ext'[f] # NoExt => con'[ext[f].out].tag
  BY DEF ExtInv, TableKept, IdsKept
<1> QED BY <1>1, <1>2, <1>3, QuietStep

(* fail_connection *)
LEMMA FailConnectionStep ==
  ASSUME ExtInv, NEW g \in Conns, FailConnection(g)
  PROVE  ExtInv'
<1> USE DEF ExtInv
<1>1. /\ con' = Failed(con, {g}) /\ delivered' = {} /\ UNCHANGED <<ext, next_id, lru, jobs, events, asked>>
      /\ con \in [Conns -> ConType]
  BY DEF FailConnection, ExtTypeOK
<1>2. /\ con' \in [Conns -> ConType]
      /\ \A h \in Conns :
           /\ con'[h].kind = con[h].kind /\ con'[h].fd = con[h].fd
           /\ con'[h].sock = con[h].sock /\ con'[h].tag = con[h].tag /\ con'[h].dropped = con[h].dropped
           /\ con'[h].st = IF h \in {g} /\ con[h].st = "open" THEN "failed" ELSE con[h].st
           /\ con[h].st # "open" => con'[h] = con[h]
  BY <1>1, FailedOnly, SMT
<1>3. ExtTypeOK'
  BY <1>1, <1>2 DEF ExtTypeOK
<1>4. Jobs' = Jobs /\ Events' = Events
  BY <1>1 DEF Jobs, Events
<1>5. Ageing
  <2>1. \A h \in Conns :
          /\ con'[h].kind = con[h].kind /\ con'[h].fd = con[h].fd
          /\ con'[h].sock => con[h].sock
          /\ con'[h].st = "open" => con[h].st = "open" /\ con'[h].sock
    BY <1>2 DEF Lives
  <2>2. \A h \in Conns :
          /\ con[h].st = "closed" => con'[h].st = "closed"
          /\ Born(h) => Born(h)'
          /\ ~ Born(h) => con'[h] = con[h] /\ asked'[h] = {}
          /\ con'[h].tag => con[h].kind = "middle"
    BY <1>1, <1>2 DEF Lives, Born
  <2> QED BY <1>4, <2>1, <2>2 DEF Ageing
<1>6. Announced'
  BY <1>1, <1>2, <1>4, <1>5, NothingAnnounced
<1>7. NoCrossTalk'
  BY <1>1 DEF NoCrossTalk
<1> QED BY <1>1, <1>2, <1>3, <1>4, <1>5, <1>6, <1>7, TableUntouched

(* fail_socket_connection *)
LEMMA FailSocketStep ==
  ASSUME ExtInv, NEW g \in Conns, fail_socket_connection(g)
  PROVE  ExtInv'
<1> USE DEF ExtInv
<1> DEFINE C == Failed(con, {g})
           r == [C[g] EXCEPT !.sock = FALSE]
<1>1. /\ con' = [C EXCEPT ![g] = r] /\ delivered' = {} /\ UNCHANGED <<ext, next_id, lru, jobs, events, asked>>
      /\ con \in [Conns -> ConType] /\ con[g].sock
  BY DEF fail_socket_connection, ExtTypeOK
<1>2. /\ C \in [Conns -> ConType]
      /\ \A h \in Conns :
           /\ C[h].kind = con[h].kind /\ C[h].fd = con[h].fd
           /\ C[h].sock = con[h].sock /\ C[h].tag = con[h].tag /\ C[h].dropped = con[h].dropped
           /\ C[h].st = IF h \in {g} /\ con[h].st = "open" THEN "failed" ELSE con[h].st
           /\ con[h].st # "open" => C[h] = con[h]
  BY <1>1, FailedOnly, SMT
<1> HIDE DEF C
<1>3. r \in ConType
  <2>1. \A q \in ConType : [q EXCEPT !.sock = FALSE] \in ConType
    BY DEF ConType
  <2> QED BY <1>2, <2>1
<1>4. r.kind = C[g].kind /\ r.fd = C[g].fd /\ r.st = C[g].st /\ r.tag = C[g].tag /\ r.dropped = C[g].dropped
  <2>1. C[g] \in ConType
    BY <1>2
  <2> QED BY <2>1 DEF ConType
<1>5. ~ r.sock
  <2>1. C[g] \in ConType
    BY <1>2
  <2> QED BY <2>1 DEF ConType
<1> HIDE DEF r
<1>6. con' \in [Conns -> ConType] /\ con'[g] = r /\ \A h \in Conns \ {g} : con'[h] = C[h]
  BY <1>1, <1>2, <1>3
<1>7. ExtTypeOK'
  BY <1>1, <1>6 DEF ExtTypeOK
<1>8. Jobs' = Jobs /\ Events' = Events
  BY <1>1 DEF Jobs, Events
<1>9. \A h \in Conns :
           /\ con'[h].kind = con[h].kind /\ con'[h].fd = con[h].fd
           /\ con'[h].sock => con[h].sock /\ h # g
           /\ h # g => con'[h].sock = con[h].sock
           /\ con'[h].tag = con[h].tag /\ con'[h].dropped = con[h].dropped
           /\ con'[h].st = IF h \in {g} /\ con[h].st = "open" THEN "failed" ELSE con[h].st
           /\ con[h].st # "open" /\ h # g => con'[h] = con[h]
  <2>1. ASSUME NEW h \in Conns, h = g  PROVE <1>9!(h)
    BY <1>2, <1>4, <1>5, <1>6, <2>1
  <2>2. ASSUME NEW h \in Conns, h # g  PROVE <1>9!(h)
    BY <1>2, <1>6, <2>2
  <2> QED BY <2>1, <2>2
<1>10. Born(g)
  BY <1>1, UnbornFields DEF Lives
<1>11. Ageing
  BY <1>1, <1>8, <1>9, <1>10, SMT DEF Ageing, Lives, Born
<1>12. Announced'
  BY <1>1, <1>8, <1>9, <1>11, NothingAnnounced, SMT
<1>13. NoCrossTalk'
  BY <1>1 DEF NoCrossTalk
<1> QED BY <1>1, <1>7, <1>8, <1>9, <1>11, <1>12, <1>13, TableUntouched

(* The RPC handshake with a middle proxy is over *)
LEMMA HandshakeStep ==
  ASSUME ExtInv, NEW g \in Conns, HandshakeDone(g)
  PROVE  ExtInv'
<1> USE DEF ExtInv
<1> DEFINE r == [con[g] EXCEPT !.hs = TRUE]
<1>1. /\ con' = [con EXCEPT ![g] = r] /\ delivered' = {} /\ UNCHANGED <<ext, next_id, lru, asked>>
      /\ con \in [Conns -> ConType] /\ con[g].st = "open" /\ notification_event_insert_conn("ready", g)
  BY DEF HandshakeDone, ExtTypeOK
<1>2. r \in ConType /\ Same(con[g], r) /\ r.tag = con[g].tag /\ r.dropped = con[g].dropped
  BY <1>1, OtherFields
<1> HIDE DEF r
<1>3. con' \in [Conns -> ConType] /\ con'[g] = r /\ \A h \in Conns \ {g} : con'[h] = con[h]
  BY <1>1, <1>2, SetCon
<1>4. \A h \in Conns :
        /\ con'[h].kind = con[h].kind /\ con'[h].fd = con[h].fd /\ con'[h].sock = con[h].sock
        /\ con'[h].tag = con[h].tag /\ con'[h].dropped = con[h].dropped /\ con'[h].st = con[h].st
        /\ h # g => con'[h] = con[h]
  BY <1>2, <1>3 DEF Same
<1>5. /\ Announced' /\ jobs' \in Seq(JobType) /\ events' \in Seq(EventType)
      /\ Jobs' \ {N} = Jobs \ {N} /\ Events' = Events \cup {[type |-> "ready", who |-> g]}
  BY <1>1, <1>4, OneAnnounced DEF Born
<1>6. ExtTypeOK'
  BY <1>1, <1>3, <1>5 DEF ExtTypeOK
<1>7. Ageing
  BY <1>1, <1>4, <1>5, SMT DEF Ageing, Lives, Born
<1>8. NoCrossTalk'
  BY <1>1 DEF NoCrossTalk
<1> QED BY <1>1, <1>4, <1>5, <1>6, <1>7, <1>8, TableUntouched

(* tcp_rpcs_close_connection, tcp_rpcc_close_connection *)
LEMMA CloseStep ==
  ASSUME ExtInv, NEW g \in Conns, close_connection(g)
  PROVE  ExtInv'
<1> USE DEF ExtInv
<1> DEFINE r == [con[g] EXCEPT !.st = "closed", !.hs = FALSE, !.packets = 0]
<1>1. /\ con' = [con EXCEPT ![g] = r] /\ delivered' = {} /\ UNCHANGED <<ext, next_id, lru>>
      /\ con \in [Conns -> ConType] /\ con[g].st = "failed" /\ notification_event_insert_conn("close", g)
      /\ asked' = [asked EXCEPT ![g] = {}]
  BY DEF close_connection, ExtTypeOK
<1>2. r \in ConType
  <2>1. \A q \in ConType : [q EXCEPT !.st = "closed", !.hs = FALSE, !.packets = 0] \in ConType
    BY DEF ConType
  <2> QED BY <1>1, <2>1
<1>3. /\ r.kind = con[g].kind /\ r.fd = con[g].fd /\ r.sock = con[g].sock /\ r.st = "closed"
      /\ r.tag = con[g].tag /\ r.dropped = con[g].dropped
  <2>1. con[g] \in ConType
    BY <1>1
  <2> QED BY <2>1 DEF ConType
<1> HIDE DEF r
<1>4. con' \in [Conns -> ConType] /\ con'[g] = r /\ \A h \in Conns \ {g} : con'[h] = con[h]
  BY <1>1, <1>2, SetCon
<1>5. \A h \in Conns :
        /\ con'[h].kind = con[h].kind /\ con'[h].fd = con[h].fd /\ con'[h].sock = con[h].sock
        /\ con'[h].tag = con[h].tag /\ con'[h].dropped = con[h].dropped
        /\ con'[h].st = IF h = g THEN "closed" ELSE con[h].st
        /\ h # g => con'[h] = con[h]
  BY <1>3, <1>4
<1>6. /\ Announced' /\ jobs' \in Seq(JobType) /\ events' \in Seq(EventType)
      /\ Jobs' \ {N} = Jobs \ {N} /\ Events' = Events \cup {[type |-> "close", who |-> g]}
  <2>1. Born(g)' /\ con'[g].st = "closed"
    BY <1>5 DEF Born
  <2>2. \A h \in Conns : /\ Born(h) => Born(h)' /\ con'[h].kind = con[h].kind
                         /\ con[h].st = "closed" => con'[h].st = "closed"
                         /\ con'[h].st = "closed" => con[h].st = "closed" \/ h = g
                         /\ con'[h].tag => con[h].tag
    BY <1>5 DEF Born
  <2> QED BY <1>1, <2>1, <2>2, OneAnnounced
<1>7. /\ asked' \in [Conns -> SUBSET [id : Ids, of : Conns, owner : Conns]]
      /\ \A d \in Conns : asked'[d] \subseteq asked[d]
  BY <1>1 DEF ExtTypeOK
<1>8. ExtTypeOK'
  BY <1>1, <1>4, <1>6, <1>7 DEF ExtTypeOK
<1>9. Ageing
  BY <1>1, <1>5, <1>6, <1>7, SMT DEF Ageing, Lives, Born
<1>10. NoCrossTalk'
  BY <1>1 DEF NoCrossTalk
<1> QED BY <1>1, <1>5, <1>6, <1>7, <1>8, <1>9, <1>10, TableUntouched

(* The connections as they are, and nothing announced.                     *)
LEMMA OnlyJobs ==
  ASSUME ExtInv, UNCHANGED <<con, ext, next_id, lru, events, asked>>, jobs' \in Seq(JobType),
         delivered' \subseteq [to : Conns, of : Conns],
         \A j \in Jobs' \ {N} :
           \/ j \in Jobs
           \/ /\ j.conn \in Conns /\ con[j.conn].st = "open"
              /\ j.op # "query" /\ \E d \in Conns : \E q \in asked[d] : j.id = q.id /\ j.of = q.of
  PROVE  NoCrossTalk' => ExtInv'
<1> USE DEF ExtInv
<1>1. ExtTypeOK'
  BY DEF ExtTypeOK
<1>2. Events' = Events
  BY DEF Events
<1>3. Ageing
  BY <1>2 DEF Ageing, Lives, Born
<1>4. Announced'
  BY <1>3, NothingAnnounced DEF Born
<1> QED BY <1>1, <1>3, <1>4, TableUntouched

(* notification_event_run has handled all events *)
LEMMA DoneStep ==
  ASSUME ExtInv, notification_event_done
  PROVE  ExtInv'
<1>1. jobs' \in Seq(JobType) /\ Jobs' \subseteq Jobs
  BY JobTaken DEF notification_event_done, ExtInv
<1>2. NoCrossTalk'
  BY DEF notification_event_done, NoCrossTalk
<1> QED BY <1>1, <1>2, OnlyJobs DEF notification_event_done

(* rpcc_execute *)
LEMMA AnswerQueued ==
  ASSUME ExtInv, NEW d \in Conns, rpcc_execute(d)
  PROVE  ExtInv'
<1>1. PICK q \in asked[d], op \in {"answer", "close_ext"} :
        jobs' = Append(jobs, [op |-> op, conn |-> d, id |-> q.id, of |-> q.of])
  BY DEF rpcc_execute
<1> DEFINE j == [op |-> op, conn |-> d, id |-> q.id, of |-> q.of]
<1>2. j \in JobType
  BY SMT DEF ExtInv, ExtTypeOK, JobType
<1>3. jobs' \in Seq(JobType) /\ Jobs' = Jobs \cup {j}
  BY <1>1, <1>2, JobQueued DEF ExtInv
<1>4. NoCrossTalk'
  BY DEF rpcc_execute, NoCrossTalk
<1>5. j.conn \in Conns /\ con[j.conn].st = "open" /\ j.op # "query" /\ j.id = q.id /\ j.of = q.of
  BY DEF rpcc_execute
<1>6. UNCHANGED <<con, ext, next_id, lru, events, asked>> /\ delivered' = {}
  BY DEF rpcc_execute
<1> HIDE DEF j
<1>7. \A x \in Jobs' \ {N} :
        \/ x \in Jobs
        \/ /\ x.conn \in Conns /\ con[x.conn].st = "open"
           /\ x.op # "query" /\ \E e \in Conns : \E p \in asked[e] : x.id = p.id /\ x.of = p.of
  BY <1>3, <1>5
<1> QED BY <1>3, <1>4, <1>6, <1>7, OnlyJobs

(* process_client_packet: an answer reaches its asker or nobody *)
LEMMA AnswerStep ==
  ASSUME ExtInv, process_proxy_ans
  PROVE  ExtInv'
<1> DEFINE j == Head(jobs)
<1>1. jobs' \in Seq(JobType) /\ Jobs' \subseteq Jobs /\ j \in Jobs
  BY JobTaken DEF process_proxy_ans, ExtInv
<1>2. j.op = "answer" /\ j # N
  BY SMT DEF process_proxy_ans, N
<1>3. j.of \in Conns /\ Owned(j.id, j.of)
  BY <1>1, <1>2, QueueTypes DEF ExtInv, IdsKept
<1> HIDE DEF j
<1>4. \A g \in Receivers(j) : g \in Conns /\ g = j.of
  BY <1>3 DEF Receivers, Reachable, find_ext_connection_by_out_conn_id, Owned
<1>5. delivered' = {[to |-> g, of |-> j.of] : g \in Receivers(j)}
  BY DEF process_proxy_ans, j
<1>6. delivered' \subseteq [to : Conns, of : Conns]
  BY <1>3, <1>4, <1>5, SMT
<1>7. NoCrossTalk'
  BY <1>4, <1>5, SMT DEF NoCrossTalk
<1> QED BY <1>1, <1>6, <1>7, OnlyJobs DEF process_proxy_ans

(* ext_rpcs_execute *)
LEMMA PacketStep ==
  ASSUME ExtInv, NEW g \in Conns, ext_rpcs_execute(g)
  PROVE  ExtInv'
<1> USE DEF ExtInv
<1> DEFINE r == [con[g] EXCEPT !.packets = con[g].packets + 1]
           j == [op |-> "query", conn |-> g, id |-> <<0, 0>>, of |-> g]
<1>1. /\ con' = [con EXCEPT ![g] = r] /\ delivered' = {} /\ UNCHANGED <<ext, next_id, lru, events, asked>>
      /\ con \in [Conns -> ConType] /\ con[g].st = "open" /\ con[g].kind = "client" /\ jobs' = Append(jobs, j)
  BY DEF ext_rpcs_execute, ExtTypeOK
<1>2. r \in ConType /\ Same(con[g], r) /\ r.tag = con[g].tag /\ r.dropped = con[g].dropped
  <2>1. con[g].packets + 1 \in Nat /\ con[g] \in ConType
    BY <1>1, SMT DEF ConType
  <2> QED BY <2>1, OtherFields, SMT
<1> HIDE DEF r
<1>3. con' \in [Conns -> ConType] /\ con'[g] = r /\ \A h \in Conns \ {g} : con'[h] = con[h]
  BY <1>1, <1>2, SetCon
<1>4. \A h \in Conns :
        /\ con'[h].kind = con[h].kind /\ con'[h].fd = con[h].fd /\ con'[h].sock = con[h].sock
        /\ con'[h].tag = con[h].tag /\ con'[h].dropped = con[h].dropped /\ con'[h].st = con[h].st
        /\ h # g => con'[h] = con[h]
  BY <1>2, <1>3 DEF Same
<1>5. j \in JobType
  BY DEF JobType, Ids
<1>6. jobs' \in Seq(JobType) /\ Jobs' = Jobs \cup {j} /\ Events' = Events
  BY <1>1, <1>5, JobQueued DEF Events
<1>7. j.conn = g /\ j.op = "query"
  OBVIOUS
<1> HIDE DEF j
<1>8. ExtTypeOK'
  BY <1>1, <1>3, <1>6 DEF ExtTypeOK
<1>9. Ageing
  BY <1>1, <1>4, <1>6, <1>7 DEF Ageing, Lives, Born
<1>10. Announced'
  BY <1>1, <1>4, <1>6, <1>7, <1>9, NothingAnnounced DEF Born
<1>11. NoCrossTalk'
  BY <1>1 DEF NoCrossTalk
<1> QED BY <1>1, <1>4, <1>6, <1>7, <1>8, <1>9, <1>10, <1>11, TableUntouched

(* Clients are failed and their entries removed.                           *)
LEMMA FailedWithEntries ==
  ASSUME ExtInv, NEW F, F \subseteq Fds, NEW S, S = {h \in {ext[f].in_gen : f \in F} : Reachable(h)}
  PROVE  \A f \in F : ext[f] # NoExt => Failed(con, S)[ext[f].in_gen].st # "open"
<1> SUFFICES ASSUME NEW f \in F, ext[f] # NoExt
             PROVE  Failed(con, S)[ext[f].in_gen].st # "open"
  OBVIOUS
<1>1. ext[f].in_gen \in Conns /\ con \in [Conns -> ConType]
  BY DEF ExtInv, IdsKept, ExtTypeOK
<1>2. con[ext[f].in_gen].st = "open" => ext[f].in_gen \in S
  BY <1>1 DEF ExtInv, Lives, Reachable
<1>3. Failed(con, S)[ext[f].in_gen].st =
        IF ext[f].in_gen \in S /\ con[ext[f].in_gen].st = "open" THEN "failed" ELSE con[ext[f].in_gen].st
  BY <1>1, FailedOnly, SMT
<1> QED BY <1>2, <1>3

(* process_close_ext *)
LEMMA CloseExtStep ==
  ASSUME ExtInv, process_close_ext
  PROVE  ExtInv'
<1> USE DEF ExtInv
<1> DEFINE F == find_ext_connection_by_out_conn_id(Head(jobs).id)
           S == {h \in {ext[f].in_gen : f \in F} : Reachable(h)}
<1>1. /\ con' = Failed(con, S) /\ remove_ext_connections(F) /\ jobs # <<>> /\ jobs' = Tail(jobs)
      /\ delivered' = {} /\ UNCHANGED <<next_id, events, asked>> /\ con \in [Conns -> ConType]
  BY DEF process_close_ext, ExtTypeOK
<1>2. F \subseteq Fds
  BY DEF find_ext_connection_by_out_conn_id
<1> HIDE DEF F
<1>3. /\ con' \in [Conns -> ConType]
      /\ \A h \in Conns :
           /\ con'[h].kind = con[h].kind /\ con'[h].fd = con[h].fd
           /\ con'[h].sock = con[h].sock /\ con'[h].tag = con[h].tag /\ con'[h].dropped = con[h].dropped
           /\ con'[h].st = IF h \in S /\ con[h].st = "open" THEN "failed" ELSE con[h].st
           /\ con[h].st # "open" => con'[h] = con[h]
  BY <1>1, FailedOnly, SMT
<1>4. \A f \in F : ext[f] # NoExt => con'[ext[f].in_gen].st # "open"
  <2>1. S = {h \in {ext[f].in_gen : f \in F} : Reachable(h)}
    OBVIOUS
  <2> HIDE DEF S
  <2>2. \A f \in F : ext[f] # NoExt => Failed(con, S)[ext[f].in_gen].st # "open"
    BY <1>2, <2>1, FailedWithEntries
  <2> QED BY <1>1, <2>2
<1> HIDE DEF S
<1>5. jobs' \in Seq(JobType) /\ Jobs' \subseteq Jobs /\ Events' = Events
  BY <1>1, JobTaken DEF Events
<1>6. /\ ext' \in [Fds -> EntryType] /\ lru' \subseteq lru \ F
      /\ \A f \in Fds : ext'[f] = IF f \in F THEN NoExt ELSE ext[f]
  BY <1>1 DEF remove_ext_connections, ExtTypeOK, EntryType, NoExt, Ids
<1>7. ExtTypeOK'
  BY <1>1, <1>3, <1>5, <1>6 DEF ExtTypeOK
<1>8. Ageing
  BY <1>1, <1>3, <1>5, SMT DEF Ageing, Lives, Born
<1>9. Announced'
  BY <1>1, <1>3, <1>5, <1>8, NothingAnnounced
<1>10. Shrinking
  BY <1>1, <1>5, <1>6 DEF Shrinking
<1>11. NoCrossTalk'
  BY <1>1 DEF NoCrossTalk
<1>12. \A f \in lru' : f \in lru /\ ext'[f] # NoExt
  BY <1>6 DEF TableKept, ExtTypeOK
<1>13. \A f \in Fds : ext'[f] # NoExt => con'[ext[f].out].tag
  BY <1>3, <1>6, SMT DEF TableKept, IdsKept
<1>14. \A f \in Fds : ext[f] # NoExt /\ ext'[f] = NoExt => con'[ext[f].in_gen].st # "open"
  BY <1>4, <1>6
<1> QED BY <1>3, <1>7, <1>8, <1>9, <1>10, <1>11, <1>12, <1>13, <1>14, QuietStep

(* check_all_conn_buffers *)
LEMMA BuffersStep ==
  ASSUME ExtInv, check_all_conn_buffers
  PROVE  ExtInv'
<1> USE DEF ExtInv
<1>1. PICK F \in SUBSET lru \ {{}} :
        /\ con' = Failed(con, {h \in {ext[f].in_gen : f \in F} : Reachable(h)})
        /\ lru' = lru \ F
  BY DEF check_all_conn_buffers
<1>2. delivered' = {} /\ UNCHANGED <<ext, next_id, jobs, events, asked>> /\ con \in [Conns -> ConType]
  BY DEF check_all_conn_buffers, ExtTypeOK
<1> DEFINE S == {h \in {ext[f].in_gen : f \in F} : Reachable(h)}
<1> HIDE DEF S
<1>3. /\ con' \in [Conns -> ConType]
      /\ \A h \in Conns :
           /\ con'[h].kind = con[h].kind /\ con'[h].fd = con[h].fd
           /\ con'[h].sock = con[h].sock /\ con'[h].tag = con[h].tag /\ con'[h].dropped = con[h].dropped
           /\ con'[h].st = IF h \in S /\ con[h].st = "open" THEN "failed" ELSE con[h].st
           /\ con[h].st # "open" => con'[h] = con[h]
  BY <1>1, <1>2, FailedOnly, SMT DEF S
<1>4. Jobs' = Jobs /\ Events' = Events
  BY <1>2 DEF Jobs, Events
<1>5. ExtTypeOK'
  BY <1>1, <1>2, <1>3 DEF ExtTypeOK
<1>6. Ageing
  BY <1>2, <1>3, <1>4 DEF Ageing, Lives, Born
<1>7. Announced'
  BY <1>2, <1>3, <1>4, <1>6, NothingAnnounced
<1>8. Shrinking
  BY <1>2, <1>4 DEF Shrinking
<1>9. NoCrossTalk'
  BY <1>2 DEF NoCrossTalk
<1>10. \A f \in lru' : f \in lru /\ ext'[f] # NoExt
  BY <1>1, <1>2 DEF TableKept
<1>11. \A f \in Fds : ext'[f] # NoExt => con'[ext[f].out].tag
  BY <1>2, <1>3 DEF TableKept, IdsKept
<1>12. \A f \in Fds : ~ (ext[f] # NoExt /\ ext'[f] = NoExt)
  BY <1>2
<1> QED BY <1>3, <1>5, <1>6, <1>7, <1>8, <1>9, <1>10, <1>11, <1>12, QuietStep

(* What the first event says of its connection.                            *)
LEMMA FirstEvent ==
  ASSUME ExtInv, events # <<>>
  PROVE  /\ Head(events) \in Events /\ Head(events).who \in Conns /\ Born(Head(events).who)
         /\ Head(events) = [type |-> Head(events).type, who |-> Head(events).who]
         /\ Head(events).type = "close" => con[Head(events).who].st = "closed"
         /\ ~ Released(Head(events).who)
<1>1. Head(events) \in Events
  <2>1. events \in Seq(EventType)
    BY DEF ExtInv, ExtTypeOK
  <2> QED BY <2>1, TailHolds DEF Events
<1>2. /\ Head(events).who \in Conns
      /\ Head(events) = [type |-> Head(events).type, who |-> Head(events).who]
  BY <1>1, QueueTypes DEF ExtInv
<1>3. Born(Head(events).who) /\ (Head(events).type = "close" => con[Head(events).who].st = "closed")
  BY <1>1 DEF ExtInv, Announced
<1>4. ~ Released(Head(events).who)
  BY <1>1 DEF Released, Events
<1> QED BY <1>1, <1>2, <1>3, <1>4

(* mtproto_ext_rpc_ready, mtfront_client_ready *)
LEMMA ReadyStep ==
  ASSUME ExtInv, run_notification_event, Head(events).type = "ready", rpc_ready(Head(events).who)
  PROVE  ExtInv'
<1> USE DEF ExtInv
<1> DEFINE g == Head(events).who
           v == con[g].kind = "middle"
           r == [con[g] EXCEPT !.tag = v]
<1>1. /\ events # <<>> /\ events' = Tail(events) /\ delivered' = {} /\ UNCHANGED <<next_id, jobs, asked, ext>>
      /\ con \in [Conns -> ConType]
  BY DEF run_notification_event, rpc_ready, ExtTypeOK
<1>2. g \in Conns /\ Born(g) /\ Head(events) = [type |-> "ready", who |-> g]
  BY <1>1, FirstEvent
<1>3. /\ con' = [con EXCEPT ![g] = r]
      /\ lru' = IF con[g].kind = "client" /\ ext[con[g].fd].in_gen = g THEN lru \cup {con[g].fd} ELSE lru
  BY <1>1, <1>2 DEF rpc_ready
<1> HIDE DEF g
<1>4. r \in ConType /\ Same(con[g], r) /\ r.tag = v /\ r.dropped = con[g].dropped
  <2>1. con[g] \in ConType /\ v \in BOOLEAN
    BY <1>1, <1>2
  <2> HIDE DEF v
  <2> QED BY <2>1, OtherFields, SMT
<1> HIDE DEF r
<1>5. con' \in [Conns -> ConType] /\ con'[g] = r /\ \A h \in Conns \ {g} : con'[h] = con[h]
  BY <1>1, <1>2, <1>3, <1>4, SetCon
<1>6. \A h \in Conns :
        /\ con'[h].kind = con[h].kind /\ con'[h].fd = con[h].fd /\ con'[h].sock = con[h].sock
        /\ con'[h].dropped = con[h].dropped /\ con'[h].st = con[h].st
        /\ h # g => con'[h] = con[h]
        /\ con'[h].tag => con[h].tag \/ h = g
        /\ con[h].kind = "middle" /\ con[h].tag => con'[h].tag
        /\ con'[h].tag => con[h].kind = "middle"
  <2>1. ASSUME NEW h \in Conns, h = g  PROVE <1>6!(h)
    BY <1>4, <1>5, <2>1 DEF Same
  <2>2. ASSUME NEW h \in Conns, h # g  PROVE <1>6!(h)
    BY <1>5, <2>2 DEF Lives
  <2> QED BY <2>1, <2>2
<1>7. Jobs' = Jobs /\ Events' \subseteq Events
  <2>1. events \in Seq(EventType)
    BY DEF ExtTypeOK
  <2>2. {events[i] : i \in 1..Len(events)} = {Tail(events)[i] : i \in 1..Len(Tail(events))} \cup {Head(events)}
    BY <1>1, <2>1, TailHolds
  <2> QED BY <1>1, <2>2 DEF Jobs, Events
<1>8. Ageing
  BY <1>1, <1>2, <1>6, <1>7 DEF Ageing, Lives, Born
<1>9. Announced' /\ events' \in Seq(EventType)
  <2>1. \A d \in Conns : con'[d].tag =>
           \/ con[d].tag /\ Head(events) # [type |-> "close", who |-> d]
           \/ Head(events) = [type |-> "ready", who |-> d]
    BY <1>2, <1>6, SMT
  <2> QED BY <1>1, <1>6, <1>8, <2>1, FirstTaken
<1>10. con[g].fd \in Fds
  BY <1>2 DEF Lives
<1>11. ExtTypeOK'
  BY <1>1, <1>3, <1>5, <1>9, <1>10 DEF ExtTypeOK
<1>12. Shrinking
  BY <1>1, <1>7 DEF Shrinking
<1>13. NoCrossTalk'
  BY <1>1 DEF NoCrossTalk
<1>14. \A f \in lru' : (f \in lru /\ ext'[f] # NoExt) \/ ext'[f].in_gen \in Conns
  BY <1>1, <1>2, <1>3, SMT DEF TableKept
<1>15. \A f \in Fds : ext'[f] # NoExt => con'[ext[f].out].tag
  BY <1>1, <1>6 DEF TableKept, IdsKept, Lives
<1>16. \A f \in Fds : ~ (ext[f] # NoExt /\ ext'[f] = NoExt)
  BY <1>1
<1>17. \A h \in Conns : con'[h].dropped => con[h].dropped
  BY <1>6
<1> QED BY <1>8, <1>9, <1>11, <1>12, <1>13, <1>14, <1>15, <1>16, <1>17, QuietStep

(* mtproto_ext_rpc_close *)
LEMMA ClientCloseStep ==
  ASSUME ExtInv, run_notification_event, Head(events).type = "close",
         con[Head(events).who].kind = "client", mtproto_ext_rpc_close(Head(events).who)
  PROVE  ExtInv'
<1> USE DEF ExtInv
<1> DEFINE g == Head(events).who
           F == ByInFd(g)
<1>1. /\ events # <<>> /\ events' = Tail(events) /\ delivered' = {} /\ UNCHANGED <<next_id, jobs, asked, con>>
      /\ remove_ext_connections(F)
  BY DEF run_notification_event, mtproto_ext_rpc_close
<1>2. g \in Conns /\ Born(g) /\ con[g].kind = "client"
      /\ Head(events) = [type |-> "close", who |-> g] /\ con[g].st = "closed" /\ ~ Released(g)
  BY <1>1, FirstEvent
<1> HIDE DEF g
<1>3. \A f \in F : f = con[g].fd
  BY DEF ByInFd
<1> HIDE DEF F
<1>4. Jobs' = Jobs /\ Events' \subseteq Events
  <2>1. events \in Seq(EventType)
    BY DEF ExtTypeOK
  <2>2. {events[i] : i \in 1..Len(events)} = {Tail(events)[i] : i \in 1..Len(Tail(events))} \cup {Head(events)}
    BY <1>1, <2>1, TailHolds
  <2> QED BY <1>1, <2>2 DEF Jobs, Events
<1>5. Ageing
  BY <1>1, <1>4 DEF Ageing, Lives, Born
<1>6. Announced' /\ events' \in Seq(EventType)
  <2>1. \A d \in Conns : con'[d].tag => con[d].tag /\ Head(events) # [type |-> "close", who |-> d]
    BY <1>1, <1>2, SMT DEF Lives
  <2> QED BY <1>1, <1>5, <2>1, FirstTaken
<1>7. /\ ext' \in [Fds -> EntryType] /\ lru' = lru \ F
      /\ \A f \in Fds : ext'[f] = IF f \in F THEN NoExt ELSE ext[f]
  BY <1>1 DEF remove_ext_connections, ExtTypeOK, EntryType, NoExt, Ids
<1>8. ExtTypeOK'
  BY <1>1, <1>6, <1>7 DEF ExtTypeOK
<1>9. Shrinking
  BY <1>1, <1>4, <1>7 DEF Shrinking
<1>10. NoCrossTalk'
  BY <1>1 DEF NoCrossTalk
<1>11. \A f \in lru' : f \in lru /\ ext'[f] # NoExt
  BY <1>7 DEF TableKept, ExtTypeOK
<1>12. \A f \in Fds : ext'[f] # NoExt => con'[ext[f].out].tag
  BY <1>1, <1>7 DEF TableKept, IdsKept
<1>13. ASSUME NEW f \in Fds, ext[f] # NoExt, ext'[f] = NoExt  PROVE con'[ext[f].in_gen].st # "open"
  <2>1. f = con[g].fd /\ ext[f].in_gen \in Conns /\ con[ext[f].in_gen].fd = f
    BY <1>3, <1>7, <1>13 DEF IdsKept, TableKept
  <2>2. con[ext[f].in_gen].st = "open" => Born(ext[f].in_gen) /\ ~ Released(ext[f].in_gen)
    BY DEF Born, Released
  <2> QED BY <1>1, <1>2, <2>1, <2>2 DEF FdsDiffer
<1>14. \A h \in Conns : con'[h].dropped => con[h].dropped
  BY <1>1
<1> QED BY <1>5, <1>6, <1>8, <1>9, <1>10, <1>11, <1>12, <1>13, <1>14, QuietStep

(* mtfront_client_close *)
LEMMA MiddleCloseStep ==
  ASSUME ExtInv, run_notification_event, Head(events).type = "close", mtfront_client_close(Head(events).who)
  PROVE  ExtInv'
<1> USE DEF ExtInv
<1> DEFINE g == Head(events).who
           F == IF con[g].tag THEN ByOut(g) ELSE {}
           S == {h \in {ext[f].in_gen : f \in F} : Reachable(h)}
           C == Failed(con, S)
           r == [C[g] EXCEPT !.tag = FALSE]
<1>1. /\ events # <<>> /\ events' = Tail(events) /\ delivered' = {} /\ UNCHANGED <<next_id, jobs, asked>>
      /\ remove_ext_connections(F) /\ con \in [Conns -> ConType]
  BY DEF run_notification_event, mtfront_client_close, ExtTypeOK
<1>2. con' = [C EXCEPT ![g] = r]
  BY DEF mtfront_client_close
<1>3. g \in Conns /\ Born(g) /\ Head(events) = [type |-> "close", who |-> g] /\ con[g].st = "closed"
  BY <1>1, FirstEvent
<1> HIDE DEF g
<1>4. \A f \in F : f \in Fds /\ ext[f].out = g
  BY DEF ByOut
<1>5. \A f \in Fds : ext[f] # NoExt /\ ext[f].out = g => f \in F
  BY DEF ByOut, TableKept
<1> HIDE DEF F, S
<1>6. /\ C \in [Conns -> ConType]
      /\ \A h \in Conns :
           /\ C[h].kind = con[h].kind /\ C[h].fd = con[h].fd
           /\ C[h].sock = con[h].sock /\ C[h].tag = con[h].tag /\ C[h].dropped = con[h].dropped
           /\ C[h].st = IF h \in S /\ con[h].st = "open" THEN "failed" ELSE con[h].st
           /\ con[h].st # "open" => C[h] = con[h]
  BY <1>1, FailedOnly
<1> HIDE DEF C
<1>7. r \in ConType /\ Same(C[g], r) /\ r.tag = FALSE /\ r.dropped = C[g].dropped
  BY <1>3, <1>6, OtherFields
<1> HIDE DEF r
<1>8. con' \in [Conns -> ConType] /\ con'[g] = r /\ \A h \in Conns \ {g} : con'[h] = C[h]
  BY <1>2, <1>3, <1>6, <1>7
<1>9. \A h \in Conns :
        /\ con'[h].kind = con[h].kind /\ con'[h].fd = con[h].fd /\ con'[h].sock = con[h].sock
        /\ con'[h].dropped = con[h].dropped
        /\ con'[h].st = IF h \in S /\ con[h].st = "open" THEN "failed" ELSE con[h].st
        /\ h # g => con'[h].tag = con[h].tag
        /\ h # g /\ con[h].st # "open" => con'[h] = con[h]
        /\ con'[h].tag => con[h].tag /\ h # g
  <2>1. ASSUME NEW h \in Conns, h = g  PROVE <1>9!(h)
    BY <1>6, <1>7, <1>8, <2>1 DEF Same
  <2>2. ASSUME NEW h \in Conns, h # g  PROVE <1>9!(h)
    BY <1>6, <1>8, <2>2
  <2> QED BY <2>1, <2>2
<1>10. Jobs' = Jobs /\ Events' \subseteq Events
  <2>1. events \in Seq(EventType)
    BY DEF ExtTypeOK
  <2>2. {events[i] : i \in 1..Len(events)} = {Tail(events)[i] : i \in 1..Len(Tail(events))} \cup {Head(events)}
    BY <1>1, <2>1, TailHolds
  <2> QED BY <1>1, <2>2 DEF Jobs, Events
<1>11. Ageing
  BY <1>1, <1>3, <1>9, <1>10, SMT DEF Ageing, Lives, Born
<1>12. Announced' /\ events' \in Seq(EventType)
  <2>1. \A d \in Conns : con'[d].tag => con[d].tag /\ Head(events) # [type |-> "close", who |-> d]
    BY <1>3, <1>9, SMT
  <2> QED BY <1>1, <1>9, <1>11, <2>1, FirstTaken
<1>13. /\ ext' \in [Fds -> EntryType] /\ lru' = lru \ F
       /\ \A f \in Fds : ext'[f] = IF f \in F THEN NoExt ELSE ext[f]
  BY <1>1 DEF remove_ext_connections, ExtTypeOK, EntryType, NoExt, Ids
<1>14. ExtTypeOK'
  BY <1>1, <1>8, <1>12, <1>13 DEF ExtTypeOK
<1>15. Shrinking
  BY <1>1, <1>10, <1>13 DEF Shrinking
<1>16. NoCrossTalk'
  BY <1>1 DEF NoCrossTalk
<1>17. \A f \in lru' : f \in lru /\ ext'[f] # NoExt
  BY <1>13 DEF TableKept, ExtTypeOK
<1>18. \A f \in Fds : ext'[f] # NoExt => con'[ext[f].out].tag
  BY <1>5, <1>9, <1>13, SMT DEF TableKept, IdsKept
<1>19. \A f \in Fds : ext[f] # NoExt /\ ext'[f] = NoExt => con'[ext[f].out].st # "open"
  BY <1>3, <1>4, <1>9, <1>13
<1>20. \A h \in Conns : con'[h].dropped => con[h].dropped
  BY <1>9
<1> QED BY <1>11, <1>12, <1>14, <1>15, <1>16, <1>17, <1>18, <1>19, <1>20, QuietStep

(* The sender of the packet that is handled is a client, and its           *)
(* descriptor is still its own.                                            *)
LEMMA FirstQuery ==
  ASSUME ExtInv, do_rpcs_execute
  PROVE  /\ Head(jobs).conn \in Conns /\ Born(Head(jobs).conn) /\ con[Head(jobs).conn].kind = "client"
         /\ con[Head(jobs).conn].fd \in Fds /\ ~ Released(Head(jobs).conn)
         /\ jobs' \in Seq(JobType) /\ Jobs' \subseteq Jobs
         /\ events' = events /\ Events' = Events /\ delivered' = {} /\ NoCrossTalk'
<1>1. jobs' \in Seq(JobType) /\ Jobs' \subseteq Jobs /\ Head(jobs) \in Jobs
  BY JobTaken DEF do_rpcs_execute, ExtInv
<1>2. Head(jobs) # N /\ Head(jobs).op = "query"
  BY SMT DEF do_rpcs_execute, N
<1>3. Head(jobs).conn \in Conns
  BY <1>1, <1>2, QueueTypes DEF ExtInv
<1>4. Born(Head(jobs).conn) /\ con[Head(jobs).conn].kind = "client"
  BY <1>1, <1>2 DEF ExtInv, Announced
<1>5. con[Head(jobs).conn].fd \in Fds
  BY <1>3, <1>4 DEF ExtInv, Lives
<1>6. ~ Released(Head(jobs).conn)
  BY <1>1, <1>2 DEF Released, Jobs
<1>7. events' = events /\ Events' = Events /\ delivered' = {} /\ NoCrossTalk'
  BY DEF do_rpcs_execute, Events, NoCrossTalk
<1> QED BY <1>1, <1>3, <1>4, <1>5, <1>6, <1>7

(* A packet that is ignored.                                               *)
LEMMA IgnoreStep ==
  ASSUME ExtInv, do_rpcs_execute, IgnorePacket(Head(jobs).conn)
  PROVE  ExtInv'
<1> USE DEF ExtInv
<1> DEFINE g == Head(jobs).conn
<1>1. /\ g \in Conns /\ con[g].fd \in Fds /\ jobs' \in Seq(JobType) /\ Jobs' \subseteq Jobs
      /\ events' = events /\ Events' = Events /\ delivered' = {} /\ NoCrossTalk'
  BY FirstQuery
<1>2. /\ lru' = IF ext[con[g].fd].in_gen = g THEN lru \cup {con[g].fd} ELSE lru
      /\ UNCHANGED <<con, ext, next_id, asked>>
  BY DEF IgnorePacket
<1> HIDE DEF g
<1>3. ExtTypeOK'
  BY <1>1, <1>2 DEF ExtTypeOK
<1>4. Ageing
  BY <1>1, <1>2 DEF Ageing, Lives, Born
<1>5. Announced'
  BY <1>1, <1>2, <1>4, NothingAnnounced
<1>6. Shrinking
  BY <1>1, <1>2 DEF Shrinking
<1>7. \A f \in lru' : (f \in lru /\ ext'[f] # NoExt) \/ ext'[f].in_gen \in Conns
  BY <1>1, <1>2, SMT DEF TableKept
<1>8. \A f \in Fds : ext'[f] # NoExt => con'[ext[f].out].tag
  BY <1>2 DEF TableKept
<1>9. \A f \in Fds : ~ (ext[f] # NoExt /\ ext'[f] = NoExt)
  BY <1>2
<1>10. \A h \in Conns : con'[h].dropped => con[h].dropped
  BY <1>2
<1> QED BY <1>1, <1>3, <1>4, <1>5, <1>6, <1>7, <1>8, <1>9, <1>10, QuietStep

(* The query is not forwarded and the entry of the descriptor, whose       *)
(* connection is lost, goes.                                               *)
LEMMA UnboundGoes ==
  ASSUME ExtInv, do_rpcs_execute, UNCHANGED <<next_id, asked>>, con' \in [Conns -> ConType],
         NEW f \in Fds, f = con[Head(jobs).conn].fd, Unbound(f), remove_ext_connections({f}),
         \A h \in Conns :
           /\ con'[h].kind = con[h].kind /\ con'[h].fd = con[h].fd /\ con'[h].sock = con[h].sock
           /\ con'[h].tag = con[h].tag
           /\ con'[h].dropped => con[h].dropped \/ h = Head(jobs).conn
           /\ con'[h].st = con[h].st \/ (con[h].st = "open" /\ con'[h].st = "failed")
           /\ h # Head(jobs).conn => con'[h] = con[h]
  PROVE  ExtInv'
<1> USE DEF ExtInv
<1> DEFINE g == Head(jobs).conn
<1>1. /\ g \in Conns /\ Born(g) /\ jobs' \in Seq(JobType) /\ Jobs' \subseteq Jobs
      /\ events' = events /\ Events' = Events /\ delivered' = {} /\ NoCrossTalk'
  BY FirstQuery
<1> HIDE DEF g
<1>2. \A h \in Conns :
           /\ con'[h].kind = con[h].kind /\ con'[h].fd = con[h].fd /\ con'[h].sock = con[h].sock
           /\ con'[h].tag = con[h].tag
           /\ con'[h].dropped => con[h].dropped \/ h = g
           /\ con'[h].st = con[h].st \/ (con[h].st = "open" /\ con'[h].st = "failed")
           /\ h # g => con'[h] = con[h]
  BY DEF g
<1>3. /\ ext' \in [Fds -> EntryType] /\ lru' = lru \ {f} /\ ext'[f] = NoExt
      /\ \A x \in Fds : ext'[x] = IF x = f THEN NoExt ELSE ext[x]
  BY DEF remove_ext_connections, ExtTypeOK, EntryType, NoExt, Ids
<1>4. ExtTypeOK'
  BY <1>1, <1>3 DEF ExtTypeOK
<1>5. Ageing
  BY <1>1, <1>2, SMT DEF Ageing, Lives, Born
<1>6. Announced'
  BY <1>1, <1>2, <1>5, NothingAnnounced
<1>7. Shrinking
  BY <1>1, <1>3 DEF Shrinking
<1>8. \A x \in lru' : x \in lru /\ ext'[x] # NoExt
  BY <1>3, SMTT(30) DEF TableKept, ExtTypeOK
<1>9. \A x \in Fds : ext'[x] # NoExt => con'[ext[x].out].tag
  BY <1>2, <1>3, SMT DEF TableKept, IdsKept
<1>10. ASSUME NEW x \in Fds, ext[x] # NoExt, ext'[x] = NoExt  PROVE con'[ext[x].out].st # "open"
  <2>1. x = f /\ ext[x].out \in Conns
    BY <1>3, <1>10 DEF IdsKept
  <2>2. con[ext[x].out].st # "open"
    BY <2>1 DEF Unbound, Lives
  <2> QED BY <1>2, <2>1, <2>2
<1>11. \A h \in Conns : con'[h].dropped => con[h].dropped \/ ext'[con[h].fd] = NoExt
  BY <1>2, <1>3 DEF g
<1> QED BY <1>1, <1>4, <1>5, <1>6, <1>7, <1>8, <1>9, <1>10, <1>11, QuietStep

(* forward_tcp_query finds no connection *)
LEMMA DropStep ==
  ASSUME ExtInv, do_rpcs_execute, DropQuery(Head(jobs).conn, con[Head(jobs).conn].fd)
  PROVE  ExtInv'
<1> USE DEF ExtInv
<1> DEFINE g == Head(jobs).conn
           f == con[g].fd
           r == [con[g] EXCEPT !.dropped = TRUE]
<1>1. g \in Conns /\ f \in Fds /\ con \in [Conns -> ConType]
  BY FirstQuery DEF ExtTypeOK
<1>2. con' = [con EXCEPT ![g] = r] /\ Unbound(f) /\ remove_ext_connections({f}) /\ UNCHANGED <<next_id, asked>>
  BY DEF DropQuery
<1>3. r \in ConType /\ Same(con[g], r) /\ r.tag = con[g].tag
  BY <1>1, OtherFields
<1> HIDE DEF r
<1>4. con' \in [Conns -> ConType] /\ con'[g] = r /\ \A h \in Conns \ {g} : con'[h] = con[h]
  BY <1>1, <1>2, <1>3, SetCon
<1>5. \A h \in Conns :
           /\ con'[h].kind = con[h].kind /\ con'[h].fd = con[h].fd /\ con'[h].sock = con[h].sock
           /\ con'[h].tag = con[h].tag
           /\ con'[h].dropped => con[h].dropped \/ h = g
           /\ con'[h].st = con[h].st
           /\ h # g => con'[h] = con[h]
  BY <1>3, <1>4 DEF Same
<1> QED BY <1>1, <1>2, <1>4, <1>5, UnboundGoes

(* forward_tcp_query refuses a client that lost a query *)
LEMMA RefuseStep ==
  ASSUME ExtInv, do_rpcs_execute, RefuseAfterDrop(Head(jobs).conn, con[Head(jobs).conn].fd)
  PROVE  ExtInv'
<1> USE DEF ExtInv
<1> DEFINE g == Head(jobs).conn
           f == con[g].fd
<1>1. g \in Conns /\ f \in Fds /\ con \in [Conns -> ConType]
  BY FirstQuery DEF ExtTypeOK
<1>2. con' = Failed(con, {g}) /\ Unbound(f) /\ remove_ext_connections({f}) /\ UNCHANGED <<next_id, asked>>
  BY DEF RefuseAfterDrop
<1>3. /\ con' \in [Conns -> ConType]
      /\ \A h \in Conns :
           /\ con'[h].kind = con[h].kind /\ con'[h].fd = con[h].fd
           /\ con'[h].sock = con[h].sock /\ con'[h].tag = con[h].tag /\ con'[h].dropped = con[h].dropped
           /\ con'[h].st = IF h \in {g} /\ con[h].st = "open" THEN "failed" ELSE con[h].st
  BY <1>1, <1>2, FailedOnly, SMT
<1>4. \A h \in Conns : h # g => con'[h] = con[h]
  BY <1>2 DEF Failed
<1> QED BY <1>1, <1>2, <1>3, <1>4, UnboundGoes

(* What sending a query to a middle proxy changes.                         *)
LEMMA SendChanges ==
  ASSUME ExtTypeOK, NEW g \in Conns, NEW d \in Conns, NEW id \in Ids, NEW o \in Conns, Send(g, d, id, o),
         NEW q, q = [id |-> id, of |-> g, owner |-> o]
  PROVE  /\ con' \in [Conns -> ConType]
         /\ \A h \in Conns :
              /\ con'[h].kind = con[h].kind /\ con'[h].fd = con[h].fd /\ con'[h].sock = con[h].sock
              /\ con'[h].tag = con[h].tag /\ con'[h].dropped = con[h].dropped /\ con'[h].st = con[h].st
              /\ h # g => con'[h] = con[h]
         /\ asked' \in [Conns -> SUBSET [id : Ids, of : Conns, owner : Conns]]
         /\ \A e \in Conns : \A p : p \in asked'[e] <=> p \in asked[e] \/ (e = d /\ p = q)
<1> DEFINE v == ~ con[g].forwarded
           r == [con[g] EXCEPT !.forwarded = v]
<1>1. con \in [Conns -> ConType] /\ v \in BOOLEAN /\ con' = [con EXCEPT ![g] = r]
  BY DEF ExtTypeOK, Send
<1> HIDE DEF v
<1>2. r \in ConType /\ Same(con[g], r) /\ r.tag = con[g].tag /\ r.dropped = con[g].dropped
  BY <1>1, OtherFields, SMT
<1> HIDE DEF r
<1>3. con' \in [Conns -> ConType] /\ con'[g] = r /\ \A h \in Conns \ {g} : con'[h] = con[h]
  BY <1>1, <1>2, SetCon
<1>4. \A h \in Conns :
        /\ con'[h].kind = con[h].kind /\ con'[h].fd = con[h].fd /\ con'[h].sock = con[h].sock
        /\ con'[h].tag = con[h].tag /\ con'[h].dropped = con[h].dropped /\ con'[h].st = con[h].st
        /\ h # g => con'[h] = con[h]
  BY <1>2, <1>3 DEF Same
<1>5. q \in [id : Ids, of : Conns, owner : Conns]
  OBVIOUS
<1>6. asked' = [asked EXCEPT ![d] = @ \cup {q}] /\ asked \in [Conns -> SUBSET [id : Ids, of : Conns, owner : Conns]]
  BY DEF Send, ExtTypeOK
<1>7. /\ asked' \in [Conns -> SUBSET [id : Ids, of : Conns, owner : Conns]]
      /\ \A e \in Conns : \A p : p \in asked'[e] <=> p \in asked[e] \/ (e = d /\ p = q)
  BY <1>5, <1>6
<1> QED BY <1>3, <1>4, <1>7

(* A connection that is not released, and whose descriptor is the one of   *)
(* the sender of the packet that is handled, is the sender.                *)
LEMMA SenderOwnsFd ==
  ASSUME ExtInv, do_rpcs_execute, NEW h \in Conns, Born(h), ~ Released(h), con[h].fd = con[Head(jobs).conn].fd
  PROVE  h = Head(jobs).conn
  BY FirstQuery DEF FdsDiffer, ExtInv

(* forward_tcp_query: the descriptor has an entry *)
LEMMA AgainStep ==
  ASSUME ExtInv, do_rpcs_execute, NEW g \in Conns, g = Head(jobs).conn, NEW f \in Fds, f = con[g].fd,
         ForwardAgain(g, f)
  PROVE  ExtInv'
<1> USE DEF ExtInv
<1>1. /\ g \in Conns /\ Born(g) /\ f \in Fds /\ jobs' \in Seq(JobType) /\ Jobs' \subseteq Jobs
      /\ events' = events /\ Events' = Events /\ delivered' = {} /\ NoCrossTalk'
  BY FirstQuery
<1>0. ext[f] # NoExt /\ ext[f] \in EntryType /\ ext[f].out \in Conns /\ ext[f].in_gen \in Conns
  BY <1>1 DEF ForwardAgain, ExtTypeOK, IdsKept
<1>4. PICK o \in Conns, d \in Conns, n \in Ids : ext[f] = [in_gen |-> o, out |-> d, id |-> n]
  BY <1>0 DEF EntryType
<1>2. /\ con[d].sock /\ Send(g, d, n, o)
      /\ lru' = IF o = g THEN lru \cup {f} ELSE lru
      /\ UNCHANGED <<ext, next_id>>
  BY <1>4, SMTT(30) DEF ForwardAgain, Reachable
<1>3. Given(n) /\ n[1] = f /\ con[o].fd = f
  BY <1>0, <1>1, <1>4, SMT DEF IdsKept, TableKept
<1>5. o = g \/ ~ con[o].sock
  <2>1. con[o].sock => Born(o) /\ ~ Released(o)
    BY UnbornFields DEF Lives, Released
  <2> QED BY <1>3, <2>1, SenderOwnsFd
<1>6. PICK q : q = [id |-> n, of |-> g, owner |-> o] /\ q.id = n /\ q.of = g /\ q.owner = o
  <2> DEFINE q == [id |-> n, of |-> g, owner |-> o]
  <2>1. q = [id |-> n, of |-> g, owner |-> o] /\ q.id = n /\ q.of = g /\ q.owner = o
    OBVIOUS
  <2> HIDE DEF q
  <2> QED BY <2>1
<1>7. /\ con' \in [Conns -> ConType]
      /\ \A h \in Conns :
           /\ con'[h].kind = con[h].kind /\ con'[h].fd = con[h].fd /\ con'[h].sock = con[h].sock
           /\ con'[h].tag = con[h].tag /\ con'[h].dropped = con[h].dropped /\ con'[h].st = con[h].st
           /\ h # g => con'[h] = con[h]
      /\ asked' \in [Conns -> SUBSET [id : Ids, of : Conns, owner : Conns]]
      /\ \A e \in Conns : \A p : p \in asked'[e] <=> p \in asked[e] \/ (e = d /\ p = q)
  BY <1>2, <1>6, SendChanges, SMT
<1>8. ExtTypeOK'
  BY <1>1, <1>2, <1>7 DEF ExtTypeOK
<1>9. Born(d)
  BY <1>2, UnbornFields DEF Lives
<1>10. Ageing
  <2>1. \A h \in Conns : ~ Born(h) => asked'[h] = {}
    BY <1>7, <1>9, SMT DEF Lives
  <2>2. \A h \in Conns : ~ Born(h) => con'[h] = con[h]
    BY <1>1, <1>7
  <2> QED BY <1>1, <1>7, <2>1, <2>2, SMTT(30) DEF Ageing, Lives, Born
<1>11. Lives' /\ FdsDiffer'
  BY <1>10, AgeingKeeps
<1>12. Announced'
  BY <1>1, <1>7, <1>10, NothingAnnounced
<1>13. DroppedOut'
  BY <1>2, <1>7, <1>10, ShrinkingKeepsDropped
<1>14. ASSUME NEW id, NEW h, Given(id) /\ Owned(id, h)  PROVE Given(id)' /\ Owned(id, h)'
  BY <1>2, <1>10, <1>14, OwnedStays DEF Given
<1>15. Owned(q.id, g)
  BY <1>1, <1>3, <1>4, <1>5, <1>6, SMTT(30) DEF Owned, IdsKept
<1>16. IdsKept'
  <2>1. \A x \in Fds : ext'[x] # NoExt =>
          /\ ext'[x].in_gen \in Conns /\ con'[ext'[x].in_gen].kind = "client"
          /\ ext'[x].out \in Conns /\ Given(ext[x].id)' /\ ext'[x].id[1] = x
    BY <1>2, <1>7, SMT DEF IdsKept, Given
  <2>2. ASSUME NEW e \in Conns, NEW p \in asked'[e]  PROVE Born(p.of)' /\ Given(p.id)' /\ Owned(p.id, p.of)'
    <3>1. CASE p \in asked[e]
      <4>1. p.of \in Conns
        BY <3>1, SMT DEF ExtTypeOK
      <4> QED BY <1>10, <1>14, <3>1, <4>1 DEF IdsKept, Ageing
    <3>2. CASE p = q
      BY <1>1, <1>3, <1>6, <1>10, <1>14, <1>15, <3>2 DEF Ageing
    <3> QED BY <1>7, <2>2, <3>1, <3>2
  <2>3. \A j \in Jobs' \ {N} : j.op # "query" => Given(j.id)' /\ Owned(j.id, j.of)'
    BY <1>1, <1>14 DEF IdsKept
  <2> QED BY <1>2, <2>1, <2>2, <2>3 DEF IdsKept
<1>17. TableKept'
  <2>1. \A x \in Fds : ext'[x] # NoExt =>
          con'[ext'[x].out].tag /\ con'[ext'[x].in_gen].fd = x /\ ext'[x].in_gen # ext'[x].out
    BY <1>2, <1>7, SMT DEF TableKept, IdsKept
  <2>2. ListsApart'
    BY <1>11, <1>12, TagsNotReleasedNext
  <2>3. \A x \in lru' : ext'[x] # NoExt
    BY <1>0, <1>2 DEF TableKept
  <2>4. ASSUME NEW e \in Conns, NEW h \in Conns, NEW p \in asked'[e],
               p.of = h, p.owner = h, con'[h].st = "open", con'[e].st = "open"
        PROVE  ext'[con'[h].fd] = [in_gen |-> h, out |-> e, id |-> p.id]
    <3>1. CASE p \in asked[e]
      BY <1>2, <1>7, <2>4, <3>1, SMTT(30) DEF TableKept
    <3>2. CASE p = q /\ e = d
      BY <1>1, <1>2, <1>4, <1>6, <1>7, <2>4, <3>2, SMT
    <3> QED BY <1>7, <2>4, <3>1, <3>2
  <2> QED BY <2>1, <2>2, <2>3, <2>4, SMTT(30) DEF TableKept, ListsApart
<1> QED BY <1>1, <1>8, <1>11, <1>12, <1>13, <1>16, <1>17

(* A new id was never given out, and is from now on.                       *)
LEMMA FreshId ==
  ASSUME NEW f \in Fds, next_id \in [Fds -> Nat], NEW n, n = NewId(f), next_id' = [next_id EXCEPT ![f] = @ + 1]
  PROVE  /\ n \in Ids /\ n[1] = f /\ ~ Given(n)
         /\ next_id' \in [Fds -> Nat] /\ Given(n)'
         /\ \A id \in Ids : Given(id) => Given(id)'
<1>1. n \in Ids /\ n[1] = f /\ n[2] = next_id[f] + 1 /\ next_id[f] \in Nat
  BY SMT DEF Ids, NewId
<1>2. /\ next_id' \in [Fds -> Nat] /\ next_id'[f] = next_id[f] + 1
      /\ \A x \in Fds : next_id[x] <= next_id'[x] /\ next_id[x] \in Nat /\ next_id'[x] \in Nat
  BY SMT
<1>3. ~ Given(n)
  BY <1>1, SMT DEF Given
<1>4. Given(n)'
  BY <1>1, <1>2, SMT DEF Given
<1>5. \A id \in Ids : Given(id) => Given(id)'
  BY <1>2, SMT DEF Given, Ids
<1> QED BY <1>1, <1>2, <1>3, <1>4, <1>5

(* forward_tcp_query: a new entry, under an id that was never given out *)
LEMMA FirstStep ==
  ASSUME ExtInv, do_rpcs_execute, NEW g \in Conns, g = Head(jobs).conn, NEW f \in Fds, f = con[g].fd,
         ForwardFirst(g, f)
  PROVE  ExtInv'
<1> USE DEF ExtInv
<1>1. /\ g \in Conns /\ Born(g) /\ f \in Fds /\ jobs' \in Seq(JobType) /\ Jobs' \subseteq Jobs
      /\ events' = events /\ Events' = Events /\ delivered' = {} /\ NoCrossTalk'
      /\ con[g].kind = "client"
  BY FirstQuery
<1>5. PICK n : /\ n = NewId(f) /\ n \in Ids /\ n[1] = f /\ ~ Given(n)
               /\ next_id' \in [Fds -> Nat] /\ Given(n)'
               /\ \A id \in Ids : Given(id) => Given(id)'
  <2>1. PICK n : n = NewId(f)
    OBVIOUS
  <2>2. next_id \in [Fds -> Nat] /\ next_id' = [next_id EXCEPT ![f] = @ + 1]
    BY DEF ExtTypeOK, ForwardFirst
  <2> QED BY <2>1, <2>2, FreshId
<1>2. PICK d \in ChosenConns :
        /\ ext' = [ext EXCEPT ![f] = [in_gen |-> g, out |-> d, id |-> n]]
        /\ Send(g, d, n, g)
  BY <1>5 DEF ForwardFirst
<1>3. Unbound(f) /\ ~ con[g].dropped /\ lru' = lru \ {f}
  BY DEF ForwardFirst
<1>4. d \in Conns /\ con[d].kind = "middle" /\ con[d].st = "open" /\ con[d].tag /\ d # g
  BY <1>1 DEF ChosenConns
<1>6. PICK q : q = [id |-> n, of |-> g, owner |-> g] /\ q.id = n /\ q.of = g /\ q.owner = g
  <2> DEFINE q == [id |-> n, of |-> g, owner |-> g]
  <2>1. q = [id |-> n, of |-> g, owner |-> g] /\ q.id = n /\ q.of = g /\ q.owner = g
    OBVIOUS
  <2> HIDE DEF q
  <2> QED BY <2>1
<1> DEFINE x0 == [in_gen |-> g, out |-> d, id |-> n]
<1>7. /\ con' \in [Conns -> ConType]
      /\ \A h \in Conns :
           /\ con'[h].kind = con[h].kind /\ con'[h].fd = con[h].fd /\ con'[h].sock = con[h].sock
           /\ con'[h].tag = con[h].tag /\ con'[h].dropped = con[h].dropped /\ con'[h].st = con[h].st
           /\ h # g => con'[h] = con[h]
      /\ asked' \in [Conns -> SUBSET [id : Ids, of : Conns, owner : Conns]]
      /\ \A e \in Conns : \A p : p \in asked'[e] <=> p \in asked[e] \/ (e = d /\ p = q)
  <2>1. ExtTypeOK /\ d \in Conns /\ n \in Ids /\ Send(g, d, n, g) /\ q = [id |-> n, of |-> g, owner |-> g]
    BY <1>2, <1>4, <1>5, <1>6
  <2> QED BY <2>1, SendChanges, SMT
<1>8. x0 \in EntryType /\ x0.in_gen = g /\ x0.out = d /\ x0.id = n /\ x0 # NoExt
  <2>1. x0 \in EntryType /\ x0.in_gen = g /\ x0.out = d /\ x0.id = n
    BY <1>1, <1>4, <1>5 DEF EntryType
  <2>2. g # 0
    BY <1>1, ExtAssumption, SMT DEF Conns
  <2> QED BY <2>1, <2>2 DEF NoExt
<1>9. ext' \in [Fds -> EntryType] /\ ext'[f] = x0 /\ \A x \in Fds \ {f} : ext'[x] = ext[x]
  <2> HIDE DEF x0
  <2>1. ext' = [ext EXCEPT ![f] = x0]
    BY <1>2 DEF x0
  <2> QED BY <1>1, <1>8, <2>1 DEF ExtTypeOK
<1> HIDE DEF x0
<1>11. ExtTypeOK'
  BY <1>1, <1>3, <1>5, <1>7, <1>9 DEF ExtTypeOK
<1>12. Ageing
  <2>1. \A h \in Conns : ~ Born(h) => asked'[h] = {}
    BY <1>4, <1>7 DEF Lives, Born
  <2>2. \A h \in Conns : ~ Born(h) => con'[h] = con[h]
    BY <1>1, <1>7
  <2> QED BY <1>1, <1>7, <2>1, <2>2, SMT DEF Ageing, Lives, Born
<1>13. Lives' /\ FdsDiffer'
  BY <1>12, AgeingKeeps
<1>14. Announced'
  BY <1>1, <1>7, <1>12, NothingAnnounced
<1>15. ASSUME NEW id \in Ids, Given(id)  PROVE Given(id)'
  BY <1>5, <1>15
<1>16. ASSUME NEW id \in Ids, NEW h, Given(id), Owned(id, h)  PROVE Owned(id, h)'
  <2> SUFFICES ASSUME NEW x \in Fds, ext'[x] # NoExt, ext'[x].id = id
               PROVE  ext'[x].in_gen = h \/ ~ con'[ext'[x].in_gen].sock
    BY DEF Owned
  <2>1. x # f
    BY <1>5, <1>8, <1>9, <1>16
  <2>2. ext'[x] = ext[x] /\ ext[x].in_gen \in Conns
    BY <1>9, <2>1 DEF IdsKept
  <2> QED BY <1>7, <1>16, <2>2, SMT DEF Owned
<1>17. \A x \in Fds \ {f} : ext'[x] # NoExt =>
         /\ ext'[x] = ext[x] /\ ext[x].id \in Ids
         /\ ext[x].in_gen \in Conns /\ con[ext[x].in_gen].kind = "client"
         /\ ext[x].out \in Conns /\ Given(ext[x].id) /\ ext[x].id[1] = x
  BY <1>9 DEF IdsKept, ExtTypeOK, EntryType
<1>18. IdsKept'
  <2>1. ASSUME NEW x \in Fds, ext'[x] # NoExt
        PROVE  /\ ext'[x].in_gen \in Conns /\ con'[ext'[x].in_gen].kind = "client"
               /\ ext'[x].out \in Conns /\ Given(ext[x].id)' /\ ext'[x].id[1] = x
    <3>1. CASE x = f
      <4>1. ext'[x].in_gen = g /\ ext'[x].out = d /\ ext'[x].id = n
        BY <1>8, <1>9, <3>1
      <4>2. con'[g].kind = "client"
        BY <1>1, <1>7
      <4>3. n[1] \in Fds /\ n[2] <= next_id'[n[1]]
        BY <1>5 DEF Given
      <4> QED BY <1>4, <1>5, <3>1, <4>1, <4>2, <4>3 DEF Given
    <3>2. CASE x # f
      <4>1. ext'[x] = ext[x] /\ Given(ext[x].id)'
        BY <1>15, <1>17, <2>1, <3>2 DEF Given
      <4>2. con'[ext[x].in_gen].kind = "client"
        <5>1. ext[x].in_gen \in Conns /\ con[ext[x].in_gen].kind = "client"
          BY <1>17, <2>1, <3>2
        <5> QED BY <1>7, <5>1
      <4> QED BY <1>17, <2>1, <3>2, <4>1, <4>2
    <3> QED BY <3>1, <3>2
  <2>2. ASSUME NEW e \in Conns, NEW p \in asked'[e]  PROVE Born(p.of)' /\ Given(p.id)' /\ Owned(p.id, p.of)'
    <3>1. CASE p \in asked[e]
      <4>1. p.of \in Conns /\ p.id \in Ids /\ Born(p.of) /\ Given(p.id) /\ Owned(p.id, p.of)
        BY <3>1, SMT DEF ExtTypeOK, IdsKept
      <4> QED BY <1>12, <1>15, <1>16, <4>1 DEF Ageing
    <3>2. CASE p = q
      <4>1. Given(n)'
        BY <1>5
      <4>2. Owned(n, g)'
        <5>1. \A x \in Fds : ext'[x] # NoExt /\ ext'[x].id = n => x = f
          <6>1. \A x \in Fds \ {f} : ext'[x] # NoExt => ext'[x].id[1] = x
            BY <1>17
          <6> QED BY <1>5, <6>1
        <5>2. ext'[f].in_gen = g
          BY <1>8, <1>9
        <5> QED BY <5>1, <5>2 DEF Owned
      <4> QED BY <1>1, <1>6, <1>12, <3>2, <4>1, <4>2 DEF Ageing
    <3> QED BY <1>7, <2>2, <3>1, <3>2
  <2>3. ASSUME NEW j \in Jobs' \ {N}, j.op # "query"  PROVE Given(j.id)' /\ Owned(j.id, j.of)'
    <3>1. j.id \in Ids /\ Given(j.id) /\ Owned(j.id, j.of)
      BY <1>1, <2>3, QueueTypes DEF IdsKept
    <3> QED BY <1>15, <1>16, <3>1
  <2> QED BY <2>1, <2>2, <2>3 DEF IdsKept
<1>19. DroppedOut'
  <2> SUFFICES ASSUME NEW h \in Conns, con'[h].dropped, ~ Released(h)'
               PROVE  ext'[con'[h].fd] = NoExt
    BY DEF DroppedOut
  <2>1. con[h].dropped /\ ~ Released(h) /\ con'[h].fd = con[h].fd
    BY <1>7, <1>12, ReleasedStays
  <2>2. Born(h) /\ con[h].fd \in Fds
    <3>1. con[h] # Unborn
      BY <2>1, UnbornFields
    <3> QED BY <3>1 DEF Lives
  <2>3. con[h].fd # f
    <3>1. con[h].fd = f => h = g
      BY <2>1, <2>2, SenderOwnsFd
    <3> QED BY <1>3, <2>1, <3>1
  <2> QED BY <1>9, <2>1, <2>2, <2>3 DEF DroppedOut
<1>20. TableKept'
  <2>1. ASSUME NEW x \in Fds, ext'[x] # NoExt
        PROVE  con'[ext'[x].out].tag /\ con'[ext'[x].in_gen].fd = x /\ ext'[x].in_gen # ext'[x].out
    <3>1. CASE x = f
      <4>1. ext'[x].in_gen = g /\ ext'[x].out = d
        BY <1>8, <1>9, <3>1
      <4>2. con'[g].fd = f
        BY <1>7
      <4>3. con'[d].tag
        BY <1>4, <1>7
      <4> QED BY <1>4, <3>1, <4>1, <4>2, <4>3
    <3>2. CASE x # f
      BY <1>7, <1>17, <2>1, <3>2, SMTT(30) DEF TableKept
    <3> QED BY <3>1, <3>2
  <2>2. ListsApart'
    BY <1>13, <1>14, TagsNotReleasedNext
  <2>3. \A x \in lru' : ext'[x] # NoExt
    BY <1>3, <1>9 DEF TableKept, ExtTypeOK
  <2>4. ASSUME NEW e \in Conns, NEW h \in Conns, NEW p \in asked'[e],
               p.of = h, p.owner = h, con'[h].st = "open", con'[e].st = "open"
        PROVE  ext'[con'[h].fd] = [in_gen |-> h, out |-> e, id |-> p.id]
    <3>1. CASE p \in asked[e]
      <4>1. /\ ext[con[h].fd] = [in_gen |-> h, out |-> e, id |-> p.id] /\ con'[h].fd = con[h].fd
            /\ con[h].st = "open" /\ con[e].st = "open" /\ con[e].sock
        BY <1>7, <2>4, <3>1, SMTT(30) DEF TableKept, Lives
      <4>2. con[h].fd \in Fds
        BY <4>1 DEF Lives, Born
      <4>3. con[h].fd # f
        <5>1. ext[con[h].fd].out = e
          BY <4>1, SMT
        <5>2. con[h].fd = f => ext[f].out # e
          BY <1>3, <4>1 DEF Unbound
        <5> QED BY <5>1, <5>2
      <4> QED BY <1>9, <4>1, <4>2, <4>3
    <3>2. CASE p = q /\ e = d
      <4>1. h = g /\ con'[h].fd = f /\ p.id = n
        BY <1>1, <1>6, <1>7, <2>4, <3>2
      <4> QED BY <1>9, <3>2, <4>1 DEF x0
    <3> QED BY <1>7, <2>4, <3>1, <3>2
  <2> QED BY <2>1, <2>2, <2>3, <2>4, SMT DEF TableKept, ListsApart
<1> QED BY <1>1, <1>11, <1>13, <1>14, <1>18, <1>19, <1>20

(* A new connection gets a descriptor that nobody has.                     *)
LEMMA NewConnection ==
  ASSUME ExtInv, ExtTypeOK', Announced', NoCrossTalk',
         NEW g \in Conns, ~ Born(g), NEW f \in Fds, f \notin InUse,
         \A h \in Conns \ {g} : con'[h] = con[h],
         con'[g].kind \in {"client", "middle"}, con'[g].fd = f, con'[g].st = "open", con'[g].sock,
         ~ con'[g].tag, ~ con'[g].dropped,
         UNCHANGED <<ext, next_id, lru, asked>>,
         Jobs' \ {N} = Jobs \ {N}, Events \subseteq Events', \A e \in Events' : e \in Events \/ e.who = g
  PROVE  ExtInv'
<1> USE DEF ExtInv
<1>0. ext' = ext /\ next_id' = next_id /\ lru' = lru /\ asked' = asked
  OBVIOUS
<1>1. con[g] = Unborn /\ asked[g] = {}
  BY DEF Lives
<1>2. con[g].kind = "none" /\ ~ con[g].tag /\ ~ con[g].dropped /\ ~ con[g].sock
  BY <1>1, UnbornFields
<1>3. Lives'
  BY SMT DEF Lives, Born
<1>4. ASSUME NEW h \in Conns \ {g}, Released(h)  PROVE Released(h)'
  <2>1. con'[h].st = "closed" /\ ~ con'[h].sock
    BY <1>4 DEF Released
  <2>2. \A e \in Events' : e.who # h
    BY <1>4, SMT DEF Released, Events
  <2>3. \A j \in Jobs' : j = N \/ j.conn # h
    <3>1. \A j \in Jobs : j = N \/ j.conn # h
      BY <1>4 DEF Released, Jobs
    <3>2. \A j \in Jobs' : j = N \/ j \in Jobs
      OBVIOUS
    <3> QED BY <3>1, <3>2
  <2> QED BY <2>1, <2>2, <2>3 DEF Released, Events, Jobs
<1>5. \A h \in Conns \ {g} : Born(h)' /\ ~ Released(h)' => Born(h) /\ ~ Released(h) /\ con[h].fd # f
  BY <1>4 DEF InUse, Born
<1>6. FdsDiffer'
  BY <1>5, SMT DEF FdsDiffer
<1>7. \A x \in Fds : ext[x] # NoExt => ext[x].in_gen \in Conns \ {g} /\ ext[x].out \in Conns \ {g}
  BY <1>2 DEF IdsKept, TableKept
<1>8. ASSUME NEW id, NEW h, Given(id) /\ Owned(id, h)  PROVE Given(id)' /\ Owned(id, h)'
  BY <1>7, <1>8 DEF Given, Owned
<1>9. \A d \in Conns : \A q \in asked[d] : q.of \in Conns \ {g} /\ d # g
  BY <1>1, SMT DEF IdsKept, ExtTypeOK
<1>10. IdsKept'
  <2>1. \A x \in Fds : ext'[x] # NoExt =>
          /\ ext'[x].in_gen \in Conns /\ con'[ext'[x].in_gen].kind = "client"
          /\ ext'[x].out \in Conns /\ Given(ext[x].id)' /\ ext'[x].id[1] = x
    BY <1>7, SMTT(30) DEF IdsKept, Given
  <2>2. \A d \in Conns : \A q \in asked'[d] : Born(q.of)' /\ Given(q.id)' /\ Owned(q.id, q.of)'
    BY <1>8, <1>9, SMT DEF IdsKept, Born
  <2>3. \A j \in Jobs' \ {N} : j.op # "query" => Given(j.id)' /\ Owned(j.id, j.of)'
    BY <1>8 DEF IdsKept
  <2> QED BY <2>1, <2>2, <2>3 DEF IdsKept
<1>11. DroppedOut'
  BY <1>4 DEF DroppedOut
<1>12. TableKept'
  <2>1. \A x \in Fds : ext'[x] # NoExt =>
          con'[ext'[x].out].tag /\ con'[ext'[x].in_gen].fd = x /\ ext'[x].in_gen # ext'[x].out
    <3> SUFFICES ASSUME NEW x \in Fds, ext[x] # NoExt
                 PROVE  con'[ext[x].out].tag /\ con'[ext[x].in_gen].fd = x /\ ext[x].in_gen # ext[x].out
      BY <1>0
    <3>1. con'[ext[x].out] = con[ext[x].out] /\ con'[ext[x].in_gen] = con[ext[x].in_gen]
      BY <1>7
    <3> QED BY <3>1, SMT DEF TableKept
  <2>2. ListsApart'
    BY <1>3, <1>6, TagsNotReleasedNext
  <2>3. \A x \in lru' : ext'[x] # NoExt
    BY DEF TableKept
  <2>4. ASSUME NEW d \in Conns, NEW h \in Conns, NEW q \in asked'[d],
               q.of = h, q.owner = h, con'[h].st = "open", con'[d].st = "open"
        PROVE  ext'[con'[h].fd] = [in_gen |-> h, out |-> d, id |-> q.id]
    <3>1. q \in asked[d] /\ con'[h] = con[h] /\ con'[d] = con[d] /\ ext' = ext
      BY <1>0, <1>9, <2>4
    <3>2. ext[con[h].fd] = [in_gen |-> h, out |-> d, id |-> q.id]
      BY <2>4, <3>1, SMTT(30) DEF TableKept
    <3> QED BY <3>1, <3>2
  <2> QED BY <2>1, <2>2, <2>3, <2>4, SMTT(30) DEF TableKept, ListsApart
<1> QED BY <1>3, <1>6, <1>10, <1>11, <1>12

(* tcp_rpcs_init_accepted_nohs *)
LEMMA AcceptStep ==
  ASSUME ExtInv, NEW g \in Conns, NEW f \in Fds, AcceptClient(g, f)
  PROVE  ExtInv'
<1> USE DEF ExtInv
<1> DEFINE r == [Unborn EXCEPT !.kind = "client", !.fd = f, !.st = "open", !.sock = TRUE]
<1>1. /\ con' = [con EXCEPT ![g] = r] /\ delivered' = {} /\ UNCHANGED <<ext, next_id, lru, asked>>
      /\ ~ Born(g) /\ f \notin InUse /\ notification_event_insert_conn("ready", g) /\ con \in [Conns -> ConType]
  BY DEF AcceptClient, IsNext, Born, ExtTypeOK
<1>2. Unborn \in ConType /\ ~ Unborn.tag /\ ~ Unborn.dropped
  BY UnbornFields
<1>3. r \in ConType
  <2>1. \A u \in ConType : [u EXCEPT !.kind = "client", !.fd = f, !.st = "open", !.sock = TRUE] \in ConType
    BY DEF ConType
  <2> QED BY <1>2, <2>1
<1>4. r.kind = "client" /\ r.fd = f /\ r.st = "open" /\ r.sock /\ ~ r.tag /\ ~ r.dropped
  <2>1. r.kind = "client" /\ r.fd = f /\ r.st = "open" /\ r.tag = Unborn.tag /\ r.dropped = Unborn.dropped
    BY <1>2 DEF ConType
  <2>2. r.sock
    BY <1>2 DEF ConType
  <2> QED BY <1>2, <2>1, <2>2
<1> HIDE DEF r
<1>5. con' \in [Conns -> ConType] /\ con'[g] = r /\ \A h \in Conns \ {g} : con'[h] = con[h]
  BY <1>1, <1>3, SetCon
<1>6. /\ Announced' /\ jobs' \in Seq(JobType) /\ events' \in Seq(EventType)
      /\ Jobs' \ {N} = Jobs \ {N} /\ Events' = Events \cup {[type |-> "ready", who |-> g]}
  <2>1. Born(g)' /\ con'[g].st # "closed"
    BY <1>4, <1>5 DEF Born
  <2>2. \A h \in Conns : /\ Born(h) => Born(h)' /\ con'[h].kind = con[h].kind
                         /\ con[h].st = "closed" => con'[h].st = "closed"
                         /\ con'[h].st = "closed" => con[h].st = "closed" \/ h = g
                         /\ con'[h].tag => con[h].tag
    BY <1>1, <1>4, <1>5 DEF Born
  <2> QED BY <1>1, <2>1, <2>2, OneAnnounced
<1>7. ExtTypeOK'
  BY <1>1, <1>5, <1>6 DEF ExtTypeOK
<1>8. NoCrossTalk'
  BY <1>1 DEF NoCrossTalk
<1> QED BY <1>1, <1>4, <1>5, <1>6, <1>7, <1>8, NewConnection, SMT

(* A connection to a middle proxy is made *)
LEMMA ConnectStep ==
  ASSUME ExtInv, NEW g \in Conns, NEW f \in Fds, ConnectMiddle(g, f)
  PROVE  ExtInv'
<1> USE DEF ExtInv
<1> DEFINE r == [Unborn EXCEPT !.kind = "middle", !.fd = f, !.st = "open", !.sock = TRUE]
<1>1. /\ con' = [con EXCEPT ![g] = r] /\ delivered' = {} /\ UNCHANGED <<ext, next_id, lru, jobs, events, asked>>
      /\ ~ Born(g) /\ f \notin InUse /\ con \in [Conns -> ConType]
  BY DEF ConnectMiddle, IsNext, Born, ExtTypeOK
<1>2. Unborn \in ConType /\ ~ Unborn.tag /\ ~ Unborn.dropped
  BY UnbornFields
<1>3. r \in ConType
  <2>1. \A u \in ConType : [u EXCEPT !.kind = "middle", !.fd = f, !.st = "open", !.sock = TRUE] \in ConType
    BY DEF ConType
  <2> QED BY <1>2, <2>1
<1>4. r.kind = "middle" /\ r.fd = f /\ r.st = "open" /\ r.sock /\ ~ r.tag /\ ~ r.dropped
  <2>1. r.kind = "middle" /\ r.fd = f /\ r.st = "open" /\ r.tag = Unborn.tag /\ r.dropped = Unborn.dropped
    BY <1>2 DEF ConType
  <2>2. r.sock
    BY <1>2 DEF ConType
  <2> QED BY <1>2, <2>1, <2>2
<1> HIDE DEF r
<1>5. con' \in [Conns -> ConType] /\ con'[g] = r /\ \A h \in Conns \ {g} : con'[h] = con[h]
  BY <1>1, <1>3, SetCon
<1>6. Jobs' = Jobs /\ Events' = Events
  BY <1>1 DEF Jobs, Events
<1>7. Announced'
  <2>1. \A j \in Jobs \ {N} : j.conn \in Conns \ {g}
    BY <1>1, QueueTypes DEF Announced
  <2>2. \A e \in Events : e.who \in Conns \ {g}
    BY <1>1, QueueTypes DEF Announced
  <2>3. \A j \in Jobs' \ {N} : Born(j.conn)' /\ (j.op = "query" => con'[j.conn].kind = "client")
    BY <1>5, <1>6, <2>1 DEF Announced, Born
  <2>4. \A e \in Events' : Born(e.who)' /\ (e.type = "close" => con'[e.who].st = "closed")
    BY <1>5, <1>6, <2>2 DEF Announced, Born
  <2>5. \A i \in 1..Len(events') :
          events'[i].type = "ready" /\ con'[events'[i].who].st = "closed" =>
            \E k \in i+1..Len(events') : events'[k] = [type |-> "close", who |-> events'[i].who]
    <3>1. \A i \in 1..Len(events) : events[i].who \in Conns \ {g}
      BY <2>2 DEF Events
    <3> SUFFICES ASSUME NEW i \in 1..Len(events), events[i].type = "ready", con'[events[i].who].st = "closed"
                 PROVE  \E k \in i+1..Len(events) : events[k] = [type |-> "close", who |-> events[i].who]
      BY <1>1
    <3>2. con'[events[i].who] = con[events[i].who]
      BY <1>5, <3>1
    <3> QED BY <3>2 DEF Announced
  <2>6. \A d \in Conns : con'[d].tag => con'[d].st # "closed" \/ Closing(d)'
    BY <1>4, <1>5, <1>6, SMTT(30) DEF Announced, Closing
  <2> QED BY <2>3, <2>4, <2>5, <2>6 DEF Announced
<1>8. ExtTypeOK'
  BY <1>1, <1>5 DEF ExtTypeOK
<1>9. NoCrossTalk'
  BY <1>1 DEF NoCrossTalk
<1> QED BY <1>1, <1>4, <1>5, <1>6, <1>7, <1>8, <1>9, NewConnection

-----------------------------------------------------------------------------
(* The invariant holds at the start.                                       *)
LEMMA ExtStart == ExtInit => ExtInv
<1> SUFFICES ASSUME ExtInit PROVE ExtInv
  OBVIOUS
<1>1. Unborn \in ConType /\ NoExt \in EntryType
  BY DEF Unborn, ConType, NoExt, EntryType, Ids
<1>2. \A g \in Conns : con[g] = Unborn /\ con[g].st = "none" /\ ~ con[g].tag /\ ~ con[g].dropped
  BY DEF ExtInit, Unborn
<1>3. ExtTypeOK
  BY <1>1, SMT DEF ExtInit, ExtTypeOK
<1>4. Jobs = {} /\ Events = {} /\ Len(events) = 0
  BY SMT DEF ExtInit, Jobs, Events
<1>5. Lives /\ FdsDiffer
  BY <1>2 DEF Lives, FdsDiffer, Born, ExtInit
<1>6. Announced
  BY <1>2, <1>4, SMT DEF Announced
<1>7. IdsKept /\ DroppedOut
  BY <1>2, <1>4 DEF ExtInit, IdsKept, DroppedOut
<1>8. TableKept /\ NoCrossTalk
  BY <1>2 DEF ExtInit, TableKept, NoCrossTalk
<1> QED BY <1>3, <1>5, <1>6, <1>7, <1>8 DEF ExtInv

(* Every step keeps it.                                                    *)
LEMMA ExtKept == ExtInv /\ [ExtNext]_extVars => ExtInv'
<1> SUFFICES ASSUME ExtInv, [ExtNext]_extVars PROVE ExtInv'
  OBVIOUS
<1>1. ASSUME NEW g \in Conns, NEW f \in Fds, AcceptClient(g, f) \/ ConnectMiddle(g, f)  PROVE ExtInv'
  BY <1>1, AcceptStep, ConnectStep
<1>2. ASSUME NEW g \in Conns,
             HandshakeDone(g) \/ FailConnection(g) \/ fail_socket_connection(g) \/ close_connection(g)
      PROVE  ExtInv'
  BY <1>2, HandshakeStep, FailConnectionStep, FailSocketStep, CloseStep
<1>3. ASSUME NEW g \in Conns, ext_rpcs_execute(g) \/ rpcc_execute(g)  PROVE ExtInv'
  BY <1>3, PacketStep, AnswerQueued
<1>4. CASE run_notification_event
  <2>1. /\ events # <<>>
        /\ \/ Head(events).type = "ready" /\ rpc_ready(Head(events).who)
           \/ Head(events).type = "close" /\ mtfront_client_close(Head(events).who)
           \/ /\ Head(events).type = "close" /\ con[Head(events).who].kind = "client"
              /\ mtproto_ext_rpc_close(Head(events).who)
    BY <1>4 DEF run_notification_event
  <2> QED BY <1>4, <2>1, ReadyStep, MiddleCloseStep, ClientCloseStep
<1>5. CASE notification_event_done
  BY <1>5, DoneStep
<1>6. CASE do_rpcs_execute
  <2>1. Head(jobs).conn \in Conns /\ con[Head(jobs).conn].fd \in Fds
    BY <1>6, FirstQuery
  <2>2. PICK g \in Conns, f \in Fds : g = Head(jobs).conn /\ f = con[g].fd
    BY <2>1
  <2>3. \/ ForwardAgain(g, f) \/ DropQuery(g, f) \/ RefuseAfterDrop(g, f)
        \/ ForwardFirst(g, f) \/ IgnorePacket(g)
    BY <1>6, <2>2 DEF do_rpcs_execute, forward_tcp_query
  <2> QED BY <1>6, <2>2, <2>3, AgainStep, DropStep, RefuseStep, FirstStep, IgnoreStep
<1>7. CASE process_proxy_ans \/ process_close_ext \/ check_all_conn_buffers
  BY <1>7, AnswerStep, CloseExtStep, BuffersStep
<1>8. CASE UNCHANGED extVars
  <2>1. Jobs' = Jobs /\ Events' = Events
    BY <1>8 DEF extVars, Jobs, Events
  <2>2. UNCHANGED <<con, ext, next_id, lru, jobs, events, asked, delivered>>
    BY <1>8 DEF extVars
  <2>3. \A g : (Born(g)' <=> Born(g)) /\ (Released(g)' <=> Released(g)) /\ (Closing(g)' <=> Closing(g))
    BY <2>1, <2>2 DEF Born, Released, Closing
  <2>4. (ExtTypeOK /\ Lives /\ FdsDiffer /\ Announced)'
    BY <2>1, <2>2, <2>3 DEF ExtInv, ExtTypeOK, Lives, FdsDiffer, Announced
  <2>5. (IdsKept /\ DroppedOut)'
    <3>1. \A id, g : (Given(id)' <=> Given(id)) /\ (Owned(id, g)' <=> Owned(id, g))
      BY <2>2 DEF Given, Owned
    <3>2. \A f \in Fds : Given(ext[f].id)' <=> Given(ext[f].id)
      BY <2>2 DEF Given
    <3> QED BY <2>1, <2>2, <2>3, <3>1, <3>2 DEF ExtInv, IdsKept, DroppedOut
  <2>6. (TableKept /\ NoCrossTalk)'
    BY <2>2, SMT DEF ExtInv, TableKept, NoCrossTalk
  <2> QED BY <2>4, <2>5, <2>6 DEF ExtInv
<1> QED BY <1>1, <1>2, <1>3, <1>4, <1>5, <1>6, <1>7, <1>8 DEF ExtNext

(* No answer reaches a client that did not ask for it, whatever order      *)
(* connections, notifications and packets come in (forward_tcp_query,      *)
(* process_client_packet, mtproto_ext_rpc_close, mtfront_client_close).    *)
THEOREM AnswersReachAskers == ExtSpec => [](ExtTypeOK /\ NoCrossTalk)
<1>1. ExtInv => ExtTypeOK /\ NoCrossTalk
  BY DEF ExtInv
<1> QED BY <1>1, ExtStart, ExtKept, PTL DEF ExtSpec

(* The table of external connections is right at all times: entries, lists *)
(* of connections and LRU list agree, and the entry of a client that still *)
(* waits for an answer is there (forward_tcp_query,                        *)
(* remove_ext_connection).                                                 *)
THEOREM TableStaysWhole == ExtSpec => []TableKept
<1>1. ExtInv => TableKept
  BY DEF ExtInv
<1> QED BY <1>1, ExtStart, ExtKept, PTL DEF ExtSpec

-----------------------------------------------------------------------------
Silent == \A g \in Conns : con[g].dropped => con'[g].forwarded = con[g].forwarded

(* A step that sets other fields of one connection forwards nothing.       *)
LEMMA OneSilent ==
  ASSUME con \in [Conns -> ConType], NEW g \in Conns, NEW r, con' = [con EXCEPT ![g] = r],
         con[g].dropped => r.forwarded = con[g].forwarded
  PROVE  Silent
<1>1. con'[g] = r /\ \A h \in Conns \ {g} : con'[h] = con[h]
  OBVIOUS
<1> QED BY <1>1 DEF Silent

(* Neither does one that fails connections.                                *)
LEMMA FailedSilent ==
  ASSUME con \in [Conns -> ConType], NEW S, con' = Failed(con, S)
  PROVE  Silent
<1>1. \A g \in Conns : Failed(con, S)[g].forwarded = con[g].forwarded
  BY FailedOnly
<1> QED BY <1>1 DEF Silent

(* Connections' own steps forward nothing.                                 *)
LEMMA ConnectionSilent ==
  ASSUME ExtInv, NEW g \in Conns,
         \/ \E f \in Fds : AcceptClient(g, f) \/ ConnectMiddle(g, f)
         \/ HandshakeDone(g) \/ FailConnection(g) \/ fail_socket_connection(g) \/ close_connection(g)
         \/ ext_rpcs_execute(g) \/ rpcc_execute(g)
  PROVE  Silent
<1>1. con \in [Conns -> ConType] /\ con[g] \in ConType
  BY DEF ExtInv, ExtTypeOK
<1>2. ASSUME NEW f \in Fds, AcceptClient(g, f) \/ ConnectMiddle(g, f)  PROVE Silent
  <2>1. ~ con[g].dropped
    <3>1. ~ Born(g)
      BY <1>2 DEF AcceptClient, ConnectMiddle, IsNext, Born
    <3>2. con[g] = Unborn
      BY <3>1 DEF ExtInv, Lives
    <3> QED BY <3>2, UnbornFields
  <2>2. PICK r : con' = [con EXCEPT ![g] = r]
    BY <1>2 DEF AcceptClient, ConnectMiddle
  <2> QED BY <1>1, <2>1, <2>2, OneSilent
<1>3. CASE HandshakeDone(g)
  <2> DEFINE r == [con[g] EXCEPT !.hs = TRUE]
  <2>1. con' = [con EXCEPT ![g] = r]
    BY <1>1, <1>3 DEF HandshakeDone
  <2>2. r.forwarded = con[g].forwarded
    BY <1>1 DEF ConType
  <2> HIDE DEF r
  <2> QED BY <1>1, <2>1, <2>2, OneSilent
<1>4. CASE FailConnection(g)
  BY <1>1, <1>4, FailedSilent DEF FailConnection
<1>5. CASE fail_socket_connection(g)
  <2> DEFINE C == Failed(con, {g})
             r == [C[g] EXCEPT !.sock = FALSE]
  <2>1. con' = [C EXCEPT ![g] = r]
    BY <1>5 DEF fail_socket_connection
  <2>2. C \in [Conns -> ConType] /\ \A h \in Conns : C[h].forwarded = con[h].forwarded
    BY <1>1, FailedOnly
  <2> HIDE DEF C
  <2>3. C[g] \in ConType
    BY <2>2
  <2>4. r.forwarded = C[g].forwarded
    BY <2>3 DEF ConType
  <2> HIDE DEF r
  <2>5. con'[g] = r /\ \A h \in Conns \ {g} : con'[h] = C[h]
    BY <2>1, <2>2
  <2> QED BY <2>2, <2>4, <2>5 DEF Silent
<1>6. CASE close_connection(g)
  <2> DEFINE r == [con[g] EXCEPT !.st = "closed", !.hs = FALSE, !.packets = 0]
  <2>1. con' = [con EXCEPT ![g] = r]
    BY <1>1, <1>6 DEF close_connection
  <2>2. r.forwarded = con[g].forwarded
    BY <1>1 DEF ConType
  <2> HIDE DEF r
  <2> QED BY <1>1, <2>1, <2>2, OneSilent
<1>7. CASE ext_rpcs_execute(g)
  <2> DEFINE r == [con[g] EXCEPT !.packets = @ + 1]
  <2>1. con' = [con EXCEPT ![g] = r]
    BY <1>1, <1>7 DEF ext_rpcs_execute
  <2>2. r.forwarded = con[g].forwarded
    BY <1>1 DEF ConType
  <2> HIDE DEF r
  <2> QED BY <1>1, <2>1, <2>2, OneSilent
<1>8. CASE rpcc_execute(g)
  BY <1>8 DEF rpcc_execute, Silent
<1> QED BY <1>2, <1>3, <1>4, <1>5, <1>6, <1>7, <1>8

(* Nor do notifications.                                                   *)
LEMMA EventSilent ==
  ASSUME ExtInv, run_notification_event
  PROVE  Silent
<1> DEFINE g == Head(events).who
<1>1. con \in [Conns -> ConType] /\ g \in Conns /\ con[g] \in ConType
  BY FirstEvent DEF ExtInv, ExtTypeOK, run_notification_event
<1>2. CASE rpc_ready(g)
  <2> DEFINE r == [con[g] EXCEPT !.tag = con[g].kind = "middle"]
  <2>1. con' = [con EXCEPT ![g] = r]
    BY <1>1, <1>2 DEF rpc_ready
  <2>2. r.forwarded = con[g].forwarded
    BY <1>1 DEF ConType
  <2> HIDE DEF r, g
  <2> QED BY <1>1, <2>1, <2>2, OneSilent
<1>3. CASE mtfront_client_close(g)
  <2> DEFINE F == IF con[g].tag THEN ByOut(g) ELSE {}
             S == {h \in {ext[f].in_gen : f \in F} : Reachable(h)}
             C == Failed(con, S)
             r == [C[g] EXCEPT !.tag = FALSE]
  <2>1. con' = [C EXCEPT ![g] = r]
    BY <1>3 DEF mtfront_client_close
  <2> HIDE DEF F, S
  <2>2. C \in [Conns -> ConType] /\ \A h \in Conns : C[h].forwarded = con[h].forwarded
    BY <1>1, FailedOnly
  <2> HIDE DEF C, g
  <2>3. C[g] \in ConType
    BY <1>1, <2>2
  <2>4. r.forwarded = C[g].forwarded
    BY <2>3 DEF ConType
  <2> HIDE DEF r
  <2>5. con'[g] = r /\ \A h \in Conns \ {g} : con'[h] = C[h]
    BY <1>1, <2>1, <2>2
  <2> QED BY <1>1, <2>2, <2>4, <2>5 DEF Silent
<1>4. CASE mtproto_ext_rpc_close(g)
  BY <1>4 DEF mtproto_ext_rpc_close, Silent
<1> QED BY <1>2, <1>3, <1>4 DEF run_notification_event

(* A query is forwarded for a client that has lost none: one that has is   *)
(* not released, so the descriptor has no entry, and gets no new one.      *)
LEMMA QuerySilent ==
  ASSUME ExtInv, do_rpcs_execute
  PROVE  Silent
<1> DEFINE g == Head(jobs).conn
           f == con[g].fd
<1>1. con \in [Conns -> ConType] /\ g \in Conns /\ con[g] \in ConType /\ ~ Released(g) /\ f \in Fds
  BY FirstQuery DEF ExtInv, ExtTypeOK
<1>2. CASE ForwardAgain(g, f) \/ ForwardFirst(g, f)
  <2>1. ~ con[g].dropped
    BY <1>1, <1>2 DEF ForwardAgain, ForwardFirst, ExtInv, DroppedOut
  <2>2. PICK r : con' = [con EXCEPT ![g] = r]
    BY <1>2 DEF ForwardAgain, ForwardFirst, Send
  <2> HIDE DEF g
  <2> QED BY <1>1, <2>1, <2>2, OneSilent
<1>3. CASE DropQuery(g, f)
  <2> DEFINE r == [con[g] EXCEPT !.dropped = TRUE]
  <2>1. con' = [con EXCEPT ![g] = r]
    BY <1>1, <1>3 DEF DropQuery
  <2>2. r.forwarded = con[g].forwarded
    BY <1>1 DEF ConType
  <2> HIDE DEF r, g
  <2> QED BY <1>1, <2>1, <2>2, OneSilent
<1>4. CASE RefuseAfterDrop(g, f)
  BY <1>1, <1>4, FailedSilent DEF RefuseAfterDrop
<1>5. CASE IgnorePacket(g)
  BY <1>5 DEF IgnorePacket, Silent
<1> QED BY <1>2, <1>3, <1>4, <1>5 DEF do_rpcs_execute, forward_tcp_query

(* After a client has lost a query no later one of it is forwarded         *)
(* (forward_tcp_query).                                                    *)
THEOREM LostQueryEndsClient == ExtSpec => DroppedStaysSilent
<1>1. ExtInv /\ [ExtNext]_extVars => [Silent]_extVars
  <2> SUFFICES ASSUME ExtInv, ExtNext PROVE Silent
    OBVIOUS
  <2>1. con \in [Conns -> ConType]
    BY DEF ExtInv, ExtTypeOK
  <2>2. CASE \/ \E g \in Conns, f \in Fds : AcceptClient(g, f) \/ ConnectMiddle(g, f)
             \/ \E g \in Conns : \/ HandshakeDone(g) \/ FailConnection(g) \/ fail_socket_connection(g)
                                 \/ close_connection(g) \/ ext_rpcs_execute(g) \/ rpcc_execute(g)
    BY <2>2, ConnectionSilent
  <2>3. CASE run_notification_event
    BY <2>3, EventSilent
  <2>4. CASE do_rpcs_execute
    BY <2>4, QuerySilent
  <2>5. CASE notification_event_done \/ process_proxy_ans
    BY <2>5 DEF notification_event_done, process_proxy_ans, Silent
  <2>6. CASE process_close_ext \/ check_all_conn_buffers
    <3>1. PICK S : con' = Failed(con, S)
      BY <2>6 DEF process_close_ext, check_all_conn_buffers
    <3> QED BY <2>1, <3>1, FailedSilent
  <2> QED BY <2>2, <2>3, <2>4, <2>5, <2>6 DEF ExtNext
<1> QED BY <1>1, ExtStart, ExtKept, PTL DEF ExtSpec, DroppedStaysSilent, Silent
=============================================================================
