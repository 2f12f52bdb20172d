------------------------------- MODULE RawMsg -------------------------------
(***************************************************************************)
(* Raw messages (net-msg.c): byte strings kept as chains of message parts, *)
(* each a window on a reference-counted buffer.  Clones, halves of a split *)
(* and messages that were joined share parts and buffers; every operation  *)
(* has to see whether what it changes is shared.                           *)
(*                                                                         *)
(* An operation is a function of a record s: the parts and buffers, and    *)
(* the message r it works on.  Handlers do not interleave here (the lock   *)
(* of a last part is only seen by the operation that took it).             *)
(***************************************************************************)
EXTENDS Naturals, Sequences, FiniteSets, SequencesExt

CONSTANTS
  Msgs,         \* struct raw_message variables of the program
  NParts,       \* bound: message parts, and buffers, at a time
  MSG_SMALL_BUFFER, MSG_STD_BUFFER, RM_PREPEND_RESERVE,
  BlockSize,    \* of the cipher in rwm_encrypt_decrypt_to
  Lengths,      \* of the strings that callers write
  MaxText,      \* bound: bytes of a message
  MaxOps        \* bound: operations

ASSUME RawConstants ==
  /\ NParts \in Nat /\ BlockSize \in Nat \ {0} /\ MaxText \in Nat /\ MaxOps \in Nat
  /\ 0 < RM_PREPEND_RESERVE /\ RM_PREPEND_RESERVE < MSG_SMALL_BUFFER
  /\ MSG_SMALL_BUFFER < MSG_STD_BUFFER /\ BlockSize <= MSG_SMALL_BUFFER

VARIABLES
  part,     \* msg_part: refcnt, next (0: none), buffer, offset, data_end
  buf,      \* msg_buffer: refcnt, data
  raw,      \* the messages
  text,     \* the byte string each message stands for
  ops       \* operations so far

rawVars == <<part, buf, raw, text, ops>>

NoPart == [ref |-> 0, next |-> 0, buf |-> 0, off |-> 0, end |-> 0]
NoBuf == [ref |-> 0, data |-> <<>>]
EmptyRwm == [first |-> 0, last |-> 0, total |-> 0, foff |-> 0, loff |-> 0]

RawInit ==
  /\ part = [p \in 1..NParts |-> NoPart] /\ buf = [b \in 1..NParts |-> NoBuf]
  /\ raw = [m \in Msgs |-> EmptyRwm] /\ text = [m \in Msgs |-> <<>>] /\ ops = 0

-----------------------------------------------------------------------------
(* Chains.                                                                 *)

(* A part or buffer to allocate.                                           *)
Unused(f) == CHOOSE i \in DOMAIN f : f[i].ref = 0 /\ \A j \in 1..(i - 1) : f[j].ref > 0

RECURSIVE ChainFrom(_, _)
ChainFrom(s, p) ==
  IF p = s.r.last THEN <<p>> ELSE <<p>> \o ChainFrom(s, s.part[p].next)

(* The parts of the message from first to last.                            *)
Chain(s) == IF s.r.first = 0 THEN <<>> ELSE ChainFrom(s, s.r.first)

Start(s, p) == IF p = s.r.first THEN s.r.foff ELSE s.part[p].off
End(s, p) == IF p = s.r.last THEN s.r.loff ELSE s.part[p].end

(* The bytes in the first i parts of the chain c.                          *)
Before(s, c) ==
  LET before[i \in 0..Len(c)] ==
        IF i = 0 THEN 0 ELSE before[i - 1] + End(s, c[i]) - Start(s, c[i])
  IN before

(* The first part of the chain that holds the n-th byte.                   *)
PartAt(before, n) == CHOOSE i \in DOMAIN before \ {0} :
  before[i] >= n /\ \A j \in 1..(i - 1) : before[j] < n

Min2(a, b) == IF a <= b THEN a ELSE b

Written(data, at, bytes) ==
  [i \in DOMAIN data |-> IF i \in (at + 1)..(at + Len(bytes)) THEN bytes[i - at] ELSE data[i]]

(* Sizes of buffers: the smallest that fits.                               *)
SizeFor(hint) == IF hint <= MSG_SMALL_BUFFER THEN MSG_SMALL_BUFFER ELSE MSG_STD_BUFFER

(* A part on a buffer of its own, with bytes at offset off.                *)
NewPart(s, size, off, bytes, next) ==
  [s EXCEPT
    !.buf[Unused(s.buf)] = [ref |-> 1, data |-> Written([i \in 1..size |-> 0], off, bytes)],
    !.part[Unused(s.part)] =
      [ref |-> 1, next |-> next, buf |-> Unused(s.buf), off |-> off, end |-> off + Len(bytes)]]

(* A part on the buffer of p.                                              *)
CopyPart(s, p, off, end, next) ==
  [s EXCEPT
    !.buf[s.part[p].buf].ref = @ + 1,
    !.part[Unused(s.part)] =
      [ref |-> 1, next |-> next, buf |-> s.part[p].buf, off |-> off, end |-> end]]

msg_buffer_decref(s, b) ==
  IF s.buf[b].ref = 1 THEN [s EXCEPT !.buf[b] = NoBuf] ELSE [s EXCEPT !.buf[b].ref = @ - 1]

RECURSIVE msg_part_decref(_, _)
msg_part_decref(s, p) ==
  IF p = 0 THEN s
  ELSE IF s.part[p].ref > 1 THEN [s EXCEPT !.part[p].ref = @ - 1]
  ELSE msg_part_decref([msg_buffer_decref(s, s.part[p].buf) EXCEPT !.part[p] = NoPart],
                       s.part[p].next)

Incref(s, p) == [s EXCEPT !.part[p].ref = @ + 1]

rwm_clear(s) == [msg_part_decref(s, s.r.first) EXCEPT !.r = EmptyRwm]

-----------------------------------------------------------------------------
(* fork_message_chain: the message gets parts of its own, copies from the  *)
(* first shared one on; an unshared chain is cut to the message.           *)

RECURSIVE CopyChain(_, _, _)
CopyChain(s, p, prev) ==
  LET q == Unused(s.part)
      t == CopyPart(s, p, Start(s, p), End(s, p), 0)
      u == IF prev = 0 THEN [t EXCEPT !.r.first = q] ELSE [t EXCEPT !.part[prev].next = q]
  IN IF p = s.r.last THEN [u EXCEPT !.r.last = q] ELSE CopyChain(u, s.part[p].next, q)

fork_message_chain(s) ==
  LET c == Chain(s)
      Owned(i) == \A j \in 1..i : s.part[c[j]].ref = 1
      ok == s.part[c[1]].ref = 1 \/ s.r.foff = s.part[c[1]].off
      t == IF Owned(1) THEN [s EXCEPT !.part[c[1]].off = s.r.foff] ELSE s
      n == IF ~ ok THEN 1
           ELSE CHOOSE i \in DOMAIN c :
                  /\ i = Len(c) \/ ~ Owned(i)
                  /\ \A j \in 1..(i - 1) : Owned(j)
  IN IF Owned(n)
     THEN msg_part_decref([t EXCEPT !.part[c[n]].end = s.r.loff, !.part[c[n]].next = 0],
                          s.part[c[n]].next)
     ELSE msg_part_decref(CopyChain(t, c[n], IF n = 1 THEN 0 ELSE c[n - 1]), c[n])

(* The last part may be extended: it is the end of its chain and nothing   *)
(* lies behind the message's bytes.  A part that is locked is not.         *)
rwm_lock_last_part(s, locked) ==
  IF s.r.first # 0 /\ (\/ s.part[s.r.last].next # 0
                       \/ s.r.loff # s.part[s.r.last].end
                       \/ s.r.last = locked)
  THEN fork_message_chain(s) ELSE s

(* The part that rwm_lock_last_part has locked, 0 if it made a copy.       *)
LockedPart(s) == IF s.r.first # 0 /\ rwm_lock_last_part(s, 0) = s THEN s.r.last ELSE 0

rwm_lock_first_part(s) ==
  LET f == s.r.first
      q == Unused(s.part)
  IN IF f = 0 THEN s
     ELSE IF s.part[f].ref = 1 THEN [s EXCEPT !.part[f].off = s.r.foff]
     ELSE IF s.part[f].off = s.r.foff THEN s
     ELSE IF s.r.last = f
     THEN [msg_part_decref(CopyPart(s, f, s.r.foff, s.r.loff, 0), f) EXCEPT !.r.first = q, !.r.last = q]
     ELSE [msg_part_decref(
             Incref(CopyPart(s, f, s.r.foff, s.part[f].end, s.part[f].next), s.part[f].next), f)
           EXCEPT !.r.first = q]

-----------------------------------------------------------------------------
(* Writing at the end.  avail is the number of buffers left to allocate:   *)
(* without one the push ends early.                                        *)

AddLast(s, size, off, bytes) ==
  LET q == Unused(s.part)
      t == NewPart(s, size, off, bytes, 0)
      u == IF s.r.last = 0 THEN [t EXCEPT !.r.first = q, !.r.foff = off]
                           ELSE [t EXCEPT !.part[s.r.last].next = q]
  IN [u EXCEPT !.r.last = q, !.r.loff = off + Len(bytes), !.r.total = @ + Len(bytes)]

(* Bytes written behind the last part, which has room for them.            *)
Extend(s, bytes) ==
  LET l == s.r.last
      b == s.part[l].buf
  IN [s EXCEPT !.buf[b].data = Written(@, s.r.loff, bytes), !.part[l].end = @ + Len(bytes),
               !.r.loff = @ + Len(bytes), !.r.total = @ + Len(bytes)]

\* Mutant: a buffer that other parts use is written too.
RoomInShared(s) == Len(s.buf[s.part[s.r.last].buf].data) - s.r.loff

(* Room behind the last part, in a buffer nobody else uses.                *)
Room(s) ==
  LET b == s.buf[s.part[s.r.last].buf] IN IF b.ref = 1 THEN Len(b.data) - s.r.loff ELSE 0

RECURSIVE PushParts(_, _, _)
PushParts(s, bytes, avail) ==
  LET size == IF s.r.total + Len(bytes) >= MSG_STD_BUFFER THEN MSG_STD_BUFFER ELSE MSG_SMALL_BUFFER
      n == Min2(size, Len(bytes))
  IN IF bytes = <<>> \/ avail = 0 THEN s
     ELSE PushParts(AddLast(s, size, 0, SubSeq(bytes, 1, n)), SubSeq(bytes, n + 1, Len(bytes)), avail - 1)

rwm_push_first(s, bytes, avail) ==
  LET n == Len(bytes)
      size == IF n >= MSG_SMALL_BUFFER - RM_PREPEND_RESERVE THEN MSG_STD_BUFFER ELSE MSG_SMALL_BUFFER
      off == IF n <= MSG_STD_BUFFER THEN Min2(RM_PREPEND_RESERVE, MSG_STD_BUFFER - n) ELSE RM_PREPEND_RESERVE
      k == Min2(n, size - off)
  IN IF avail = 0 THEN s
     ELSE PushParts(AddLast(s, size, off, SubSeq(bytes, 1, k)), SubSeq(bytes, k + 1, n), avail - 1)

rwm_push_data(s, bytes, avail) ==
  IF bytes = <<>> THEN s
  ELSE IF s.r.first = 0 THEN rwm_push_first(s, bytes, avail)
  ELSE LET t == rwm_lock_last_part(s, 0)
           k == Min2(Room(t), Len(bytes))
       IN PushParts(Extend(t, SubSeq(bytes, 1, k)), SubSeq(bytes, k + 1, Len(bytes)), avail)

(* The caller writes into the space it gets.                               *)
rwm_postpone_alloc(s, bytes) ==
  IF s.r.first = 0 THEN rwm_push_data(s, bytes, NParts)
  ELSE LET t == rwm_lock_last_part(s, 0)
       IN IF Room(t) >= Len(bytes) THEN Extend(t, bytes) ELSE AddLast(t, SizeFor(Len(bytes)), 0, bytes)

-----------------------------------------------------------------------------
(* Writing in front.                                                       *)

AddFirst(s, size, bytes) ==
  LET q == Unused(s.part)
      off == size - Len(bytes)
      t == [NewPart(s, size, off, bytes, s.r.first) EXCEPT
             !.r.first = q, !.r.foff = off, !.r.total = @ + Len(bytes)]
  IN IF s.r.last = 0 THEN [t EXCEPT !.r.last = q, !.r.loff = size] ELSE t

(* Bytes written before the first part, which has room for them.           *)
ExtendFront(s, bytes) ==
  LET f == s.r.first
      off == s.r.foff - Len(bytes)
  IN [s EXCEPT !.buf[s.part[f].buf].data = Written(@, off, bytes), !.part[f].off = off,
               !.r.foff = off, !.r.total = @ + Len(bytes)]

(* Room before the first part, if part and buffer are the message's own.   *)
RoomFront(s) ==
  LET p == s.part[s.r.first] IN IF p.ref = 1 /\ s.buf[p.buf].ref = 1 THEN s.r.foff ELSE 0

RECURSIVE PushFrontParts(_, _)
PushFrontParts(s, bytes) ==
  LET n == Len(bytes)
      size == IF n >= MSG_SMALL_BUFFER THEN MSG_STD_BUFFER ELSE MSG_SMALL_BUFFER
      k == Min2(size, n)
  IN IF n = 0 THEN s
     ELSE PushFrontParts(AddFirst(s, size, SubSeq(bytes, n - k + 1, n)), SubSeq(bytes, 1, n - k))

rwm_push_data_front(s, bytes) ==
  IF s.r.first = 0 THEN PushFrontParts(s, bytes)
  ELSE LET t == rwm_lock_first_part(s)
           n == Len(bytes)
           k == Min2(RoomFront(t), n)
       IN PushFrontParts(ExtendFront(t, SubSeq(bytes, n - k + 1, n)), SubSeq(bytes, 1, n - k))

rwm_prepend_alloc(s, bytes) ==
  IF s.r.first = 0 THEN rwm_push_data(s, bytes, NParts)
  ELSE LET t == rwm_lock_first_part(s)
       IN IF RoomFront(t) >= Len(bytes) THEN ExtendFront(t, bytes) ELSE AddFirst(t, SizeFor(Len(bytes)), bytes)

-----------------------------------------------------------------------------
(* Reading.  rwm_process_ex hands bytes offset + 1 .. offset + n to a      *)
(* callback, part by part; RMPF_ADVANCE then drops everything up to them,  *)
(* RMPF_TRUNCATE them and what follows.                                    *)

InLast(s, offset) == s.r.total - offset <= s.r.loff - s.part[s.r.last].off

Data(s, p, from, to) == SubSeq(s.buf[s.part[p].buf].data, from + 1, to)

(* The pieces the callback gets.                                           *)
Pieces(s, offset, n) ==
  LET c == Chain(s)
      before == Before(s, c)
      x == s.r.total - offset
      Cut(i, k) == Start(s, c[i]) + k - before[i - 1]
      k0 == PartAt(before, offset)
      k1 == PartAt(before, offset + n)
  IN IF InLast(s, offset) THEN <<Data(s, s.r.last, s.r.loff - x, s.r.loff - x + n)>>
     ELSE SelectSeq([i \in 1..(k1 - k0 + 1) |->
            LET k == k0 + i - 1 IN
            Data(s, c[k], IF k = k0 THEN Cut(k, offset) ELSE Start(s, c[k]),
                          IF k = k1 THEN Cut(k, offset + n) ELSE End(s, c[k]))],
            LAMBDA d : d # <<>>)

Advance(s, n) ==
  LET c == Chain(s)
      before == Before(s, c)
      j == PartAt(before, n)
      owned == \A i \in 1..j : s.part[c[i]].ref = 1
      end == Start(s, c[j]) + n - before[j - 1]
      moved == IF j = 1 THEN s ELSE msg_part_decref(Incref(s, c[j]), s.r.first)
      t == [moved EXCEPT !.r.first = c[j], !.r.foff = end, !.r.total = @ - n]
  IN IF InLast(s, 0)
     THEN [msg_part_decref(Incref(s, s.r.last), s.r.first) EXCEPT
            !.r.first = s.r.last, !.r.foff = s.r.loff - s.r.total + n, !.r.total = @ - n]
     ELSE IF n = s.r.total THEN rwm_clear(s)
     ELSE IF owned THEN [t EXCEPT !.part[c[j]].off = end] ELSE t

Truncate(s, offset) ==
  LET c == Chain(s)
      before == Before(s, c)
      k == PartAt(before, offset)
      owned == \A i \in 1..k : s.part[c[i]].ref = 1
      end == Start(s, c[k]) + offset - before[k - 1]
      x == s.r.total - offset
      t == [s EXCEPT !.r.last = c[k], !.r.loff = end, !.r.total = offset]
  IN IF InLast(s, offset) THEN [s EXCEPT !.r.total = @ - x, !.r.loff = @ - x]
     ELSE IF offset = 0 THEN rwm_clear(s)
     ELSE IF owned THEN msg_part_decref([t EXCEPT !.part[c[k]].end = end, !.part[c[k]].next = 0],
                                        s.part[c[k]].next)
     ELSE t

(* The message keeps n bytes; what follows is the second of the result.    *)
rwm_split(s, n) ==
  LET c == Chain(s)
      before == Before(s, c)
      k == IF InLast(s, n) THEN Len(c) ELSE PartAt(before, n)
      cut == IF InLast(s, n) THEN s.r.loff - (s.r.total - n) ELSE Start(s, c[k]) + n - before[k - 1]
  IN IF n >= s.r.total THEN <<s, EmptyRwm>>
     ELSE <<[Incref(s, c[k]) EXCEPT !.r.last = c[k], !.r.loff = cut, !.r.total = n],
            [first |-> c[k], last |-> s.r.last, total |-> s.r.total - n, foff |-> cut, loff |-> s.r.loff]>>

(* The bytes of tail are appended and tail is freed.                       *)
rwm_union(s, tail) ==
  LET t == rwm_lock_last_part(s, 0)
      u == rwm_lock_last_part([t EXCEPT !.r = tail], LockedPart(s))
      v == rwm_lock_first_part(u)
      w == Incref([v EXCEPT !.part[t.r.last].next = v.r.first], v.r.first)
      joined == [t.r EXCEPT !.last = v.r.last, !.loff = v.r.loff, !.total = @ + tail.total]
  IN IF s.r.last = 0 THEN [s EXCEPT !.r = tail]
     ELSE IF tail.first = 0 THEN s
     ELSE [msg_part_decref(w, v.r.first) EXCEPT !.r = joined]

(* Empty parts at the front of a shared chain are skipped.                 *)
RECURSIVE rwm_get_block_ptr_bytes(_)
rwm_get_block_ptr_bytes(s) ==
  LET f == s.r.first
      next == s.part[f].next
  IN IF s.r.total = 0 \/ End(s, f) > s.r.foff THEN s
     ELSE rwm_get_block_ptr_bytes(
            [msg_part_decref(Incref(s, next), f) EXCEPT !.r.first = next, !.r.foff = s.part[next].off])

-----------------------------------------------------------------------------
(* rwm_encrypt_decrypt_to.  A block cipher is a reversal of every block:   *)
(* enough to see a byte in the wrong place or a block cut elsewhere.  x:   *)
(* parts, buffers and res; the bytes of an incomplete block; bytes left to *)
(* process; room in the last buffer; buffers to allocate; no failure yet.  *)

Crypt(bytes) ==
  [i \in DOMAIN bytes |->
    LET b == ((i - 1) \div BlockSize) * BlockSize IN bytes[b + BlockSize - ((i - 1) % BlockSize)]]

CryptBuffer(x, hint) ==
  IF x.avail = 0 THEN [x EXCEPT !.ok = FALSE]
  ELSE [x EXCEPT !.s = AddLast(@, SizeFor(hint), 0, <<>>), !.room = SizeFor(hint), !.avail = @ - 1]

Put(x, bytes) == IF x.ok THEN [x EXCEPT !.s = Extend(@, bytes), !.room = @ - Len(bytes)] ELSE x

Suffix(bytes, n) == SubSeq(bytes, n + 1, Len(bytes))

(* Whole blocks, into as many buffers as they take.                        *)
RECURSIVE CryptBlocks(_, _)
CryptBlocks(x, bytes) ==
  LET t == (x.room \div BlockSize) * BlockSize
  IN IF ~ x.ok THEN x
     ELSE IF x.room < BlockSize THEN CryptBlocks(CryptBuffer(x, x.left + Len(bytes)), bytes)
     ELSE IF Len(bytes) <= x.room THEN Put(x, Crypt(bytes))
     ELSE CryptBlocks(Put(x, Crypt(SubSeq(bytes, 1, t))), Suffix(bytes, t))

(* A block completed from two pieces, in two buffers if need be.           *)
CryptJoined(x, block, rest) ==
  IF x.room >= BlockSize THEN Put(x, Crypt(block))
  ELSE Put(CryptBuffer(Put(x, SubSeq(Crypt(block), 1, x.room)), x.left + rest + BlockSize),
           Suffix(Crypt(block), x.room))

(* fill: bytes of data that complete the block begun before.               *)
CryptPiece(x, data, fill) ==
  LET rest == Suffix(data, fill)
      whole == (Len(rest) \div BlockSize) * BlockSize
  IN IF ~ x.ok THEN x
     ELSE IF Len(data) < fill THEN [x EXCEPT !.bp = @ \o data]
     ELSE CryptBlocks([(IF fill = 0 THEN x ELSE CryptJoined(x, x.bp \o SubSeq(data, 1, fill), Len(rest)))
                         EXCEPT !.bp = Suffix(rest, whole)],
                      SubSeq(rest, 1, whole))

rwm_process_encrypt_decrypt(x, data) ==
  CryptPiece([(IF x.ok /\ x.room = 0 THEN CryptBuffer(x, x.left) ELSE x) EXCEPT !.left = @ - Len(data)],
             data, IF x.bp = <<>> THEN 0 ELSE BlockSize - Len(x.bp))

(* The result of the loop x is taken back if it has failed.                *)
CryptEnd(x, res) ==
  IF x.ok THEN [s |-> x.s, ok |-> TRUE]
  ELSE [s |-> [msg_part_decref(x.s, x.s.part[res.r.last].next) EXCEPT
                !.r = res.r, !.part[res.r.last].next = 0,
                !.part[res.r.last].end = res.part[res.r.last].end],
        ok |-> FALSE]

CryptLoop(res, from, n, avail) ==
  CryptEnd(FoldLeft(rwm_process_encrypt_decrypt,
                    [s |-> res, bp |-> <<>>, left |-> n, room |-> Room(res), ok |-> TRUE, avail |-> avail],
                    Pieces([res EXCEPT !.r = from], 0, n)),
           res)

(* s: locked at its end, where off bytes are kept free if it is empty.     *)
CryptTo(s, from, n, avail, off) ==
  IF s.r.last # 0 /\ s.buf[s.part[s.r.last].buf].ref = 1 THEN CryptLoop(s, from, n, avail)
  ELSE IF avail = 0 THEN [s |-> s, ok |-> FALSE]
  ELSE CryptLoop(AddLast(s, SizeFor(n + off), off, <<>>), from, n, avail - 1)

(* The first n bytes of from, whole blocks, encrypted to the end of s.r.   *)
rwm_encrypt_decrypt_to(s, from, n, avail) ==
  CryptTo(rwm_lock_last_part(s, 0), from, n, avail, IF s.r.last = 0 THEN RM_PREPEND_RESERVE ELSE 0)

-----------------------------------------------------------------------------
(* What the callers do.                                                    *)

At(m) == [part |-> part, buf |-> buf, r |-> raw[m]]

(* Bounds: a third of the parts in use leaves enough for two forks.        *)
Spare == \A f \in {part, buf} : 3 * Cardinality({i \in DOMAIN f : f[i].ref > 0}) <= NParts

Heap(s) == part' = s.part /\ buf' = s.buf

(* Message m becomes s.r and stands for the string bytes.                  *)
Becomes(m, s, bytes) ==
  /\ Spare /\ Len(bytes) <= MaxText
  /\ Heap(s) /\ raw' = [raw EXCEPT ![m] = s.r] /\ text' = [text EXCEPT ![m] = bytes]

(* No two bytes the callers write are equal.                               *)
NewBytes(n) == [i \in 1..n |-> ops * MaxText + i]

Write(m) ==
  \E n \in Lengths :
    LET new == NewBytes(n)
    IN \/ \E avail \in {1, NParts} :
            LET s == rwm_push_data(At(m), new, avail)
            IN Becomes(m, s, text[m] \o SubSeq(new, 1, s.r.total - raw[m].total))
       \/ Becomes(m, rwm_push_data_front(At(m), new), new \o text[m])
       \/ n <= MSG_STD_BUFFER /\ Becomes(m, rwm_postpone_alloc(At(m), new), text[m] \o new)
       \/ n <= MSG_STD_BUFFER /\ Becomes(m, rwm_prepend_alloc(At(m), new), new \o text[m])

(* rwm_fetch_data, rwm_skip_data; rwm_fetch_data_back, rwm_trunc.          *)
Fetch(m) ==
  \E n \in 1..raw[m].total :
    /\ \/ Becomes(m, Advance(At(m), n), Suffix(text[m], n))
       \/ Becomes(m, Truncate(At(m), raw[m].total - n), SubSeq(text[m], 1, raw[m].total - n))

rwm_free(m) ==
  raw[m].first # 0 /\ Becomes(m, rwm_clear(At(m)), <<>>)

rwm_clone(d, m) ==
  /\ d # m /\ raw[d].first = 0 /\ raw[m].first # 0
  /\ Becomes(d, [Incref(At(m), raw[m].first) EXCEPT !.r = raw[m]], text[m])

rwm_split_head(d, m) ==
  /\ d # m /\ raw[d].first = 0 /\ Spare
  /\ \E n \in 1..raw[m].total :
       LET st == rwm_split(At(m), n)
       IN /\ Heap(st[1]) /\ raw' = [raw EXCEPT ![d] = st[1].r, ![m] = st[2]]
          /\ text' = [text EXCEPT ![d] = SubSeq(text[m], 1, n), ![m] = Suffix(text[m], n)]

Union(m, d) ==
  LET s == rwm_union(At(m), raw[d])
  IN /\ d # m /\ raw[d].first # 0 /\ Spare /\ Len(text[m]) + Len(text[d]) <= MaxText
     /\ Heap(s) /\ raw' = [raw EXCEPT ![m] = s.r, ![d] = EmptyRwm]
     /\ text' = [text EXCEPT ![m] = @ \o text[d], ![d] = <<>>]

(* hts_parse_execute looks at the blocks of a clone.                       *)
GetBlock(m) ==
  /\ raw[m].first # 0 /\ part[raw[m].first].ref > 1
  /\ Becomes(m, rwm_get_block_ptr_bytes(At(m)), text[m])

(* The output is encrypted to d, then the bytes are taken from m.          *)
Encrypted(m, d, n, res) ==
  IF res.ok
  THEN \E s \in {Advance([res.s EXCEPT !.r = raw[m]], n)} :
         /\ Heap(s) /\ raw' = [raw EXCEPT ![m] = s.r, ![d] = res.s.r]
         /\ text' = [text EXCEPT ![m] = Suffix(@, n), ![d] = @ \o Crypt(SubSeq(text[m], 1, n))]
  ELSE Heap(res.s) /\ raw' = [raw EXCEPT ![d] = res.s.r] /\ UNCHANGED text

Encrypt(m, d) ==
  LET n == (raw[m].total \div BlockSize) * BlockSize
  IN /\ d # m /\ n > 0 /\ Spare /\ Len(text[d]) + n <= MaxText
     /\ \E avail \in {1, NParts} : Encrypted(m, d, n, rwm_encrypt_decrypt_to(At(d), raw[m], n, avail))

RawNext ==
  /\ ops < MaxOps /\ ops' = ops + 1
  /\ \E m \in Msgs :
       \/ Write(m) \/ Fetch(m) \/ rwm_free(m) \/ GetBlock(m)
       \/ \E d \in Msgs : rwm_clone(d, m) \/ rwm_split_head(d, m) \/ Union(m, d) \/ Encrypt(m, d)

RawSpec == RawInit /\ [][RawNext]_rawVars

-----------------------------------------------------------------------------
(* Whatever other messages share with it, a message reads as the string    *)
(* its own history gives: every range that rwm_process_ex hands out is the *)
(* range of that string.  Writing through one message never shows in       *)
(* another (net-msg.h, "INVARIANTS FOR MULTITHREAD USE").  Counts are      *)
(* exact: a part has one reference for every message that begins with it   *)
(* and every part before it, a buffer one for every part on it; so nothing *)
(* is freed while in use and nothing is left behind.                       *)
MessagesKept ==
  /\ \A m \in Msgs :
       /\ raw[m].total = Len(text[m])
       /\ \A offset \in 0..(raw[m].total - 1) : \A n \in 1..(raw[m].total - offset) :
            FlattenSeq(Pieces(At(m), offset, n)) = SubSeq(text[m], offset + 1, offset + n)
  /\ \A p \in DOMAIN part :
       part[p].ref = Cardinality({m \in Msgs : raw[m].first = p})
                   + Cardinality({q \in DOMAIN part : part[q].ref > 0 /\ part[q].next = p})
  /\ \A b \in DOMAIN buf :
       buf[b].ref = Cardinality({p \in DOMAIN part : part[p].ref > 0 /\ part[p].buf = b})
=============================================================================
