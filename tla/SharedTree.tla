----------------------------- MODULE SharedTree -----------------------------
(* The trees of connections of a target (vv-tree.c with TREE_PTHREAD):     *)
(* treaps whose nodes count their references.  One thread replaces the     *)
(* tree by a changed copy that shares the untouched nodes; other threads   *)
(* take a reference to the root under a hazard pointer                     *)
(* (get_ptr_multithread_copy), and what a hazard pointer protects is freed *)
(* later by the cron (free_tree_ptr, free_later_act).                      *)
EXTENDS Integers, FiniteSets, Sequences, SequencesExt

CONSTANTS
  Keys,             \* connections, 1..n
  Draws,            \* for each connection, what lrand48_j draws
  Cells,            \* addresses of nodes
  TreeReaders,      \* threads that look connections up
  MaxChanges        \* bound on changes of the tree

VARIABLES
  mem,              \* [cells, refs]: the nodes, and each connection's references from them
  conn_tree,        \* the root, 0 for none
  owner,            \* the thread that changes the tree: [at, old, new, left]
  reader,           \* [at, t, snap] of each reader
  hazard,           \* its hazard pointer
  freer,             \* the thread of free_later_act: [at, old, left]
  free_later,       \* roots to be freed later
  members           \* history: [set: put in and not taken out, shown: the same as published, n: changes]

treeVars == <<mem, conn_tree, owner, reader, hazard, freer, free_later, members>>

FreeCell == [x |-> 0, y |-> 0, left |-> 0, right |-> 0, refcnt |-> 0]
Scanning(at) == [at |-> at, old |-> 0, new |-> 0, left |-> {}]
TreeInit ==
  /\ mem = [cells |-> [t \in Cells |-> FreeCell], refs |-> [x \in Keys |-> 0]]
  /\ conn_tree = 0 /\ owner = Scanning("idle") /\ freer = Scanning("idle")
  /\ reader = [r \in TreeReaders |-> [at |-> "idle", t |-> 0, snap |-> {}]]
  /\ hazard = [r \in TreeReaders |-> 0] /\ free_later = <<>>
  /\ members = [set |-> {}, shown |-> {}, n |-> 0]

(* Operators on a memory m; a result has the memory and the root.          *)
Of(m, t) == [m |-> m, t |-> t]
Incref(m, t) == IF t = 0 THEN m ELSE [m EXCEPT !.cells[t].refcnt = @ + 1]
FreeCells(m) == {t \in Cells : m.cells[t].refcnt = 0}
tree_alloc(m, x, y) ==
  LET t == CHOOSE u \in FreeCells(m) : \A v \in FreeCells(m) : u <= v
  IN Of([m EXCEPT !.cells[t] = [FreeCell EXCEPT !.x = x, !.y = y, !.refcnt = 1]], t)

RECURSIVE tree_free(_, _)
tree_free(m, t) ==
  IF t = 0 THEN m
  ELSE IF m.cells[t].refcnt > 1 THEN [m EXCEPT !.cells[t].refcnt = @ - 1]
  ELSE LET n == m.cells[t]
           kids == tree_free(tree_free([m EXCEPT !.cells[t].refcnt = 0], n.left), n.right)
       IN [kids EXCEPT !.refs[n.x] = @ - 1, !.cells[t] = FreeCell]

CloneKeepsOld(m, t) ==
  LET n == m.cells[t]
      r == tree_alloc([m EXCEPT !.refs[n.x] = @ + 1], n.x, n.y)
      kids == Incref(Incref(r.m, n.left), n.right)
  IN Of([kids EXCEPT !.cells[r.t].left = n.left, !.cells[r.t].right = n.right], r.t)
tree_clone(m, t) ==
  LET n == m.cells[t]
      r == tree_alloc([m EXCEPT !.refs[n.x] = @ + 1], n.x, n.y)
      kids == Incref(Incref(r.m, n.left), n.right)
      copied == [kids EXCEPT !.cells[r.t].left = n.left, !.cells[r.t].right = n.right]
  IN Of(tree_free(copied, t), r.t)

SetLeft(a, t) == Of([a.m EXCEPT !.cells[t].left = a.t], t)
SetRight(a, t) == Of([a.m EXCEPT !.cells[t].right = a.t], t)

(* The parts below and above x.                                            *)
RECURSIVE tree_split(_, _, _)
tree_split(m, t, x) ==
  IF t = 0 THEN [m |-> m, below |-> 0, above |-> 0]
  ELSE LET c == tree_clone(m, t)
           n == c.m.cells[c.t]
           part == tree_split(c.m, IF x < n.x THEN n.left ELSE n.right, x)
       IN IF x < n.x
          THEN [part EXCEPT !.m.cells[c.t].left = part.above, !.above = c.t]
          ELSE [part EXCEPT !.m.cells[c.t].right = part.below, !.below = c.t]

RECURSIVE tree_insert(_, _, _, _)
tree_insert(m, t, x, y) ==
  IF t = 0 THEN tree_alloc(m, x, y)
  ELSE LET c == tree_clone(m, t)
           n == c.m.cells[c.t]
           p == tree_alloc(c.m, x, y)
           parts == tree_split(p.m, c.t, x)
       IN IF y >= n.y
          THEN Of([parts.m EXCEPT !.cells[p.t].left = parts.below, !.cells[p.t].right = parts.above], p.t)
          ELSE IF x < n.x THEN SetLeft(tree_insert(c.m, n.left, x, y), c.t)
          ELSE SetRight(tree_insert(c.m, n.right, x, y), c.t)

RECURSIVE tree_merge(_, _, _)
tree_merge(m, l, r) ==
  IF l = 0 \/ r = 0 THEN Of(m, l + r)
  ELSE IF m.cells[l].y > m.cells[r].y
  THEN LET c == tree_clone(m, l) IN SetRight(tree_merge(c.m, c.m.cells[c.t].right, r), c.t)
  ELSE LET c == tree_clone(m, r) IN SetLeft(tree_merge(c.m, l, c.m.cells[c.t].left), c.t)

RECURSIVE tree_delete(_, _, _)
tree_delete(m, t, x) ==
  LET c == tree_clone(m, t)
      n == c.m.cells[c.t]
      merged == tree_merge(c.m, n.left, n.right)
      alone == [merged.m EXCEPT !.cells[c.t].left = 0, !.cells[c.t].right = 0]
  IN IF x = n.x THEN Of(tree_free(alone, c.t), merged.t)
     ELSE IF x < n.x THEN SetLeft(tree_delete(c.m, n.left, x), c.t)
     ELSE SetRight(tree_delete(c.m, n.right, x), c.t)
-----------------------------------------------------------------------------
(* The owner takes a second reference to the tree, which the first         *)
(* operation consumes, makes all its changes on copies, and publishes.     *)
Change(steps, set) ==
  /\ owner.at = "idle" /\ members.n < MaxChanges
  /\ LET begun == Of(Incref(mem, conn_tree), conn_tree)
         done == FoldLeft(LAMBDA a, s : IF s.in THEN tree_insert([a.m EXCEPT !.refs[s.x] = @ + 1], a.t, s.x, s.y)
                                        ELSE tree_delete(a.m, a.t, s.x), begun, steps)
     IN /\ mem' = done.m
        /\ owner' = [Scanning("publish") EXCEPT !.old = conn_tree, !.new = done.t]
  /\ members' = [members EXCEPT !.set = set, !.n = @ + 1]
  /\ UNCHANGED <<conn_tree, reader, hazard, freer, free_later>>

(* rpc_target_insert_conn puts one connection in, create_new_connections   *)
(* one or more; rpc_target_delete_conn takes one out and                   *)
(* destroy_dead_target_connections every dead one, in the order of the     *)
(* tree.                                                                   *)
InsertStep(x, y) == [in |-> TRUE, x |-> x, y |-> y]
rpc_target_insert_conn(x, y) ==
  /\ x \notin members.set
  /\ Change(<<InsertStep(x, y)>>, members.set \cup {x})
insert_new_connections(x, y, v, w) ==
  /\ x # v /\ {x, v} \cap members.set = {}
  /\ Change(<<InsertStep(x, y), InsertStep(v, w)>>, members.set \cup {x, v})
delete_dead_connections(dead) ==
  /\ dead # {} /\ dead \subseteq members.set
  /\ Change([i \in 1..Cardinality(dead) |->
               [in |-> FALSE, x |-> SetToSortSeq(dead, <)[i], y |-> 0]], members.set \ dead)

Publish ==
  /\ owner.at = "publish"
  /\ conn_tree' = owner.new
  /\ owner' = [owner EXCEPT !.at = IF owner.old = 0 THEN "idle" ELSE "scan", !.new = 0, !.left = TreeReaders]
  /\ members' = [members EXCEPT !.shown = members.set]
  /\ UNCHANGED <<mem, reader, hazard, freer, free_later>>

(* free_tree_ptr by thread p: is_hazard_ptr looks at the threads one by    *)
(* one; the tree is freed, or queued if a thread protects it.              *)
ScanOne(p, q, r) ==
  /\ p.at = "scan" /\ r \in p.left
  /\ IF hazard[r] = p.old
     THEN q = Scanning("idle") /\ free_later' = Append(free_later, p.old)
     ELSE q = [p EXCEPT !.left = @ \ {r}] /\ UNCHANGED free_later
  /\ UNCHANGED <<mem, conn_tree, reader, hazard, members>>
FreeUnseen(p, q) ==
  /\ p.at = "scan" /\ p.left = {}
  /\ mem' = tree_free(mem, p.old) /\ q = Scanning("idle")
  /\ UNCHANGED <<conn_tree, reader, hazard, free_later, members>>
FreeUnlooked(p, q) ==
  /\ p.at = "scan"
  /\ mem' = tree_free(mem, p.old) /\ q = Scanning("idle")
  /\ UNCHANGED <<conn_tree, reader, hazard, free_later, members>>
free_tree_ptr(p, q) == FreeUnseen(p, q) \/ \E r \in TreeReaders : ScanOne(p, q, r)

OwnerFrees == free_tree_ptr(owner, owner') /\ UNCHANGED freer
CronFrees == free_tree_ptr(freer, freer') /\ UNCHANGED owner

free_later_act ==
  /\ freer.at = "idle" /\ free_later # <<>>
  /\ freer' = [Scanning("scan") EXCEPT !.old = Head(free_later), !.left = TreeReaders]
  /\ free_later' = Tail(free_later)
  /\ UNCHANGED <<mem, conn_tree, owner, reader, hazard, members>>
-----------------------------------------------------------------------------
(* A reader, step by step: get_ptr_multithread_copy, the walk, tree_free.  *)
Moves(r, from, to, t) ==
  /\ reader[r].at = from
  /\ reader' = [reader EXCEPT ![r] = [@ EXCEPT !.at = to, !.t = t]]
  /\ UNCHANGED <<conn_tree, owner, freer, free_later, members>>

ReadRoot(r) == Moves(r, "idle", "protect", conn_tree) /\ UNCHANGED <<mem, hazard>>
Protect(r) ==
  /\ Moves(r, "protect", "verify", reader[r].t)
  /\ hazard' = [hazard EXCEPT ![r] = reader[r].t] /\ UNCHANGED mem
VerifyRoot(r) ==
  /\ reader[r].at = "verify"
  /\ IF conn_tree = reader[r].t
     THEN reader' = [reader EXCEPT ![r] = [@ EXCEPT !.at = "incref", !.snap = members.shown]]
     ELSE reader' = [reader EXCEPT ![r] = [@ EXCEPT !.at = "idle", !.t = 0]]
  /\ UNCHANGED <<mem, hazard, conn_tree, owner, freer, free_later, members>>
incref_tree_ptr(r) ==
  /\ Moves(r, "incref", "clear", reader[r].t)
  /\ mem' = Incref(mem, reader[r].t) /\ UNCHANGED hazard
ClearHazard(r) ==
  /\ Moves(r, "clear", "walk", reader[r].t)
  /\ hazard' = [hazard EXCEPT ![r] = 0] /\ UNCHANGED mem
WalkEnds(r) ==
  /\ reader[r].at = "walk"
  /\ reader' = [reader EXCEPT ![r] = [at |-> "idle", t |-> 0, snap |-> {}]]
  /\ mem' = tree_free(mem, reader[r].t)
  /\ UNCHANGED <<hazard, conn_tree, owner, freer, free_later, members>>

TreeNext ==
  \/ \E x \in Keys : \E y \in Draws[x] : rpc_target_insert_conn(x, y)
  \/ \E x, v \in Keys : \E y \in Draws[x], w \in Draws[v] : insert_new_connections(x, y, v, w)
  \/ \E dead \in SUBSET Keys : delete_dead_connections(dead)
  \/ Publish \/ OwnerFrees \/ CronFrees \/ free_later_act
  \/ \E r \in TreeReaders :
       ReadRoot(r) \/ Protect(r) \/ VerifyRoot(r) \/ incref_tree_ptr(r) \/ ClearHazard(r) \/ WalkEnds(r)
-----------------------------------------------------------------------------
RECURSIVE NodesOf(_)
NodesOf(t) == IF t = 0 THEN {} ELSE {t} \cup NodesOf(mem.cells[t].left) \cup NodesOf(mem.cells[t].right)
KeysOf(t) == {mem.cells[u].x : u \in NodesOf(t)}
Live == {t \in Cells : mem.cells[t].refcnt > 0}

(* The tree below t is a treap of live nodes, as tree_check asserts.       *)
IsTreap(t) ==
  /\ NodesOf(t) \subseteq Live
  /\ \A u \in NodesOf(t) :
       LET n == mem.cells[u]
       IN /\ \A v \in NodesOf(n.left) : mem.cells[v].x < n.x /\ mem.cells[v].y <= n.y
          /\ \A v \in NodesOf(n.right) : mem.cells[v].x > n.x /\ mem.cells[v].y <= n.y

Holder(p) == IF p.at = "idle" THEN <<>> ELSE <<p.old, p.new>>
Handles(t) ==
  Len(SelectSeq(<<conn_tree>> \o Holder(owner) \o Holder(freer) \o free_later, LAMBDA u : u = t))
  - (IF owner.at = "publish" /\ t = conn_tree THEN 1 ELSE 0)
  + Cardinality({r \in TreeReaders : reader[r].t = t /\ reader[r].at \in {"clear", "walk"}})

(* The tree always holds the connections put in and not taken out; a       *)
(* reader walks over the tree as it was when it took it, none of whose     *)
(* nodes is freed under it; every node has exactly the references counted, *)
(* so that none is lost when the last one goes; and a connection has one   *)
(* reference from each node it is in (tree_insert, tree_delete,            *)
(* get_ptr_multithread_copy, free_tree_ptr).                               *)
TreeKept ==
  /\ IsTreap(conn_tree) /\ KeysOf(conn_tree) = members.shown
  /\ \A r \in TreeReaders :
       reader[r].at \in {"clear", "walk"} => IsTreap(reader[r].t) /\ KeysOf(reader[r].t) = reader[r].snap
  /\ \A t \in Cells :
       mem.cells[t].refcnt =
         Handles(t) + Cardinality({u \in Live : mem.cells[u].left = t}) + Cardinality({u \in Live : mem.cells[u].right = t})
  /\ \A x \in Keys : mem.refs[x] = Cardinality({t \in Live : mem.cells[t].x = x})
=============================================================================
