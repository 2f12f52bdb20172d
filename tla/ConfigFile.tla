---------------------------- MODULE ConfigFile -----------------------------
(* The configuration of Telegram's servers (mtproto-config.c): the two     *)
(* passes over the file, the clusters of proxies for each data centre, and *)
(* the reload that puts a new configuration in place of the old.  A file   *)
(* is a sequence of directives; a name may resolve in one pass and not in  *)
(* the next.                                                               *)
EXTENDS Integers, Sequences, SequencesExt

CONSTANTS
  ConfFiles,         \* [ok, lines]: the contents the file may have; ok if it can be read
  ConfHosts,         \* host names
  MaxTargets,        \* MAX_CFG_TARGETS
  MaxClusters,       \* MAX_CFG_CLUSTERS
  DcLimit            \* data centres are numbered from -DcLimit to DcLimit - 1

VARIABLES
  conf_file,         \* the file
  CurConf,           \* the struct mf_config in force; the other one is built anew by each pass
  global_refcnt,     \* of each target
  conf_up,           \* "starting", "running" or "exited"
  applied            \* history: the lines in force
confVars == <<conf_file, CurConf, global_refcnt, conf_up, applied>>

(* preinit_config *)
preinit_config ==
  [targets |-> <<>>, auth_cluster |-> <<>>, min |-> 4, max |-> 8, default_cluster_id |-> 0,
   default_cluster |-> 0, have_proxy |-> FALSE, ok |-> TRUE]

(* mf_cluster_lookup: the place of the cluster; 0 if there is none. *)
mf_cluster_lookup(MC, id, force) ==
  LET at == {i \in 1..Len(MC.auth_cluster) : MC.auth_cluster[i].id = id}
  IN  IF at # {} THEN CHOOSE i \in at : \A j \in at : i <= j
      ELSE IF force THEN MC.default_cluster ELSE 0

Syntax(MC) == [MC EXCEPT !.ok = FALSE]

(* cfg_parse_server_port; the target goes to the next free place. *)
cfg_parse_server_port(MC, line, known) ==
  IF Len(MC.targets) >= MaxTargets \/ line.host \notin known \/ line.port \notin 1..65535 THEN Syntax(MC)
  ELSE [MC EXCEPT !.targets = Append(@, line.host)]

(* A proxy of data centre `dc`: its cluster is new, or the last one; the   *)
(* first pass only notes the number of a new cluster.                      *)
PlaceAnywhere(MC, dc) ==
  LET n == Len(MC.auth_cluster)
      at == mf_cluster_lookup(MC, dc, FALSE)
      here == Len(MC.targets)
  IN  IF at = 0 THEN [MC EXCEPT !.auth_cluster = Append(@, [id |-> dc, first |-> here, num |-> 1])]
      ELSE [MC EXCEPT !.auth_cluster[at].num = @ + 1]
Place(MC, dc) ==
  LET n == Len(MC.auth_cluster)
      at == mf_cluster_lookup(MC, dc, FALSE)
      here == Len(MC.targets)
  IN  IF at = 0 THEN [MC EXCEPT !.auth_cluster = Append(@, [id |-> dc, first |-> here, num |-> 1])]
      ELSE IF at = n /\ MC.auth_cluster[n].first + MC.auth_cluster[n].num = here
           THEN [MC EXCEPT !.auth_cluster[n].num = @ + 1]
      ELSE Syntax(MC)
Proxy(MC, line, dc, known) ==
  IF Len(MC.auth_cluster) >= MaxClusters THEN Syntax(MC)
  ELSE LET put == cfg_parse_server_port([MC EXCEPT !.have_proxy = TRUE], line, known)
       IN  IF put.ok THEN Place(put, dc) ELSE put

(* One directive of parse_config. *)
DcOk(n) == n \in -DcLimit..DcLimit - 1
Directive(MC, line, known) ==
  CASE line.word = "timeout" -> IF line.n \in 10..30000 THEN MC ELSE Syntax(MC)
    [] line.word = "default" -> IF DcOk(line.n) THEN [MC EXCEPT !.default_cluster_id = line.n] ELSE Syntax(MC)
    [] line.word = "proxy_for" -> IF DcOk(line.n) THEN Proxy(MC, line, line.n, known) ELSE Syntax(MC)
    [] line.word = "proxy" -> Proxy(MC, line, 0, known)
    [] line.word = "max_connections" ->
         IF line.n < MC.min \/ line.n > 1000 THEN Syntax(MC) ELSE [MC EXCEPT !.max = line.n]
    [] line.word = "min_connections" ->
         IF line.n < 1 \/ line.n > MC.max THEN Syntax(MC) ELSE [MC EXCEPT !.min = line.n]
    [] OTHER -> Syntax(MC)

parse_config(lines, known) ==
  LET Step(MC, line) ==
        IF ~MC.ok THEN MC
        ELSE LET next == Directive(MC, line, known) IN IF line.semicolon THEN next ELSE Syntax(next)
      MC == FoldLeft(Step, preinit_config, lines)
  IN  IF ~MC.ok \/ ~MC.have_proxy THEN Syntax(MC)
      ELSE [MC EXCEPT !.default_cluster = mf_cluster_lookup(MC, MC.default_cluster_id, FALSE)]

(* clear_config, create_target, destroy_target: the references of a target *)
Uses(targets, h) == Len(SelectSeq(targets, LAMBDA t : t = h))
ServersCounted(refs, add, drop) == [h \in ConfHosts |-> refs[h] + Uses(add, h) - Uses(drop, h)]
clear_config == preinit_config

-----------------------------------------------------------------------------
ConfInit ==
  /\ conf_file \in ConfFiles
  /\ CurConf = clear_config
  /\ global_refcnt = [h \in ConfHosts |-> 0]
  /\ conf_up = "starting" /\ applied = <<>>

EditConf ==
  /\ conf_up = "running" /\ conf_file' \in ConfFiles
  /\ UNCHANGED <<CurConf, global_refcnt, conf_up, applied>>

(* do_reload_config, with `first` and `second` the names that resolve in   *)
(* the two passes: the first pass checks, the second creates the targets;  *)
(* then the two structures change places and the old one is cleared.  A    *)
(* file that fails only the second pass ends the program.                  *)
NotApplied ==
  /\ conf_up' = IF conf_up = "starting" THEN "exited" ELSE conf_up
  /\ UNCHANGED <<CurConf, global_refcnt, applied>>
Applied(lines, MC) ==
  /\ CurConf' = MC
  /\ global_refcnt' = ServersCounted(global_refcnt, MC.targets, CurConf.targets)
  /\ conf_up' = "running" /\ applied' = lines
do_reload_config(first, second) ==
  LET lines == conf_file.lines
      pass1 == parse_config(lines, first)
      pass2 == parse_config(lines, second)
  IN  /\ conf_up # "exited"
      /\ \/ ~conf_file.ok /\ NotApplied
         \/ conf_file.ok /\ ~pass1.ok /\ NotApplied
         \/ conf_file.ok /\ pass1.ok /\ pass2.ok /\ Applied(lines, pass2)
         \/ /\ conf_file.ok /\ pass1.ok /\ ~pass2.ok
            /\ conf_up' = "exited"
            /\ UNCHANGED <<CurConf, global_refcnt, applied>>
      /\ UNCHANGED conf_file

Resolving == {ConfHosts} \cup {ConfHosts \ {h} : h \in ConfHosts}
ConfNext == EditConf \/ \E first, second \in Resolving : do_reload_config(first, second)

(* choose_proxy_target: the targets among which one is chosen at random.   *)
choose_proxy_target(dc) ==
  LET at == mf_cluster_lookup(CurConf, dc, TRUE)
  IN  IF at = 0 THEN <<>>
      ELSE LET c == CurConf.auth_cluster[at] IN SubSeq(CurConf.targets, c.first, c.first + c.num - 1)

-----------------------------------------------------------------------------
(* The reference: the proxies a file names for a data centre. *)
DcOf(line) == IF line.word = "proxy" THEN 0 ELSE line.n
IsProxy(line) == line.word \in {"proxy", "proxy_for"}
NamedFor(lines, dc) ==
  LET mine == SelectSeq(lines, LAMBDA l : IsProxy(l) /\ DcOf(l) = dc) IN [i \in 1..Len(mine) |-> mine[i].host]
LastDefault(lines) ==
  LET d == SelectSeq(lines, LAMBDA l : l.word = "default") IN IF d = <<>> THEN 0 ELSE d[Len(d)].n
WantedFor(dc) == IF NamedFor(applied, dc) # <<>> THEN NamedFor(applied, dc) ELSE NamedFor(applied, LastDefault(applied))

(* While the program runs, the proxies for every data centre are those the *)
(* last accepted file names for it, in their order, or those of the        *)
(* default one; every target is referenced as often as that file names it, *)
(* so that none of an earlier file stays and none of this one goes.  Only  *)
(* a name that stops resolving between the two passes ends the program.    *)
ConfigInForce ==
  conf_up = "running" =>
    /\ \A dc \in -DcLimit..DcLimit : choose_proxy_target(dc) = WantedFor(dc)
    /\ \A h \in ConfHosts : global_refcnt[h] = Uses(CurConf.targets, h)
    /\ CurConf.targets # <<>> /\ Len(CurConf.targets) <= MaxTargets
    /\ CurConf.min \in 1..CurConf.max
=============================================================================
