----------------------------- MODULE EngineRpc -----------------------------
(* One query of the engine's RPC port (engine-rpc.c): the job that carries *)
(* it, the subjob that performs it, the timer that limits it, and how the  *)
(* subjob's end reaches its parent (complete_subjob in jobs.c).  Both jobs *)
(* belong to a class of several threads, so that a handler of one runs     *)
(* while the other is between two of its accesses to the parent.  No       *)
(* function of this program creates subjobs of its own, so that `act`      *)
(* never asks to be tried again.                                           *)
EXTENDS Integers, Sequences

CONSTANTS
  Packets            \* kinds of packet: "custom", "header", "function", "query"

VARIABLES
  packet,            \* what arrived
  query,             \* the job and its query_work_params
  atom,              \* the subjob and its tl_act_extra
  replies            \* the answers sent, oldest first
rpcVars == <<packet, query, atom, replies>>

(* Pending signals are run the highest number first. *)
Number == [RUN |-> 0, ALARM |-> 4, ABORT |-> 5]
Next1(sigs) == CHOOSE s \in sigs : \A r \in sigs : Number[r] <= Number[s]

(* do_create_query_job; the subjob does not exist yet. *)
RpcInit ==
  /\ packet \in Packets
  /\ query = [run |-> "job", sigs |-> {"RUN"}, completed |-> FALSE, children |-> 0, timer |-> FALSE,
              result |-> 0, error |-> 0, error_code |-> FALSE, answer_sent |-> 0, j_error |-> FALSE]
  /\ atom = [pc |-> "none", raw |-> FALSE, j_error |-> FALSE]
  /\ replies = <<>>

(* tl_aio_init_store: the remote process may be gone, and then there is no *)
(* answer to write.                                                        *)
Reachable == BOOLEAN

Said(q) == IF q.error_code THEN "error" ELSE "result"
(* A handler that forgets the answer already given. *)
SentAgain(q, io, what) == IF io THEN <<what>> ELSE <<>>
Sent(q, io, what) == IF q.answer_sent = 0 /\ io THEN <<what>> ELSE <<>>

-----------------------------------------------------------------------------
(* The handlers: each is given the job's fields without the signal it runs. *)

(* query_job_run: another operation becomes a custom job, a bad header is  *)
(* answered at once, a query becomes a parse job under a timer.            *)
query_job_run(q, io) ==
  CASE packet = "custom" -> [q |-> [q EXCEPT !.run = "custom", !.sigs = @ \cup {"RUN"}], say |-> <<>>, sub |-> FALSE]
    [] packet = "header" -> [q |-> [q EXCEPT !.completed = TRUE], say |-> Sent(q, io, "error"), sub |-> FALSE]
    [] OTHER -> [q |-> [q EXCEPT !.run = "parse", !.timer = TRUE, !.sigs = @ \cup {"RUN"}], say |-> <<>>, sub |-> FALSE]

(* process_query_custom_subjob: the registered handler runs; no answer. *)
process_query_custom_subjob(q) == [q |-> [q EXCEPT !.completed = TRUE, !.timer = FALSE], say |-> <<>>, sub |-> FALSE]

(* process_parse_subjob: an unknown function aborts the job, another gets  *)
(* its subjob.                                                             *)
process_parse_subjob(q) ==
  IF packet = "function"
  THEN [q |-> [q EXCEPT !.run = "query", !.error = @ + 1, !.error_code = TRUE, !.sigs = @ \cup {"ABORT"}],
        say |-> <<>>, sub |-> FALSE]
  ELSE [q |-> [q EXCEPT !.run = "query", !.children = @ + 1], say |-> <<>>, sub |-> TRUE]

(* process_query_job, JS_RUN: the only answer with a result; result and    *)
(* error go out of the job's hands when they are sent.                     *)
QueryRun(q, io) ==
  LET p == IF q.result = 0 /\ q.error = 0 THEN [q EXCEPT !.error = 1, !.error_code = TRUE] ELSE q
      sent == Sent(p, io, Said(p))
  IN [q |-> [p EXCEPT !.answer_sent = @ + 1, !.timer = FALSE, !.completed = TRUE,
                      !.error = IF sent = <<"error">> THEN @ - 1 ELSE @,
                      !.result = IF sent = <<"result">> THEN @ - 1 ELSE @],
      say |-> sent, sub |-> FALSE]

(* JS_ALARM, accepted only while the timer is armed; JS_ABORT. *)
QueryFails(q, io) ==
  LET sent == Sent(q, io, "error")
  IN [q |-> [q EXCEPT !.answer_sent = IF sent # <<>> THEN @ + 1 ELSE @,
                      !.timer = FALSE, !.completed = TRUE,
                      !.error = IF sent # <<>> /\ q.error_code THEN @ - 1 ELSE @],
      say |-> sent, sub |-> FALSE]
QueryAlarm(q, io) ==
  IF q.timer THEN [QueryFails(q, io) EXCEPT !.q.j_error = TRUE]
             ELSE [q |-> q, say |-> <<>>, sub |-> FALSE]

Handled(q, s, io) ==
  CASE q.run = "job" -> query_job_run(q, io)
    [] q.run = "custom" -> process_query_custom_subjob(q)
    [] q.run \in {"parse", "query"} /\ s = "ABORT" -> QueryFails(q, io)
    [] q.run \in {"parse", "query"} /\ s = "ALARM" -> QueryAlarm(q, io)
    [] q.run = "parse" /\ s = "RUN" -> process_parse_subjob(q)
    [] OTHER -> QueryRun(q, io)

(* unlock_job on the query: one pending signal. *)
RunQuery ==
  /\ query.run # "freed" /\ query.sigs # {}
  /\ \E io \in Reachable :
       LET s == Next1(query.sigs)
           h == Handled([query EXCEPT !.sigs = @ \ {s}], s, io)
       IN /\ query' = h.q
          /\ replies' = replies \o h.say
          /\ atom' = IF h.sub THEN [pc |-> "act", raw |-> TRUE, j_error |-> FALSE] ELSE atom
  /\ UNCHANGED packet

(* The timer manager signals JS_ALARM; the handler checks that it is due. *)
Alarm ==
  /\ query.timer /\ "ALARM" \notin query.sigs
  /\ query' = [query EXCEPT !.sigs = @ \cup {"ALARM"}]
  /\ UNCHANGED <<packet, atom, replies>>

(* The last reference goes (the subjob's, the timer's, a signal's):        *)
(* JS_FINISH frees what the job still holds.                               *)
FreeQuery ==
  /\ query.run # "freed" /\ query.sigs = {} /\ ~query.timer
  /\ atom.pc = "none" \/ atom.pc = "done"
  /\ query' = [query EXCEPT !.run = "freed",
                            !.error = IF @ > 0 THEN @ - 1 ELSE @, !.result = IF @ > 0 THEN @ - 1 ELSE @]
  /\ UNCHANGED <<packet, atom, replies>>

-----------------------------------------------------------------------------
(* The subjob *)

(* process_act_atom_subjob, JS_RUN: the function answers or fails, and the *)
(* result, or the error and then its code, are written into the parent.    *)
Act ==
  /\ atom.pc = "act"
  /\ \/ /\ query' = [query EXCEPT !.result = @ + 1]
        /\ atom' = [atom EXCEPT !.raw = FALSE, !.pc = "complete"]
     \/ /\ query' = [query EXCEPT !.error = @ + 1]
        /\ atom' = [atom EXCEPT !.raw = FALSE, !.j_error = TRUE, !.pc = "code"]
  /\ UNCHANGED <<packet, replies>>
ActCode ==
  /\ atom.pc = "code"
  /\ query' = [query EXCEPT !.error_code = TRUE]
  /\ atom' = [atom EXCEPT !.pc = "complete"]
  /\ UNCHANGED <<packet, replies>>

(* complete_job, complete_subjob: the parent is looked at, then counted    *)
(* down, then signalled; between these steps it may complete by itself.    *)
Complete ==
  /\ atom.pc = "complete"
  /\ atom' = [atom EXCEPT !.pc = IF query.completed THEN "done" ELSE "count"]
  /\ UNCHANGED <<packet, query, replies>>
CountDown ==
  /\ atom.pc = "count"
  /\ query' = [query EXCEPT !.children = @ - 1, !.j_error = @ \/ atom.j_error]
  /\ atom' = [atom EXCEPT !.pc = IF atom.j_error THEN "abort" ELSE IF query.children = 1 THEN "run" ELSE "done"]
  /\ UNCHANGED <<packet, replies>>
SignalParent ==
  /\ atom.pc \in {"abort", "run"}
  /\ query' = [query EXCEPT !.sigs = @ \cup {IF atom.pc = "abort" THEN "ABORT" ELSE "RUN"}]
  /\ atom' = [atom EXCEPT !.pc = "done"]
  /\ UNCHANGED <<packet, replies>>

RpcNext == RunQuery \/ Alarm \/ FreeQuery \/ Act \/ ActCode \/ Complete \/ CountDown \/ SignalParent

-----------------------------------------------------------------------------
(* A query gets at most one answer, whatever the order of the timer, the   *)
(* subjob and the abort: a result only if the function gave one, an error  *)
(* otherwise.  The job is kept until its subjob has let go of it, and is   *)
(* freed in the end; result and error are freed or sent once.              *)
AnsweredOnce ==
  /\ Len(replies) <= 1
  /\ replies = <<"result">> => packet = "query" /\ ~atom.j_error
  /\ packet = "custom" => replies = <<>>
  /\ query.result \in 0..1 /\ query.error \in 0..1 /\ query.children \in 0..1
  /\ query.run = "freed" =>
       /\ query.result = 0 /\ query.error = 0 /\ atom.pc \in {"none", "done"}
       /\ query.completed
  /\ query.run = "query" /\ "RUN" \in query.sigs => query.children = 0
=============================================================================
