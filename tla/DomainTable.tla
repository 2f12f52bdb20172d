---------------------------- MODULE DomainTable ----------------------------
(* The domains the proxy imitates: how -D adds one and how the name in a   *)
(* client's hello finds it (net-tcp-rpc-ext-domain.c, get_domain_info).    *)
(* Names are sequences over a letter, the dot and the star.                *)
EXTENDS Integers, FiniteSets, Sequences

CONSTANTS
  Letters,         \* the characters of names; includes "." and "*"
  MaxName,         \* longest name that is looked up
  Added,           \* names that may be added
  MaxDomains

VARIABLES
  named, wild,     \* domains[] and wildcard_domains, newest first
  default          \* default_domain_info
domVars == <<named, wild, default>>

Names == UNION {[1..n -> Letters] : n \in 1..MaxName}
Backends == {"", "host", "unix", "badport"}
Nothing == [name |-> <<>>, backend |-> ""]

(* "*.a.b": labels that are not empty, at least two of them.               *)
is_wildcard_domain(p) ==
  /\ Len(p) >= 3 /\ p[1] = "*" /\ p[2] = "."
  /\ \A i \in 3..Len(p) : p[i] # "*" /\ (p[i] = "." => i > 3 /\ p[i - 1] # ".")
  /\ \E i \in 3..Len(p) : p[i] = "."
  /\ p[Len(p)] # "."

wildcard_match_any(p, sni) ==
  LET n == Len(sni) - (Len(p) - 1) IN
  n > 0 /\ SubSeq(sni, n + 1, Len(sni)) = SubSeq(p, 2, Len(p))
wildcard_match(p, sni) ==
  LET n == Len(sni) - (Len(p) - 1) IN
  /\ n > 0 /\ \A i \in 1..n : sni[i] \notin {".", "*"}
  /\ SubSeq(sni, n + 1, Len(sni)) = SubSeq(p, 2, Len(p))

tcp_rpc_add_proxy_domain(name, backend) ==
  LET info == [name |-> name, backend |-> backend]
      star == name[1] = "*"
  IN  /\ Len(named) + Len(wild) < MaxDomains
      /\ IF backend = "badport" \/ (star /\ (~is_wildcard_domain(name) \/ backend = ""))
         THEN UNCHANGED domVars
         ELSE /\ IF star THEN wild' = <<info>> \o wild /\ UNCHANGED named
                 ELSE named' = <<info>> \o named /\ UNCHANGED wild
              /\ default' = IF default = Nothing THEN info ELSE default

FirstFor(s, Match(_)) ==
  LET hits == {i \in DOMAIN s : Match(s[i].name)} IN
  IF hits = {} THEN Nothing ELSE s[CHOOSE i \in hits : \A j \in hits : i <= j]

get_domain_info(sni) ==
  LET exact == FirstFor(named, LAMBDA n : n = sni) IN
  IF exact # Nothing THEN exact ELSE FirstFor(wild, LAMBDA n : wildcard_match(n, sni))

DomInit == named = <<>> /\ wild = <<>> /\ default = Nothing
DomNext == \E n \in Added, b \in Backends : tcp_rpc_add_proxy_domain(n, b)

-----------------------------------------------------------------------------
(* Labels: what is between the dots.                                       *)
Label(s, i, j) == i <= j /\ \A k \in i..j : s[k] # "."
OneLabelMore(sni, p) ==
  \E i \in 1..Len(sni) - 1 :
    Label(sni, 1, i) /\ (\A k \in 1..i : sni[k] # "*") /\ sni[i + 1] = "." /\ SubSeq(sni, i + 2, Len(sni)) = SubSeq(p, 3, Len(p))

(* A name finds the domain that was added last under exactly that name;    *)
(* failing that, the wildcard added last that it has exactly one label     *)
(* more than; every wildcard has a backend to forward to, no name matches  *)
(* a domain that was refused, and there is a default as soon as there is   *)
(* a domain.                                                               *)
NamesFound ==
  /\ \A sni \in Names :
       LET found == get_domain_info(sni)
           exact == {i \in DOMAIN named : named[i].name = sni}
           match == {i \in DOMAIN wild : OneLabelMore(sni, wild[i].name)}
       IN  /\ exact # {} => \E i \in exact : found = named[i] /\ \A j \in exact : i <= j
           /\ exact = {} /\ match # {} => \E i \in match : found = wild[i] /\ \A j \in match : i <= j
           /\ exact = {} /\ match = {} => found = Nothing
  /\ \A i \in DOMAIN wild : wild[i].backend \in {"host", "unix"}
  /\ default = Nothing <=> named = <<>> /\ wild = <<>>

-----------------------------------------------------------------------------
(* update_domain_info: before it serves anybody the proxy opens ProbeTries *)
(* connections to the server it imitates, sends a ClientHello on each and  *)
(* measures the answers; get_domain_server_hello_encrypted_size uses the   *)
(* result for every client.                                                *)
CONSTANTS
  ProbeTries,           \* TRIES
  Sizes,           \* sizes of the encrypted part of an answer
  Noise,           \* SH_ENCRYPTED_NOISE_OFFSET
  MinSize,         \* SH_ENCRYPTED_MIN_SIZE
  Defaults         \* sizes a failed probe falls back to

VARIABLES
  phase,           \* "open", "select", "done"
  socks,           \* the state of each connection
  ready,           \* what select reports: [read, write, except]
  totals,          \* all_total_encrypted, in the order they finished
  failed,          \* have_error, or an early return
  info             \* [size, random] once done

probeVars == <<phase, socks, ready, totals, failed, info>>

Tried == 1..ProbeTries
Quiet == [read |-> {}, write |-> {}, except |-> {}]
Untested == [size |-> 0, random |-> FALSE]
ProbeInit ==
  /\ phase = "open" /\ socks = [i \in Tried |-> "none"] /\ ready = Quiet
  /\ totals = [i \in {} |-> 0] /\ failed = FALSE /\ info = Untested

(* What the answers add up to.                                             *)
TotalsMin == CHOOSE n \in {totals[i] : i \in DOMAIN totals} : \A i \in DOMAIN totals : n <= totals[i]
TotalsMax == CHOOSE n \in {totals[i] : i \in DOMAIN totals} : \A i \in DOMAIN totals : n >= totals[i]
TotalsSum ==
  LET sum[n \in 0..ProbeTries] == IF n = 0 THEN 0 ELSE sum[n - 1] + totals[n] IN sum[ProbeTries]
Rounded(sum, n) == (2 * sum + n) \div (2 * n)
Measured ==
  IF TotalsMin = TotalsMax THEN [size |-> TotalsMin, random |-> FALSE]
  ELSE IF TotalsMax - TotalsMin <= 3 THEN [size |-> TotalsMax - 1, random |-> TRUE]
  ELSE [size |-> Rounded(TotalsSum, ProbeTries), random |-> TRUE]

FinishWithAny ==
  /\ phase' = "done" /\ socks' = [i \in Tried |-> "closed"] /\ ready' = Quiet
  /\ IF totals # [i \in {} |-> 0] THEN info' = [size |-> TotalsMin, random |-> FALSE]
     ELSE \E n \in Defaults : info' = [size |-> n, random |-> TRUE]
(* The end: all connections are closed; a probe that did not finish on     *)
(* all of them leaves the defaults of init_one_domain.                     *)
Finish ==
  /\ phase' = "done" /\ socks' = [i \in Tried |-> "closed"] /\ ready' = Quiet
  /\ IF Cardinality(DOMAIN totals) = ProbeTries THEN info' = Measured
     ELSE \E n \in Defaults : info' = [size |-> n, random |-> TRUE]

(* One connection after the other; the first that fails ends the probe.    *)
Opening(i) == phase = "open" /\ socks[i] = "none" /\ \A j \in 1..i - 1 : socks[j] # "none"
OpenSocket(i) ==
  /\ Opening(i) /\ socks' = [socks EXCEPT ![i] = "connecting"]
  /\ phase' = IF i = ProbeTries THEN "select" ELSE "open"
  /\ UNCHANGED <<ready, totals, failed, info>>
OpenFails(i) ==
  /\ Opening(i) /\ failed' = TRUE /\ phase' = "done"
  /\ \E n \in Defaults : info' = [size |-> n, random |-> TRUE]
  /\ UNCHANGED <<socks, ready, totals>>

Watched == {i \in Tried : socks[i] # "finished"}
Written(i) == socks[i] \notin {"connecting", "finished"}

(* select reports some of the watched connections; when a signal           *)
(* interrupts it the sets stay as they were passed in.                     *)
Select ==
  /\ phase = "select" /\ ready = Quiet /\ ~failed /\ Watched # {}
  /\ \/ \E R \in SUBSET {i \in Watched : Written(i)}, W \in SUBSET {i \in Watched : ~Written(i)} :
          R \cup W # {} /\ ready' = [read |-> R, write |-> W, except |-> {}]
     \/ ready' = [read |-> {i \in Watched : Written(i)}, write |-> {i \in Watched : ~Written(i)}, except |-> Watched]
  /\ UNCHANGED <<phase, socks, totals, failed, info>>

(* A readable connection: the header of 5 bytes, the rest of the hello,    *)
(* the first encrypted record and whatever else has come.  The end of the  *)
(* last two also passes over an exception of the same round.               *)
NextStage == [header |-> "hello", hello |-> "record", record |-> "finished"]
ReadSocket(i) ==
  /\ phase = "select" /\ ~failed /\ i \in ready.read /\ socks[i] \in DOMAIN NextStage
  /\ \/ failed' = TRUE /\ ready' = [ready EXCEPT !.read = @ \ {i}] /\ UNCHANGED <<socks, totals>>
     \/ /\ socks[i] # "header" /\ ready' = [ready EXCEPT !.read = @ \ {i}]
        /\ UNCHANGED <<failed, socks, totals>>
     \/ /\ socks' = [socks EXCEPT ![i] = NextStage[@]] /\ UNCHANGED failed
        /\ ready' = [ready EXCEPT !.read = @ \ {i}, !.except = IF socks[i] = "header" THEN @ ELSE @ \ {i}]
        /\ IF socks[i] = "record"
           THEN \E n \in Sizes : totals' = [k \in 1..Cardinality(DOMAIN totals) + 1 |->
                  IF k \in DOMAIN totals THEN totals[k] ELSE n]
           ELSE UNCHANGED totals
  /\ UNCHANGED <<phase, info>>

WriteSocket(i) ==
  /\ phase = "select" /\ ~failed /\ i \in ready.write
  /\ ready' = [ready EXCEPT !.write = @ \ {i}]
  /\ \/ failed' = TRUE /\ UNCHANGED socks
     \/ socks' = [socks EXCEPT ![i] = "header"] /\ UNCHANGED failed
  /\ UNCHANGED <<phase, totals, info>>

(* Anything reported as an exception is an error.                          *)
ExceptSocket(i) ==
  /\ phase = "select" /\ ~failed /\ i \in ready.except /\ i \notin ready.read \cup ready.write
  /\ failed' = TRUE
  /\ ready' = [ready EXCEPT !.except = @ \ {i}]
  /\ UNCHANGED <<phase, socks, totals, info>>

(* Five seconds have passed, an error was met, or all have finished.       *)
EndLoop ==
  /\ phase = "select" /\ (failed \/ ready = Quiet) /\ Finish /\ UNCHANGED <<totals, failed>>

ProbeNext ==
  \/ \E i \in Tried : OpenSocket(i) \/ OpenFails(i) \/ ReadSocket(i) \/ WriteSocket(i) \/ ExceptSocket(i)
  \/ Select \/ EndLoop

(* get_domain_server_hello_encrypted_size for a client, noise added.       *)
AnswerSize(noise) ==
  IF ~info.random THEN info.size
  ELSE IF info.size + noise < MinSize THEN MinSize ELSE info.size + noise

-----------------------------------------------------------------------------
(* A connection is read only after its hello was written; the probe's      *)
(* result stands for all the answers or for none: every size that is sent  *)
(* to a client is a measured one when they agree, and otherwise lies       *)
(* within the noise of the measured range or is the least size allowed.    *)
ProbeRight ==
  /\ \A i \in ready.read : socks[i] # "connecting"
  /\ \A i \in ready.write : socks[i] = "connecting"
  /\ phase = "done" =>
       /\ info.random \in BOOLEAN /\ (Cardinality(DOMAIN totals) < ProbeTries => info.random /\ info.size \in Defaults)
       /\ Cardinality(DOMAIN totals) = ProbeTries =>
            \A d \in {-Noise, 0, Noise} :
              /\ TotalsMin = TotalsMax => AnswerSize(d) = totals[1]
              /\ AnswerSize(d) = MinSize \/ (TotalsMin - Noise <= AnswerSize(d) /\ AnswerSize(d) <= TotalsMax + Noise)
=============================================================================
