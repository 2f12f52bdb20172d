----------------------------- MODULE MCClients -----------------------------
(* The pairs of direct mode, and the slots of a proxy without pinned       *)
(* secrets, whose clients may find no secret at all.  A behaviour moves    *)
(* one of the two.                                                         *)
EXTENDS SecretSlots, DirectRelay

CONSTANTS k1, k2, c1, c2, d1, d2

NoPinned == <<>>

E(k, l, t) == [key |-> k, limit |-> l, ttl |-> t]

(* The last file has more secrets than MaxActive = 1 allows.               *)
NoneOneTwo == {<<>>, <<E(k1, 0, Never)>>, <<E(k1, 1, Never), E(k2, 0, Never)>>}

(* A SOCKS5 proxy whose connects may fail at once, for one client at a     *)
(* time, and plain connects that fail later, for both.                     *)
OverProxy == Conf(TRUE, TRUE, 1)
TwoConfs == {OverProxy, Conf(FALSE, FALSE, 3)}

VARIABLE part

bothVars == <<vars, directVars, part>>

BothInit ==
  /\ Init /\ DirectInit
  /\ part = "pairs" \/ (part = "slots" /\ conf = OverProxy)

OnSlots(A) == part = "slots" /\ A /\ UNCHANGED <<directVars, part>>
OnPairs(A) == part = "pairs" /\ A /\ UNCHANGED <<vars, part>>

BothNext == OnSlots(Next) \/ OnPairs(DirectNext)

(* A signalled job is run and an armed timer fires.  A connect is answered *)
(* or times out in the kernel.                                             *)
BothSpec ==
  /\ BothInit /\ [][BothNext]_bothVars
  /\ \A c \in Clients :
       /\ WF_bothVars(OnPairs(ClientRun(c))) /\ WF_bothVars(OnPairs(CloseClient(c)))
       /\ WF_bothVars(OnPairs(Alarm(c)))
  /\ \A d \in DCs :
       WF_bothVars(OnPairs(CloseDc(d))) /\ WF_bothVars(OnPairs(tcp_direct_dc_connected(d)))
=============================================================================
