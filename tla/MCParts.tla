------------------------------ MODULE MCParts ------------------------------
(* Parts of the proxy that share no state, each with a small instance: a   *)
(* behaviour moves one of them.                                            *)
EXTENDS ReplayCache, ExtConn, RawMsg, RpcHandshake, TLC

CONSTANTS h1, h2, h3, h4, r1, r2, r3, b1, b2

(* Four hellos in scaled-down time; two share a prefix, and two prefixes a
   bucket. *)
MCPrefix == (h1 :> r1) @@ (h2 :> r2) @@ (h3 :> r3) @@ (h4 :> r1)
MCStamp == (h1 :> 2) @@ (h2 :> 4) @@ (h3 :> 7) @@ (h4 :> 8)
MCBucketOf == (r1 :> b1) @@ (r2 :> b1) @@ (r3 :> b2)

(* Everything the two ends may permit, with the same secret or not; and    *)
(* checksums, addresses, clocks and modes with plain encryption.           *)
Permissions ==
  {p \cup d : p \in SUBSET {"ALLOW_UNENC", "ALLOW_ENC"} \ {{}},
             d \in {{}, {"REQ_DH"}, {"REQ_DH", "ALLOW_SKIP_DH"}}}

Plain ==
  [perm |-> [e \in RpcEnds |-> {"ALLOW_ENC"}], same_secret |-> TRUE, lag |-> 1,
   crc32c |-> [e \in RpcEnds |-> TRUE], ignore_pid |-> [e \in RpcEnds |-> FALSE],
   remote_ip |-> 1, server_ip |-> 1, our_ip |-> 3]

MCSetups ==
  {[Plain EXCEPT !.perm = perm, !.same_secret = same] :
    perm \in [RpcEnds -> Permissions], same \in BOOLEAN}
  \cup {[Plain EXCEPT !.crc32c = crc, !.our_ip = own] :
         crc \in [RpcEnds -> BOOLEAN], own \in {0, 3}}
  \cup {[Plain EXCEPT !.remote_ip = remote, !.lag = lag, !.ignore_pid = mode] :
         remote \in {0, 1, 2}, lag \in {-2, 0, 2}, mode \in [RpcEnds -> BOOLEAN]}

VARIABLE turn

partVars == <<cacheVars, extVars, rawVars, rpcVars, turn>>

(* One setup is enough where the handshake does not move.                  *)
RpcIdle == RpcInit /\ setup = Plain

PartInit ==
  /\ CacheInit /\ ExtInit /\ RawInit
  /\ \/ turn \in {"replay", "relay", "messages"} /\ RpcIdle
     \/ turn = "rpc" /\ RpcInit

PartNext ==
  /\ UNCHANGED turn
  /\ \/ turn = "replay" /\ CacheNext /\ UNCHANGED <<extVars, rawVars, rpcVars>>
     \/ turn = "relay" /\ ExtNext /\ UNCHANGED <<cacheVars, rawVars, rpcVars>>
     \/ turn = "messages" /\ RawNext /\ UNCHANGED <<cacheVars, extVars, rpcVars>>
     \/ turn = "rpc" /\ RpcNext /\ UNCHANGED <<cacheVars, extVars, rawVars>>

PartSpec == PartInit /\ [][PartNext]_partVars

Interchangeable == Permutations(Msgs)
=============================================================================
