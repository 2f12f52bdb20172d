--------------------------- MODULE MCSecretSlots ---------------------------
(* Small instances of SecretSlots for TLC. *)
EXTENDS SecretSlots, TLC

CONSTANTS k0, k1, k2, c1, c2

MCPinnedKey == [p \in 0 .. Pinned - 1 |-> k0]

E(k, l, t) == [key |-> k, limit |-> l, ttl |-> t]

\* An empty file, one limited secret that expires, and two secrets with a
\* collision with the pinned one.
MCConfigs == {
  <<>>,
  <<E(k1, 1, 1)>>,
  <<E(k0, 1, Never), E(k2, 0, Never), E(k1, 0, Never)>>}

\* Files that each add one secret to pinned ones that already fill MaxActive.
Overfull == {<<E(k1, 0, Never)>>, <<E(k2, 0, Never)>>}
=============================================================================
