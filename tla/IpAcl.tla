------------------------------- MODULE IpAcl -------------------------------
(* The address lists (net-ip-acl.c): reading the files, matching networks, *)
(* and reloading while the files change or cannot be read.  An address is  *)
(* a sequence of bits; an IPv6 address is V6Bytes bytes of ByteBits bits,  *)
(* and one that carries an IPv4 address starts with Mapped.                *)
EXTENDS Integers, Sequences, SequencesExt

CONSTANTS
  V4Bits, ByteBits, V6Bytes,
  Mapped,            \* the bits in front of a v4-mapped address
  AclFiles           \* contents of a list: [state, lines]; state is "text" or "unreadable"

VARIABLES
  blocklist_file, allowlist_file,  \* what the files hold now; NoFile if not set
  blocklist, allowlist,            \* current_blocklist, current_allowlist: the rules, or Null
  acl_up,                          \* the program runs: the first load did not fail
  read                             \* history: the last readable contents of the two files
aclVars == <<blocklist_file, allowlist_file, blocklist, allowlist, acl_up, read>>

V6Bits == ByteBits * V6Bytes
Addresses4 == [1..V4Bits -> 0..1]
Addresses6 == [1..V6Bits -> 0..1]
Null == [loaded |-> FALSE, rules |-> <<>>]
NoFile == [state |-> "none", lines |-> <<>>]

(* mask_v4, mask_v6 *)
mask_v4(a, prefix_len) ==
  IF prefix_len <= 0 THEN [k \in 1..V4Bits |-> 0]
  ELSE IF prefix_len >= V4Bits THEN a
  ELSE [k \in 1..V4Bits |-> IF k <= prefix_len THEN a[k] ELSE 0]

(* The bits of the byte's mask that are set. *)
ByteMaskLoose(prefix_len, i) ==
  LET bits == prefix_len - i * ByteBits
  IN  IF bits >= ByteBits THEN 1..ByteBits ELSE {}
ByteMask(prefix_len, i) ==
  LET bits == prefix_len - i * ByteBits
  IN  IF bits >= ByteBits THEN 1..ByteBits ELSE IF bits > 0 THEN 1..bits ELSE {}
mask_v6(a, prefix_len) ==
  [k \in 1..V6Bits |-> LET i == (k - 1) \div ByteBits
                       IN  IF k - i * ByteBits \in ByteMask(prefix_len, i) THEN a[k] ELSE 0]

(* ip_acl_parse_cidr: a line [net, prefix]; prefix is -1 if it names none. *)
ip_acl_parse_cidr(line) ==
  LET bits == Len(line.net)
      p == IF line.prefix = -1 THEN bits ELSE line.prefix
  IN  [family |-> bits, prefix_len |-> p,
       addr |-> IF bits = V4Bits THEN mask_v4(line.net, p) ELSE mask_v6(line.net, p)]
Parses(line) == line.kind = "net" /\ line.prefix <= Len(line.net)

(* ip_acl_load: blank lines, comments and lines that do not parse are left *)
(* out.                                                                    *)
ip_acl_load(file) ==
  IF file.state = "unreadable" THEN Null
  ELSE LET good == SelectSeq(file.lines, Parses)
       IN  [loaded |-> TRUE, rules |-> [i \in 1..Len(good) |-> ip_acl_parse_cidr(good[i])]]

match_v4(r, ip) == r.family = V4Bits /\ mask_v4(ip, r.prefix_len) = r.addr
match_v6(r, ip) ==
  /\ r.family = V6Bits
  /\ \A i \in 0..V6Bytes - 1 : \A b \in 1..ByteBits :
       (IF b \in ByteMask(r.prefix_len, i) THEN ip[i * ByteBits + b] ELSE 0) = r.addr[i * ByteBits + b]

Active(acl) == acl.loaded /\ Len(acl.rules) > 0
acl_contains_v4(acl, ip) == \E i \in 1..Len(acl.rules) : match_v4(acl.rules[i], ip)
acl_contains_v6(acl, ip) == \E i \in 1..Len(acl.rules) : match_v6(acl.rules[i], ip)

(* v6_to_v4_mapped: the address 0 stands for "not mapped". *)
v6_to_v4_mapped(ip) == IF SubSeq(ip, 1, Len(Mapped)) = Mapped THEN SubSeq(ip, Len(Mapped) + 1, V6Bits) ELSE mask_v4(ip, 0)
EitherContains(acl, ip) ==
  LET v4 == v6_to_v4_mapped(ip)
  IN  acl_contains_v6(acl, ip) \/ (v4 # mask_v4(v4, 0) /\ acl_contains_v4(acl, v4))

ip_acl_check_v4(ip) ==
  IF Active(allowlist) THEN acl_contains_v4(allowlist, ip)
  ELSE Active(blocklist) => ~acl_contains_v4(blocklist, ip)
ip_acl_check_v6(ip) ==
  IF Active(allowlist) THEN EitherContains(allowlist, ip)
  ELSE Active(blocklist) => ~EitherContains(blocklist, ip)

-----------------------------------------------------------------------------
(* ip_acl_reload on one list: the old rules stay when the file cannot be   *)
(* read; without old rules that is fatal, and the second list is not read. *)
Reloaded(file, acl) == IF file = NoFile \/ ip_acl_load(file) = Null THEN acl ELSE ip_acl_load(file)
Fatal(file, acl) == file # NoFile /\ Reloaded(file, acl) = Null

AclInit ==
  /\ blocklist_file \in AclFiles \cup {NoFile} /\ allowlist_file \in AclFiles \cup {NoFile}
  /\ blocklist = Null /\ allowlist = Null /\ acl_up = FALSE
  /\ read = [block |-> NoFile, allow |-> NoFile]

(* The files change under the program. *)
Edit ==
  /\ acl_up
  /\ \/ blocklist_file # NoFile /\ blocklist_file' \in AclFiles /\ UNCHANGED allowlist_file
     \/ allowlist_file # NoFile /\ allowlist_file' \in AclFiles /\ UNCHANGED blocklist_file
  /\ UNCHANGED <<blocklist, allowlist, acl_up, read>>

(* ip_acl_reload, at start and on SIGHUP. *)
FileReadable(file, before) == IF file.state # "text" THEN before ELSE file
ip_acl_reload ==
  LET failed == Fatal(blocklist_file, blocklist)
  IN  /\ blocklist' = Reloaded(blocklist_file, blocklist)
      /\ allowlist' = IF failed THEN allowlist ELSE Reloaded(allowlist_file, allowlist)
      /\ acl_up' = (acl_up \/ ~(failed \/ Fatal(allowlist_file, allowlist)))
      /\ read' = [block |-> FileReadable(blocklist_file, read.block),
                  allow |-> IF failed THEN read.allow ELSE FileReadable(allowlist_file, read.allow)]
      /\ UNCHANGED <<blocklist_file, allowlist_file>>

AclNext == Edit \/ ip_acl_reload

-----------------------------------------------------------------------------
(* The reference: an address lies in the network of a line if the first    *)
(* bits agree.                                                             *)
InNet(ip, l) == \A k \in 1..(IF l.prefix = -1 THEN Len(l.net) ELSE l.prefix) : ip[k] = l.net[k]
Listed(ip, file) == \E l \in ToSet(file.lines) : Parses(l) /\ Len(l.net) = Len(ip) /\ InNet(ip, l)
AnyNet(file) == \E l \in ToSet(file.lines) : Parses(l)
AlsoKnownAs(ip) ==
  {ip} \cup (IF Len(ip) = V6Bits /\ SubSeq(ip, 1, Len(Mapped)) = Mapped /\ \E k \in Len(Mapped) + 1..V6Bits : ip[k] = 1
             THEN {SubSeq(ip, Len(Mapped) + 1, V6Bits)} ELSE {})
Admitted(ip) ==
  IF AnyNet(read.allow) THEN \E n \in AlsoKnownAs(ip) : Listed(n, read.allow)
  ELSE AnyNet(read.block) => \A n \in AlsoKnownAs(ip) : ~Listed(n, read.block)

(* While the program runs, an address is admitted exactly as the last      *)
(* readable contents of the two files say: only the allowlist's networks   *)
(* if it has any, else all but the blocklist's; a failed reload changes    *)
(* nothing.                                                                *)
AclFollowsFiles ==
  acl_up =>
    /\ \A ip \in Addresses4 : ip_acl_check_v4(ip) <=> Admitted(ip)
    /\ \A ip \in Addresses6 : ip_acl_check_v6(ip) <=> Admitted(ip)
=============================================================================
