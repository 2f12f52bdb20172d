SPECIFICATION FdSpec
CONSTANTS
  Fds = {1}
  Socks = {s1, s2}
  Getters = {x1, x2}
  Sweeper = x1
  NoSock = NoSock
INVARIANTS SlotUnused
