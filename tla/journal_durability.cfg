SPECIFICATION Spec
CONSTANTS
  Putters = {p1, p2}
  Getters = {p2}
  Listers = {p2}
  Digests = {d1}
  Inodes = {i1, i2}
  Foreign = {}
  HasAlien = FALSE
  Faults = {"io", "unlink", "crash", "power"}
  TempTries = 2
  ListBound = 2
  NoInode = NoInode
  Torn = Torn
  Alien = Alien
  p1 = p1
  p2 = p2
  d1 = d1
  i1 = i1
  i2 = i2
SYMMETRY Symmetry
INVARIANTS ReadersKeepPromises AckedDurable NoTornRecord NoFalseIntegrity
PROPERTIES RecordsImmutable StoreSpec
